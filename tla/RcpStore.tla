------------------------------ MODULE RcpStore ------------------------------
(***************************************************************************)
(* The sequence bookkeeping of components/esp_rcp_update: the RAM handle   *)
(* s_handle, the int8 stored under "rcp_seq" in NVS, and the functions     *)
(* that move both.  A call is broken at its stores to s_handle and at its  *)
(* two NVS calls, because several tasks call these functions without a     *)
(* lock and power may be lost between any two of the steps.                *)
(***************************************************************************)
EXTENDS Integers

CONSTANTS Callers,      \* tasks that call the update API
          SerialCalls   \* TRUE: a call starts only when no other is running

ASSUME SerialAssumption == SerialCalls \in BOOLEAN

VARIABLES update_seq, verified,  \* s_handle
          ready,    \* esp_rcp_update_init has filled s_handle since power-up
          stored,   \* value of "rcp_seq" that survives a power loss
          staged,   \* value nvs_get_i8 returns: written, perhaps not committed
          call,     \* per caller: where its call is and the int8 it writes
          ret       \* result of the last call that returned

storeVars == <<update_seq, verified, ready, stored, staged, call, ret>>

RCP_VERIFIED_FLAG == 32
Absent == -1                                  \* NVS holds no "rcp_seq"

Flagged(val)  == (val \div RCP_VERIFIED_FLAG) % 2 = 1   \* val & FLAG
Cleared(val)  == val % RCP_VERIFIED_FLAG                \* val & ~FLAG, val < 64
WithFlag(val) == Cleared(val) + RCP_VERIFIED_FLAG       \* val | FLAG, val < 64

Encoded == {0, 1, RCP_VERIFIED_FLAG, 1 + RCP_VERIFIED_FLAG}

\* load_rcp_update_seq: what a boot makes of the stored value.
LoadedVerified(val) == IF val = Absent THEN TRUE ELSE Flagged(val)
LoadedSeqFlagged(val) == IF val = Absent THEN 0 ELSE val   \* mutant: flag kept
LoadedSeq(val)      == IF val = Absent THEN 0 ELSE Cleared(val)

\* esp_rcp_get_update_seq and esp_rcp_get_next_update_seq.
SeqOf(seq, v)   == IF v THEN seq ELSE 1 - seq
UpdateSeq       == SeqOf(update_seq, verified)
NextUpdateSeqUnwrapped == UpdateSeq + 1         \* mutant: the slots do not alternate
NextUpdateSeq   == 1 - UpdateSeq
BootSeq(val)    == SeqOf(LoadedSeq(val), LoadedVerified(val))

Idle == [pc |-> "idle", val |-> 0]

StoreInit ==
  /\ stored \in Encoded \cup {Absent}
  /\ staged = stored
  /\ update_seq = 0 /\ verified = FALSE /\ ready = FALSE
  /\ call = [c \in Callers |-> Idle]
  /\ ret = "ok"

-----------------------------------------------------------------------------
CanCall(c) == /\ ready
              /\ call[c].pc = "idle"
              /\ SerialCalls => \A d \in Callers : call[d].pc = "idle"

At(c, pc)       == call[c].pc = pc
Goto(c, pc)     == call' = [call EXCEPT ![c].pc = pc]
Step(c, pc, v)  == call' = [call EXCEPT ![c] = [pc |-> pc, val |-> v]]
Return(c, r)    == /\ call' = [call EXCEPT ![c] = Idle]
                   /\ ret' = r

\* esp_rcp_submit_new_image: s_handle.update_seq is stored before .verified.
SubmitNewImage(c) ==
  /\ CanCall(c)
  /\ update_seq' = NextUpdateSeq
  /\ Goto(c, "flag")
  /\ UNCHANGED <<verified, ready, stored, staged, ret>>

SubmitFlag(c) ==
  /\ At(c, "flag")
  /\ verified' = TRUE
  /\ Step(c, "set", WithFlag(update_seq))
  /\ UNCHANGED <<update_seq, ready, stored, staged, ret>>

\* esp_rcp_mark_image_verified(v): val first, then .verified, then .update_seq.
MarkImageVerified(c, v) ==
  /\ CanCall(c)
  /\ Step(c, "mark", IF v THEN WithFlag(UpdateSeq) ELSE UpdateSeq)
  /\ UNCHANGED <<update_seq, verified, ready, stored, staged, ret>>

MarkFlag(c) ==
  /\ At(c, "mark")
  /\ verified' = Flagged(call[c].val)
  /\ Goto(c, "seq")
  /\ UNCHANGED <<update_seq, ready, stored, staged, ret>>

MarkSeq(c) ==
  /\ At(c, "seq")
  /\ update_seq' = Cleared(call[c].val)
  /\ Goto(c, "set")
  /\ UNCHANGED <<verified, ready, stored, staged, ret>>

\* esp_rcp_mark_image_unusable: the flag goes, the sequence number stays.
MarkImageUnusable(c) ==
  /\ CanCall(c)
  /\ verified' = FALSE
  /\ Goto(c, "clear")
  /\ UNCHANGED <<update_seq, ready, stored, staged, ret>>

\* Mutant: the slot in use is stored, not the sequence number.
UnusableStoresSlot(c) ==
  /\ At(c, "clear")
  /\ Step(c, "set", UpdateSeq)
  /\ UNCHANGED <<update_seq, verified, ready, stored, staged, ret>>

UnusableClear(c) ==
  /\ At(c, "clear")
  /\ Step(c, "set", Cleared(update_seq))
  /\ UNCHANGED <<update_seq, verified, ready, stored, staged, ret>>

\* nvs_set_i8 and nvs_commit, the common tail of the three functions.
NvsSet(c) ==
  /\ At(c, "set")
  /\ staged' = call[c].val
  /\ Goto(c, "commit")
  /\ UNCHANGED <<update_seq, verified, ready, stored, ret>>

NvsCommit(c) ==
  /\ At(c, "commit")
  /\ stored' = staged
  /\ Return(c, "ok")
  /\ UNCHANGED <<update_seq, verified, ready, staged>>

NvsFail(c) ==
  /\ At(c, "set") \/ At(c, "commit")
  /\ Return(c, "error")
  /\ UNCHANGED <<update_seq, verified, ready, stored, staged>>

\* A restart clears RAM; a value set but not committed may or may not survive.
Restart ==
  /\ stored' \in {stored, staged}
  /\ staged' = stored'
  /\ update_seq' = 0 /\ verified' = FALSE /\ ready' = FALSE
  /\ call' = [c \in Callers |-> Idle]
  /\ ret' = "ok"

\* esp_rcp_update_init.
UpdateInit ==
  /\ ~ready
  /\ ready' = TRUE
  /\ update_seq' = LoadedSeq(staged)
  /\ verified' = LoadedVerified(staged)
  /\ UNCHANGED <<stored, staged, call, ret>>

CallStep(c) ==
  \/ SubmitFlag(c) \/ MarkFlag(c) \/ MarkSeq(c) \/ UnusableClear(c)
  \/ NvsSet(c) \/ NvsCommit(c)

StoreNext ==
  \/ UpdateInit
  \/ Restart
  \/ \E c \in Callers :
       \/ SubmitNewImage(c)
       \/ \E v \in BOOLEAN : MarkImageVerified(c, v)
       \/ MarkImageUnusable(c)
       \/ CallStep(c)
       \/ NvsFail(c)

StoreSpec == StoreInit /\ [][StoreNext]_storeVars

-----------------------------------------------------------------------------
CallPCs == {"idle", "flag", "mark", "seq", "clear", "set", "commit"}

\* Every variable stays in its type: in particular the sequence number is one
\* of the two slots and NVS never holds an int8 that is not an encoding.
StoreTypeOK ==
  /\ update_seq \in 0..1
  /\ verified \in BOOLEAN
  /\ ready \in BOOLEAN
  /\ stored \in Encoded \cup {Absent}
  /\ staged \in Encoded \cup {Absent}
  /\ call \in [Callers -> [pc : CallPCs, val : Encoded]]
  /\ ret \in {"ok", "error"}

Quiet == \A c \in Callers : call[c].pc = "idle"

\* Once a call has returned ESP_OK, the handle is what a reboot would load,
\* and it is committed: RAM and NVS never disagree about the current image
\* silently (a failed NVS write is reported to the caller).
HandleAgrees ==
  SerialCalls /\ ready /\ Quiet /\ ret = "ok" =>
    /\ stored = staged
    /\ update_seq = LoadedSeq(stored)
    /\ verified = LoadedVerified(stored)

-----------------------------------------------------------------------------
\* The choice the handle stands for, when a call is between its two stores
\* the one it is about to complete.
InFlight(pc) == CHOOSE c \in Callers : call[c].pc = pc
ChoiceOf(seq, v) == [index |-> SeqOf(seq, v), trusted |-> v]
DiskChoice(val)  == ChoiceOf(LoadedSeq(val), LoadedVerified(val))

memBar ==
  IF ~ready THEN DiskChoice(stored)
  ELSE IF \E c \in Callers : At(c, "flag") THEN ChoiceOf(update_seq, TRUE)
  ELSE IF \E c \in Callers : At(c, "seq")
       THEN DiskChoice(call[InFlight("seq")].val)
  ELSE ChoiceOf(update_seq, verified)

Abstract == INSTANCE RcpChoice WITH
              mem  <- memBar,
              disk <- {DiskChoice(stored), DiskChoice(staged)}

\* Calls made one at a time implement the write-behind register of RcpChoice:
\* the two-step update of the handle and the int8 encoding cannot be seen, and
\* a power loss at any step leaves a choice that was made, old or new.
ImplementsChoice == Abstract!Spec
=============================================================================
