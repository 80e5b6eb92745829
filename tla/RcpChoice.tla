----------------------------- MODULE RcpChoice -----------------------------
(***************************************************************************)
(* What the RCP bookkeeping of components/esp_rcp_update promises, without *)
(* its encoding: a register that says which of the two stored RCP images   *)
(* is the current one and whether that choice is trusted.  The register is *)
(* written behind: "mem" is the value the running program uses, "disk" the *)
(* set of values a reboot may find.  Documented in                         *)
(* docs/en/dev-guide/rcp_update.rst, 2.4.2.1 and 2.4.3.                    *)
(***************************************************************************)
EXTENDS Integers

VARIABLES mem, disk

Choice == [index : 0..1, trusted : BOOLEAN]

Init == /\ mem \in Choice
        /\ disk = {mem}

Become(index, trusted) == /\ mem' = [index |-> index, trusted |-> trusted]
                          /\ UNCHANGED disk

\* A downloaded image becomes the current one.
Install == Become(1 - mem.index, TRUE)

\* The current image works: the choice stays and is trusted.
Confirm == Become(mem.index, TRUE)

\* The current image could not be used: the other one becomes current.
Reject == Become(1 - mem.index, FALSE)

\* The RCP failed.  Only a trusted choice is abandoned, so that a report
\* repeated across reboots does not swing back to the image that failed.
FailOver == Become(IF mem.trusted THEN 1 - mem.index ELSE mem.index, FALSE)

\* From here on a reboot may find the new value, and later only that one.
Stage   == /\ \E d \in disk : disk' = {d, mem}
           /\ UNCHANGED mem
Persist == /\ mem \in disk
           /\ disk' = {mem}
           /\ UNCHANGED mem

Crash == \E d \in disk : mem' = d /\ disk' = {d}

Next == Install \/ Confirm \/ Reject \/ FailOver \/ Stage \/ Persist \/ Crash

Spec == Init /\ [][Next]_<<mem, disk>>
=============================================================================
