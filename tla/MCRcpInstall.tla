---------------------------- MODULE MCRcpInstall ----------------------------
(* One download at a time on a border router that works: its current image *)
(* is complete and runs on the RCP, the spare slot holds anything.         *)
EXTENDS RcpUpdate

Working == /\ file[BootSeq(stored)].part = "whole"
           /\ file[BootSeq(stored)].ver = rcp
           /\ rcp \in Bootable
           /\ LoadedVerified(stored)

\* A device as the build delivers it: an image in slot 0 only, nothing in NVS.
Delivered == Working /\ stored = Absent /\ file[1].part = "absent"

Steps == [][UpdateNext]_vars /\ WF_vars(MainStep)

InstallInit   == UpdateInitState /\ Working
DeliveredInit == UpdateInitState /\ Delivered

InstallSpec   == InstallInit /\ Steps
DeliveredSpec == DeliveredInit /\ Steps
=============================================================================
