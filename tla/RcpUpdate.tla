----------------------------- MODULE RcpUpdate -----------------------------
(***************************************************************************)
(* The life of an RCP image: the download tasks that write the spare slot, *)
(* the border-router task that flashes the current slot at boot or after a *)
(* radio failure, and the restarts that cut either short.  Composes the    *)
(* bookkeeping of RcpStore with the two image files and the RCP itself.    *)
(*   examples/common/thread_border_router/src/border_router_launch.c       *)
(*   components/esp_rcp_update/src/esp_rcp_update.c, esp_rcp_ota.c         *)
(*   components/esp_ot_cli_extension/src/esp_ot_{ota,rcp}_commands.c       *)
(***************************************************************************)
EXTENDS RcpStore

CONSTANTS Main,           \* the OpenThread task
          Downloads,      \* "ota_image_download" tasks
          Versions,       \* RCP versions the server or the flash image offers
          Bootable,       \* the versions an RCP runs
          Torn,           \* an RCP that was erased and not completely written
          FaultKinds,     \* bad events that may happen, see Fault
          UserUpdates,    \* the user may enter "otrcp update"
          MaxFaults, MaxDownloads   \* bounds, for model checking only

ASSUME UpdateAssumption ==
  /\ Main \notin Downloads /\ Callers = {Main} \cup Downloads
  /\ Torn \notin Versions /\ Bootable \subseteq Versions
  /\ FaultKinds \subseteq {"crash", "glitch", "flash", "connect", "nvs"}
  /\ UserUpdates \in BOOLEAN
  /\ MaxFaults \in Nat /\ MaxDownloads \in Nat

VARIABLES file,     \* file[s]: the image /rcp_fw/ot_rcp_<s>/, and who wrote it
          rcp,      \* what is on the RCP
          pc,       \* the OpenThread task
          image,    \* the image it opened to flash
          cli,      \* its update was asked for by "otrcp update"
          dl,       \* the download tasks
          faults, started   \* how many so far

fileVars == <<file, rcp>>
mainVars == <<pc, image, cli>>
bounds   == <<faults, started>>
vars     == <<storeVars, file, rcp, pc, image, cli, dl, faults, started>>

(* What can be read of an image: nothing; its version, the file ending     *)
(* before the firmware starts; the version and part of the firmware; all.  *)
Parts == {"absent", "empty", "header", "most", "whole"}
Next2(part) == CASE part = "empty"  -> "header"
                 [] part = "header" -> "most"
                 [] part = "most"   -> "whole"

Mixed == Torn    \* "by" of a file two downloads have written into
Image == [part : Parts, ver : Versions, by : Downloads \cup {Main, Mixed}]

\* esp_rcp_load_version_in_storage finds a version.
Loadable(f) == f.part \in {"header", "most", "whole"}

Current == file[UpdateSeq]
DlIdle  == [pc |-> "idle", slot |-> 0, img |-> [part |-> "absent",
              ver |-> CHOOSE v \in Versions : TRUE, by |-> Main]]

\* The bad events of one kind, at most MaxFaults of them altogether.
Fault(kind) == /\ kind \in FaultKinds
               /\ faults < MaxFaults
               /\ faults' = faults + 1
NoFault == UNCHANGED faults

Become(p) == pc' = p /\ UNCHANGED <<image, cli>>
MainFree  == At(Main, "idle")
\* An API call of Main starts, or the task moves on between two calls.
MainOnly  == UNCHANGED <<fileVars, dl, started>>
NoCall    == UNCHANGED storeVars

UpdateInitState ==
  /\ StoreInit
  /\ file \in [0..1 -> {f \in Image : f.by = Main}]
  /\ rcp \in Versions
  /\ pc = "off" /\ cli = FALSE
  /\ image = DlIdle.img
  /\ dl = [d \in Downloads |-> DlIdle]
  /\ faults = 0 /\ started = 0

-----------------------------------------------------------------------------
(* Restarts: esp_restart, abort and a power loss all end in the boot path. *)
Reboot == /\ Restart
          /\ pc' = "off" /\ cli' = FALSE /\ UNCHANGED image
          /\ dl' = [d \in Downloads |-> DlIdle]
          /\ UNCHANGED <<file, started>>

PowerLoss == Reboot /\ Fault("crash") /\ UNCHANGED rcp

-----------------------------------------------------------------------------
(* The OpenThread task.                                                    *)
Boot == /\ pc = "off"
        /\ UpdateInit
        /\ Become("radio") /\ MainOnly /\ NoFault

\* esp_openthread_init found a working RCP; so did esp_openthread_rcp_init.
RadioUp == /\ pc \in {"radio", "reinit"} /\ rcp \in Bootable
           /\ Become(IF pc = "radio" THEN "try" ELSE "running")
           /\ NoCall /\ MainOnly /\ NoFault

\* The stack calls rcp_failure_handler.
RadioFails == /\ \/ pc \in {"radio", "reinit"} /\ rcp \notin Bootable /\ NoFault
                 \/ pc \in {"radio", "reinit", "running"} /\ Fault("glitch")
              /\ Become("failed")
              /\ NoCall /\ MainOnly

\* Mutant: the failure handler flashes without abandoning the current image.
HandleFailureUnmarked == /\ pc = "failed" /\ NoCall
                         /\ Become("load") /\ MainOnly /\ NoFault

\* rcp_failure_handler up to esp_rcp_load_version_in_storage.
HandleFailure == /\ pc = "failed" /\ MarkImageUnusable(Main)
                 /\ Become("load") /\ MainOnly /\ NoFault

FailureLoads == /\ pc = "load" /\ MainFree
                /\ Become(IF Loadable(Current) THEN "flash" ELSE "reject")
                /\ NoCall /\ MainOnly /\ NoFault

\* Mutant: a version in storage is enough, it is not compared.
TryLoadsUncompared ==
  /\ pc = "try"
  /\ Become(IF Loadable(Current) THEN "agree" ELSE "reject")
  /\ NoCall /\ MainOnly /\ NoFault

\* try_update_ot_rcp compares the version in storage with the running one.
TryLoads == /\ pc = "try"
            /\ Become(IF ~Loadable(Current) THEN "reject"
                      ELSE IF Current.ver = rcp THEN "agree" ELSE "flash")
            /\ NoCall /\ MainOnly /\ NoFault

\* esp_rcp_update opens the file after it reached the RCP's boot loader.
\* The erase is what makes the RCP unusable until the last write.
UpdateOpens ==
  /\ pc = "flash" /\ Current.part # "absent"
  /\ image' = Current /\ pc' = "writing" /\ UNCHANGED cli
  /\ rcp' \in IF Current.part = "empty" THEN {rcp}
              ELSE IF Current.part = "header" THEN {rcp, Torn} ELSE {Torn}
  /\ NoCall /\ NoFault /\ UNCHANGED <<file, dl, started>>

UpdateFails == /\ pc = "flash"
               /\ \/ Current.part = "absent" /\ NoFault
                  \/ Fault("connect")
               /\ Become("reject") /\ NoCall /\ MainOnly

\* ESP_OK: fread may come short unseen, and the MD5 is taken over what was sent.
UpdateDone ==
  /\ pc = "writing" /\ image.part \in {"most", "whole"}
  /\ rcp' = IF image.part = "whole" /\ Current = image THEN image.ver ELSE Torn
  /\ Become("accept")
  /\ NoCall /\ NoFault /\ UNCHANGED <<file, dl, started>>

\* The result of seek_to_subfile(FLASH_ARGS) is not looked at: with an empty
\* file the number of binaries is indeterminate, and 0 is one of its values.
UpdateOfNothing == /\ pc = "writing" /\ image.part = "empty"
                   /\ Become("accept") /\ NoCall /\ MainOnly /\ NoFault

\* abort(): a subfile cannot be reached, or four attempts to write one failed.
UpdateAborts ==
  /\ pc = "writing"
  /\ \/ image.part \in {"empty", "header"} /\ NoFault
     \/ image.part \in {"most", "whole"} /\ Fault("flash")
  /\ Reboot /\ UNCHANGED rcp

\* Mutant: the image is marked verified whether or not it could be used.
MarkAlways == /\ pc \in {"accept", "agree", "reject"}
              /\ MarkImageVerified(Main, TRUE)
              /\ Become(IF pc = "agree" THEN "enter" ELSE "marked")
              /\ MainOnly /\ NoFault

\* update_rcp and "otrcp update": esp_rcp_mark_image_verified, its result unread.
Mark == /\ \/ pc \in {"accept", "agree"} /\ MarkImageVerified(Main, TRUE)
           \/ pc = "reject" /\ MarkImageVerified(Main, FALSE)
        /\ Become(IF pc = "agree" THEN "enter" ELSE "marked")
        /\ MainOnly /\ NoFault

AfterUpdate == /\ pc = "marked" /\ MainFree /\ NoFault
               /\ IF cli
                  THEN /\ pc' = "reinit" /\ cli' = FALSE /\ UNCHANGED image
                       /\ NoCall /\ MainOnly
                  ELSE Reboot /\ UNCHANGED rcp

EnterMainLoop == /\ pc = "enter" /\ MainFree
                 /\ Become("running") /\ NoCall /\ MainOnly /\ NoFault

UserUpdate == /\ UserUpdates /\ pc = "running"
              /\ pc' = "flash" /\ cli' = TRUE /\ UNCHANGED image
              /\ NoCall /\ MainOnly /\ NoFault

-----------------------------------------------------------------------------
(* The download tasks: esp_br_http_ota, an image without host firmware.    *)
DlGoto(d, p) == dl' = [dl EXCEPT ![d].pc = p]
DlSet(d, p, s, i) == dl' = [dl EXCEPT ![d] = [pc |-> p, slot |-> s, img |-> i]]
DlOnly       == UNCHANGED <<mainVars, rcp>>

StartDownload(d, v) ==
  /\ pc = "running" /\ dl[d].pc = "idle" /\ started < MaxDownloads
  /\ started' = started + 1
  /\ DlSet(d, "begun", 0, [part |-> "empty", ver |-> v, by |-> d])
  /\ NoCall /\ DlOnly /\ UNCHANGED <<file, faults>>

\* Mutant: the download is written over the current image.
OpenCurrent(d) ==
  /\ dl[d].pc = "begun"
  /\ DlSet(d, "writing", UpdateSeq, dl[d].img)
  /\ file' = [file EXCEPT ![UpdateSeq] = dl[d].img]
  /\ NoCall /\ DlOnly /\ UNCHANGED bounds

\* The first call of receive_rcp_fw: fopen(.., "w") of the spare slot.
OpenSpare(d) ==
  /\ dl[d].pc = "begun"
  /\ DlSet(d, "writing", NextUpdateSeq, dl[d].img)
  /\ file' = [file EXCEPT ![NextUpdateSeq] = dl[d].img]
  /\ NoCall /\ DlOnly /\ UNCHANGED bounds

\* Later calls.  Two writers of one file leave a mixture of their images.
WriteSpare(d) ==
  LET s == dl[d].slot
      new == [dl[d].img EXCEPT !.part = Next2(@)]
  IN  /\ dl[d].pc = "writing"
      /\ DlSet(d, IF new.part = "whole" THEN "finished" ELSE "writing", s, new)
      /\ file' = [file EXCEPT ![s] = IF @.by = d THEN new
                                     ELSE [@ EXCEPT !.part = "most", !.by = Mixed]]
      /\ NoCall /\ DlOnly /\ UNCHANGED bounds

\* The server, the network or the file system gives up: esp_rcp_ota_abort.
DownloadFails(d) ==
  /\ dl[d].pc \in {"begun", "writing"}
  /\ dl' = [dl EXCEPT ![d] = DlIdle]
  /\ NoCall /\ DlOnly /\ UNCHANGED <<file, bounds>>

\* Mutant: esp_rcp_ota_end without its check of ESP_RCP_OTA_STATE_FINISHED.
SubmitUnchecked(d) == /\ dl[d].pc \in {"writing", "finished"}
                      /\ SubmitNewImage(d) /\ DlGoto(d, "submitting")
                      /\ DlOnly /\ UNCHANGED <<file, bounds>>

\* esp_rcp_ota_end.
Submit(d) == /\ dl[d].pc = "finished" /\ SubmitNewImage(d)
             /\ DlGoto(d, "submitting")
             /\ DlOnly /\ UNCHANGED <<file, bounds>>

DownloadEnds(d) == /\ dl[d].pc = "submitting"
                   /\ \/ /\ NvsCommit(d) /\ DlGoto(d, "restart") /\ NoFault
                      \/ /\ NvsFail(d) /\ Fault("nvs")
                         /\ dl' = [dl EXCEPT ![d] = DlIdle]
                   /\ DlOnly /\ UNCHANGED <<file, started>>

DownloadRestarts(d) == dl[d].pc = "restart" /\ Reboot /\ NoFault /\ UNCHANGED rcp

-----------------------------------------------------------------------------
\* The API calls in progress; a download's commit is in DownloadEnds.
MainCall == /\ \/ CallStep(Main) /\ NoFault
               \/ NvsFail(Main) /\ Fault("nvs")
            /\ UNCHANGED <<fileVars, mainVars, dl, started>>
DlCall(d) == /\ SubmitFlag(d) \/ NvsSet(d)
             /\ UNCHANGED <<fileVars, mainVars, dl, bounds>>

MainStep == \/ Boot \/ RadioUp \/ RadioFails \/ HandleFailure \/ FailureLoads
            \/ TryLoads \/ UpdateOpens \/ UpdateFails \/ UpdateDone
            \/ UpdateOfNothing \/ UpdateAborts \/ Mark \/ AfterUpdate
            \/ EnterMainLoop \/ MainCall

DlStep(d) == \/ OpenSpare(d) \/ WriteSpare(d) \/ DownloadFails(d) \/ Submit(d)
             \/ DownloadEnds(d) \/ DownloadRestarts(d) \/ DlCall(d)

UpdateNext == \/ MainStep \/ UserUpdate \/ PowerLoss
              \/ \E d \in Downloads :
                   DlStep(d) \/ \E v \in Versions : StartDownload(d, v)

UpdateSpec == UpdateInitState /\ [][UpdateNext]_vars

\* The OpenThread task is scheduled whenever it can run.
FairSpec == UpdateSpec /\ WF_vars(MainStep)

-----------------------------------------------------------------------------
PCs   == {"off", "radio", "try", "failed", "load", "reject", "flash", "writing",
          "accept", "agree", "marked", "enter", "running", "reinit"}
DlPCs == {"idle", "begun", "writing", "finished", "submitting", "restart"}

\* The files, the RCP and the tasks stay in their types.
UpdateTypeOK ==
  /\ StoreTypeOK
  /\ file \in [0..1 -> Image]
  /\ rcp \in Versions \cup {Torn}
  /\ pc \in PCs /\ image \in Image /\ cli \in BOOLEAN
  /\ dl \in [Downloads -> [pc : DlPCs, slot : 0..1, img : Image]]
  /\ faults \in 0..MaxFaults /\ started \in 0..MaxDownloads

\* The slot a reboot will select, whichever of the two NVS values it finds.
BootSlots == {BootSeq(stored), BootSeq(staged)}

\* A download never touches an image that the next boot may select, whatever
\* has been submitted, marked and interrupted before.
CurrentIntact == [][\A s \in BootSlots : file'[s] = file[s]]_vars

\* A choice that is trusted on disk names a complete image: what
\* esp_rcp_ota_end applies is what was downloaded, and all of it.
AppliedIsWhole ==
  LoadedVerified(stored) => file[LoadedSeq(stored)].part = "whole"

\* There is always a complete image of a version that boots to go back to.
WayBack == \E s \in 0..1 : file[s].part = "whole" /\ file[s].ver \in Bootable

\* The main loop runs with an RCP flashed from the current image, and that
\* choice is trusted (until a download submits the next one).
RunsCurrent ==
  pc = "running" /\ Quiet /\ (\A d \in Downloads : dl[d].pc # "restart") =>
    verified /\ rcp = Current.ver

\* The boot path reaches the main loop only with a trusted current image that
\* the RCP runs, whatever failed on the way.
EntersCurrent == pc = "enter" /\ MainFree => verified /\ rcp = Current.ver

\* The border router gets back to its main loop after every failure, restart
\* and bad image.
Recovers == []<>(pc = "running")

\* It does so at least as long as there is an image to go back to.
RecoversWithImage == []WayBack => Recovers

=============================================================================
