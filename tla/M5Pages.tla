------------------------------- MODULE M5Pages -------------------------------
(***************************************************************************)
(* The pages of the M5Stack border router.  Buttons, keyboard, timers and  *)
(* lv_async_call run in the one LVGL task; the OpenThread task tells of    *)
(* roles, ends ephemeral keys and runs the page's Wi-Fi connection, which  *)
(* holds the OpenThread lock; the event task hears of the link and of keys *)
(* that ended.  LVGL is external: what lies on top takes every touch, and  *)
(* pending asynchronous calls run in an order of its own.  A page is named *)
(* by the key that it shows.                                               *)
(***************************************************************************)
EXTENDS Integers, Sequences, SequencesExt

CONSTANTS MaxKeys,      \* bound: ephemeral keys
          MaxPresses,   \* bound: presses of buttons that do something
          MaxMoves      \* bound: changes of role and link

ASSUME PagesAssumption == {MaxKeys, MaxPresses, MaxMoves} \subseteq Nat

VARIABLES
  ui,          \* create_ui: off, wifi read, wifi registered, thread read, on
  screen,      \* the page in front: main, wifi, thread or epskc
  layer,       \* lv_layer_top: connecting page, keyboard, warnings
  lv,          \* a handler of the LVGL task under way, and the page it has in hand
  asyncs,      \* pending lv_async_calls: <<what, with what>>
  keys, key,   \* ephemeral keys started; the one in force, 0: none
  ended,       \* REMOVE_MESHCOP_E events, by key
  display,     \* s_epskc_display_page, 0: NULL
  pages,       \* pages with a key that exist
  role, told,  \* role of the device; its change has been told to thread_update_msg
  role_label, role_old,       \* s_thread_role_label; history: it may be old
  dataset, under,             \* the dataset; history: Thread began under a keyboard
  wifi, s_wifi_state, state_label, \* link as esp_ot_wifi_cmd has it, as the page has it
  missed,      \* history: the link changed before the page listened
  ssid, job,   \* stored ssid; the connection in the OpenThread task
  stuck,       \* history: the empty ssid was connected to
  crossed,     \* history: a key's end came late or early for its page
  nomem,       \* history: LVGL had no memory for a key's page
  presses, moves

pageVars == <<ui, screen, layer, lv, asyncs, keys, key, ended, display, pages, role,
              told, role_label, role_old, dataset, under, wifi, s_wifi_state,
              state_label, missed, ssid, job, stuck, crossed, nomem, presses, moves>>
keyVars    == <<keys, key, ended, display, pages, crossed, nomem>>
threadVars == <<role, told, role_label, role_old, dataset, under>>
wifiPage   == <<wifi, s_wifi_state, state_label, missed, ssid, job, stuck>>

AtRest  == [at |-> "idle", page |-> 0]
Roles  == {"disabled", "detached", "leader"}
Links  == {"disconnected", "connected", "reconnecting"}
\* The page knows of no reconnecting.
Heard(link) == IF link = "connected" THEN link ELSE "disconnected"

PagesInit ==
  /\ ui = "off" /\ screen = "main" /\ lv = AtRest /\ asyncs = <<>>
  /\ layer = [connecting |-> FALSE, keyboard |-> "none", warnings |-> 0]
  /\ keys = 0 /\ key = 0 /\ ended = <<>> /\ display = 0 /\ pages = {}
  /\ role \in {"disabled", "leader"} /\ told = TRUE /\ role_label = "" /\ role_old = FALSE
  /\ dataset \in {"none", "first"} /\ under = FALSE
  /\ wifi \in {"disconnected", "connected"} /\ s_wifi_state = "disconnected"
  /\ state_label = "" /\ missed = FALSE /\ ssid \in {"none", "lab"}
  /\ job = "none" /\ stuck = FALSE /\ crossed = FALSE /\ nomem = FALSE
  /\ presses = 0 /\ moves = 0
  /\ role = "leader" => dataset = "first"
  /\ wifi = "connected" => ssid = "lab"

\* esp_openthread_lock_acquire: not while the connection runs.
LockFree == job # "running"
\* Nothing lies above the page that is in front.
Touches(page) == /\ ui = "on" /\ screen = page /\ lv = AtRest /\ LockFree
                 /\ ~layer.connecting /\ layer.keyboard = "none" /\ layer.warnings = 0
                 /\ presses < MaxPresses /\ presses' = presses + 1
Call(what, arg) == Append(asyncs, <<what, arg>>)
Pending(what)   == \E i \in DOMAIN asyncs : asyncs[i][1] = what

\* br_m5stack_create_warn with its timer, and the timer.
Warns == layer' = [layer EXCEPT !.warnings = @ + 1]
WarningEnds ==
  /\ lv = AtRest /\ layer.warnings > 0 /\ layer' = [layer EXCEPT !.warnings = @ - 1]
  /\ UNCHANGED <<ui, screen, lv, asyncs, keyVars, threadVars, wifiPage, presses, moves>>

-----------------------------------------------------------------------------
(* br_m5stack_create_ui, in a timer of the start-up animation. *)

WifiReads ==
  /\ ui = "off" /\ ui' = "wifi read"
  /\ s_wifi_state' = Heard(wifi) /\ state_label' = Heard(wifi)
  /\ UNCHANGED <<wifi, missed, ssid, job, stuck, threadVars>>
ThreadReads ==
  /\ ui = "wifi registered" /\ ui' = "thread read" /\ role_label' = role
  /\ UNCHANGED <<role, told, role_old, dataset, under, wifiPage>>
Registers ==
  /\ \/ ui = "wifi read" /\ ui' = "wifi registered"
     \/ ui = "thread read" /\ ui' = "on"
  /\ UNCHANGED <<threadVars, wifiPage>>

CreateUi ==
  /\ LockFree
  /\ WifiReads \/ ThreadReads \/ Registers
  /\ UNCHANGED <<screen, layer, lv, asyncs, keyVars, presses, moves>>

-----------------------------------------------------------------------------
(* The world: Thread and the Wi-Fi link, and whoever else changes them. *)

Move == moves < MaxMoves /\ moves' = moves + 1

RoleChanges(r) ==
  /\ LockFree /\ Move /\ role' = r /\ r # role /\ told' = FALSE
  /\ under' = (under \/ (role = "disabled" /\ layer.keyboard = "field"))
  /\ UNCHANGED <<ui, screen, layer, lv, asyncs, keyVars, role_label, role_old, dataset,
                 wifiPage, presses>>

\* Mutant: only the roles of an attached device are told.
ThreadUpdateAttached ==
  asyncs' = IF role = "leader" THEN Call("role", role) ELSE asyncs

\* thread_update_msg, for the role; the later of two pending calls may run first.
ThreadUpdate == asyncs' = Call("role", role)

ThreadUpdateMsg ==
  /\ LockFree /\ ~told /\ told' = TRUE
  /\ IF ui = "on" THEN ThreadUpdate /\ role_old' = Pending("role")
     ELSE UNCHANGED asyncs /\ role_old' = (ui = "thread read")
  /\ UNCHANGED <<ui, screen, layer, lv, keyVars, role, role_label, dataset, under,
                 wifiPage, presses, moves>>

\* handle_wifi_connect and handle_wifi_disconnect.
LinkChanges(link) ==
  /\ Move /\ link # wifi /\ wifi' = link
  /\ IF ui \in {"off", "wifi read"}
     THEN missed' = (missed \/ ui = "wifi read") /\ UNCHANGED <<s_wifi_state, asyncs>>
     ELSE /\ s_wifi_state' = Heard(link) /\ missed' = FALSE
          /\ asyncs' = IF s_wifi_state' # s_wifi_state THEN Call("state", 0) ELSE asyncs
  /\ UNCHANGED <<ui, screen, layer, lv, keyVars, threadVars, state_label, ssid, job,
                 stuck, presses>>

-----------------------------------------------------------------------------
(* Main page, keyboard and asynchronous calls. *)

\* br_m5stack_epskc_page_display has its conditions, the last of them that the
\* border router runs; the other two buttons have none.
Display(page) ==
  /\ Touches("main")
  /\ \/ page = "epskc" /\ Warns /\ UNCHANGED screen
     \/ /\ page = "epskc" => wifi = "connected" /\ role = "leader"
        /\ screen' = page /\ UNCHANGED layer
  /\ UNCHANGED <<ui, lv, asyncs, keyVars, threadVars, wifiPage, moves>>

\* br_m5stack_hidden_page_from_button: a page with a key lies above the exit button.
Hide ==
  /\ screen # "main" /\ Touches(screen) /\ (screen = "epskc" => pages = {})
  /\ screen' = "main"
  /\ UNCHANGED <<ui, layer, lv, asyncs, keyVars, threadVars, wifiPage, moves>>

\* br_m5stack_create_keyboard.
Keyboard(kind) == layer' = [layer EXCEPT !.keyboard = kind]

\* Mutant: the keyboard opens whatever the role is.
SetDatasetRunning == dataset # "none"

\* br_m5stack_thread_set_dataset: Thread is stopped and there is a dataset.
SetDatasetAllowed == role = "disabled" /\ dataset # "none"

\* br_m5stack_wifi_set_config, br_m5stack_thread_set_dataset, br_m5stack_epskc_custom_key.
OpenKeyboard ==
  /\ \/ /\ Touches("wifi")
        /\ IF wifi = "disconnected" THEN Keyboard("ssid") ELSE Warns
     \/ /\ Touches("thread")
        /\ IF SetDatasetAllowed THEN Keyboard("field") ELSE Warns
     \/ Touches("epskc") /\ pages = {} /\ Keyboard("key")
  /\ under' = FALSE
  /\ UNCHANGED <<ui, screen, lv, asyncs, keyVars, role, told, role_label, role_old,
                 dataset, wifiPage, moves>>

\* otBorderAgentEphemeralKeyStart of create_ephemeral_key_page.
KeyStart ==
  IF key = 0 /\ keys < MaxKeys
  THEN /\ keys' = keys + 1 /\ key' = keys + 1
       /\ lv' = [at |-> "create page", page |-> keys + 1]
       /\ layer' = [layer EXCEPT !.keyboard = "none"]
  ELSE /\ layer' = [layer EXCEPT !.keyboard = "none", !.warnings = @ + 1]
       /\ UNCHANGED <<keys, key, lv>>

\* kb_event_cb: cancelled, or what was typed goes to the callback, which takes it
\* or warns.  The empty ssid is taken; what is set in the dataset is told of.
KeyboardEvent ==
  /\ layer.keyboard # "none" /\ LockFree /\ lv = AtRest
  /\ \/ Keyboard("none") /\ UNCHANGED <<ssid, dataset, keys, key, lv>>
     \/ layer' = [layer EXCEPT !.keyboard = "none", !.warnings = @ + 1]
        /\ UNCHANGED <<ssid, dataset, keys, key, lv>>
     \/ /\ layer.keyboard = "ssid" /\ Keyboard("none") /\ ssid' \in {"", "lab"}
        /\ UNCHANGED <<dataset, keys, key, lv>>
     \/ /\ layer.keyboard = "field" /\ dataset' = "set"
        /\ layer' = [layer EXCEPT !.keyboard = "none", !.warnings = @ + 1]
        /\ UNCHANGED <<ssid, keys, key, lv>>
     \/ layer.keyboard = "key" /\ KeyStart /\ UNCHANGED <<ssid, dataset>>
  /\ UNCHANGED <<ui, screen, asyncs, ended, display, pages, crossed, nomem, role, told,
                 role_label, role_old, under, wifi, s_wifi_state, state_label, missed,
                 job, stuck, presses, moves>>

\* The pending calls, by what they do; wifi_connect_result_handler warns of a failure.
AsyncCall(i) ==
  /\ lv = AtRest /\ i \in DOMAIN asyncs /\ asyncs' = RemoveAt(asyncs, i)
  /\ LET c == asyncs[i] IN
     /\ role_label' = IF c[1] = "role" THEN c[2] ELSE role_label
     /\ state_label' = IF c[1] = "state" THEN s_wifi_state ELSE state_label
     /\ pages' = IF c[1] = "delete" THEN pages \ {c[2]} ELSE pages
     /\ layer' = IF c[1] = "result"
                 THEN [layer EXCEPT !.connecting = FALSE,
                                    !.warnings = IF c[2] = "ok" THEN @ ELSE @ + 1]
                 ELSE layer
  /\ UNCHANGED <<ui, screen, lv, keys, key, ended, display, crossed, nomem, role, told,
                 role_old, dataset, under, wifi, s_wifi_state, missed, ssid, job, stuck,
                 presses, moves>>

-----------------------------------------------------------------------------
(* The Wi-Fi page's connection. *)

\* br_m5stack_wifi_connect: with an empty ssid error is still ESP_OK at exit, so
\* that the page that waits for the connection comes below the warning.
WifiConnect ==
  /\ Touches("wifi")
  /\ IF wifi # "disconnected" \/ ssid = "none" THEN Warns /\ UNCHANGED <<job, stuck>>
     ELSE IF ssid = ""
     THEN /\ layer' = [layer EXCEPT !.connecting = TRUE, !.warnings = @ + 1]
          /\ stuck' = TRUE /\ UNCHANGED job
     ELSE \/ Warns /\ UNCHANGED <<job, stuck>>        \* the task queue is full
          \/ /\ layer' = [layer EXCEPT !.connecting = TRUE]
             /\ job' = "posted" /\ UNCHANGED stuck
  /\ UNCHANGED <<ui, screen, lv, asyncs, keyVars, threadVars, wifi, s_wifi_state,
                 state_label, missed, ssid, moves>>

\* Mutant: only what succeeds is reported.
ReportsOk(r) == asyncs' = IF r = "ok" THEN Call("result", r) ELSE asyncs

\* The end of wifi_connect_task.
Reports(r) == asyncs' = Call("result", r)

\* wifi_connect_task, around esp_ot_wifi_connect.
ConnectTask ==
  /\ job # "none"
  /\ IF job = "posted" THEN job' = "running" /\ UNCHANGED asyncs
     ELSE job' = "none" /\ \E r \in {"ok", "failed"} : Reports(r)
  /\ UNCHANGED <<ui, screen, layer, lv, keyVars, threadVars, wifi, s_wifi_state,
                 state_label, missed, ssid, stuck, presses, moves>>

-----------------------------------------------------------------------------
(* The Thread page. *)

\* br_m5stack_thread_random_dataset, which tells of success or failure,
\* br_m5stack_thread_connect and br_m5stack_thread_disconnect.
ThreadButton ==
  /\ Touches("thread")
  /\ \/ /\ dataset' \in IF role = "disabled" THEN {"random", dataset} ELSE {dataset}
        /\ Warns /\ UNCHANGED <<role, told>>
     \/ /\ role = "disabled" /\ role' = "detached" /\ told' = FALSE
        /\ dataset' = IF dataset = "none" THEN "started" ELSE dataset
        /\ UNCHANGED layer
     \/ role # "disabled" /\ Warns /\ UNCHANGED <<dataset, role, told>>
     \/ /\ role' = "disabled" /\ told' = (role = "disabled" /\ told)
        /\ UNCHANGED <<dataset, layer>>
  /\ UNCHANGED <<ui, screen, lv, asyncs, keyVars, role_label, role_old, under, wifiPage,
                 moves>>

-----------------------------------------------------------------------------
(* The page of an ephemeral key. *)

\* br_m5stack_epskc_random_key.
RandomKey ==
  /\ Touches("epskc") /\ pages = {} /\ KeyStart
  /\ UNCHANGED <<ui, screen, asyncs, ended, display, pages, crossed, nomem, threadVars,
                 wifiPage, moves>>

\* The rest of create_ephemeral_key_page: the page is stored, then its label and
\* button are made.  Without memory for these the page goes, but not its pointer.
CreatePage ==
  /\ lv.at \in {"create page", "fill page"}
  /\ \/ /\ lv.at = "create page" /\ lv' = [lv EXCEPT !.at = "fill page"]
        /\ pages' = pages \cup {lv.page} /\ display' = lv.page /\ UNCHANGED nomem
     \/ lv.at = "fill page" /\ lv' = AtRest /\ UNCHANGED <<pages, display, nomem>>
     \/ lv' = AtRest /\ pages' = pages \ {lv.page} /\ nomem' = TRUE /\ UNCHANGED display
  /\ UNCHANGED <<ui, screen, layer, asyncs, keys, key, ended, crossed, threadVars,
                 wifiPage, presses, moves>>

\* Mutant: a load for the exchange.
LoadDisplay == display' = display

\* atomic_exchange(&s_epskc_display_page, NULL).
TakeDisplay == display' = 0

\* epskc_delete_btn_handler: it takes the page if there is one ...
DeleteButton ==
  /\ Touches("epskc") /\ pages # {} /\ display # 0
  /\ lv' = [at |-> "stop key", page |-> display] /\ TakeDisplay
  /\ UNCHANGED <<ui, screen, layer, asyncs, keys, key, ended, pages, crossed, nomem,
                 threadVars, wifiPage, moves>>

\* A key that was in force ends.
KeyEnds == key' = 0 /\ ended' = IF key = 0 THEN ended ELSE Append(ended, key)

\* ... stops the key and deletes the page.
StopKey ==
  /\ LockFree /\ lv.at = "stop key" /\ lv' = AtRest /\ KeyEnds /\ pages' = pages \ {lv.page}
  /\ UNCHANGED <<ui, screen, layer, asyncs, keys, display, crossed, nomem, threadVars,
                 wifiPage, presses, moves>>

\* Its time is over, or it was used.
KeyExpires ==
  /\ LockFree /\ key # 0 /\ KeyEnds
  /\ UNCHANGED <<ui, screen, layer, lv, asyncs, keys, display, pages, crossed, nomem,
                 threadVars, wifiPage, presses, moves>>

\* Mutant: registered for the publication of a key instead of its removal.
RemoveNothing == UNCHANGED <<asyncs, display>>

\* br_m5stack_meshcop_e_remove_handler takes the page that there is, the ended
\* key's or a later one's; none if it comes before the page is stored.
RemovePage == IF display # 0 THEN asyncs' = Call("delete", display) /\ TakeDisplay
                             ELSE UNCHANGED <<asyncs, display>>

MeshcopERemove ==
  /\ ended # <<>> /\ ended' = Tail(ended) /\ RemovePage
  /\ crossed' = \/ crossed \/ display \notin {0, Head(ended)}
                \/ lv.at = "create page" /\ lv.page = Head(ended)
  /\ UNCHANGED <<ui, screen, layer, lv, keys, key, pages, nomem, threadVars, wifiPage,
                 presses, moves>>

PageTasks ==
  \/ CreateUi \/ ThreadUpdateMsg \/ WarningEnds \/ ConnectTask
  \/ \E i \in DOMAIN asyncs : AsyncCall(i)
  \/ CreatePage \/ StopKey \/ MeshcopERemove
PageUser ==
  \/ \E p \in {"wifi", "thread", "epskc"} : Display(p)
  \/ Hide \/ OpenKeyboard \/ KeyboardEvent \/ WifiConnect \/ ThreadButton
  \/ RandomKey \/ DeleteButton
PagesNext ==
  \/ PageTasks \/ PageUser \/ KeyExpires
  \/ \E r \in Roles : RoleChanges(r)
  \/ \E l \in Links : LinkChanges(l)

-----------------------------------------------------------------------------
Deletes == {i \in DOMAIN asyncs : asyncs[i][1] = "delete"}

\* A page is deleted once: whoever took it out of s_epskc_display_page, the
\* button or the event of the key's end, is the only one to have it, and what
\* the pointer holds and what is to be deleted exists.  Not where LVGL had no
\* memory for the page's contents, after which the pointer dangles.
DeletedOnce ==
  ~nomem => /\ \A i \in Deletes : /\ asyncs[i][2] \in pages \ {display}
                                  /\ lv.at = "stop key" => asyncs[i][2] # lv.page
                                  /\ \A j \in Deletes : asyncs[i] = asyncs[j] => i = j
            /\ lv.at = "stop key" => lv.page \in pages \ {display}
            /\ display # 0 => display \in pages

\* A key in force is on the screen, under a button that ends it, and no key's
\* page is behind another, unless the end of a key came too late or too early
\* for its page.
KeyShown ==
  ~nomem /\ ~crossed /\ lv = AtRest => /\ key # 0 => display = key /\ screen = "epskc"
                                       /\ \A p, q \in pages : p = q

\* The labels show the device's role and the link as soon as the calls for
\* them have run, however those and the start of the pages interleave.  Not
\* claimed: a change between the first reading and the registration, and two
\* roles told before the first was drawn, for they may be drawn in reverse.
LabelsTrue ==
  ui = "on" => /\ told /\ ~Pending("role") /\ ~role_old => role_label = role
               /\ ~missed /\ ~Pending("state") => state_label = Heard(wifi)

\* The page "Wi-Fi connecting..." is up exactly while there is a connection to
\* wait for, and covers the buttons whose handlers would wait for the lock; at
\* most one warning is up, the one that its timer deletes.  Not after the empty
\* ssid, which leaves the page up for good.
ConnectingCovers ==
  /\ ~stuck => (layer.connecting <=> job # "none" \/ Pending("result"))
  /\ layer.warnings <= 1 /\ (layer.keyboard # "none" => layer.warnings = 0)

PagesHold == DeletedOnce /\ KeyShown /\ LabelsTrue /\ ConnectingCovers

\* The pages replace or edit the dataset of a Thread that is stopped, unless
\* another had started it while the keyboard was open.
StoppedDataset ==
  [][dataset' # dataset => role = "disabled" \/ under]_pageVars

\* What waits goes: the page of a connection, and that of a key that has ended.
Leftover == \/ layer.connecting /\ ~stuck
            \/ pages # {} /\ key = 0 /\ ~crossed /\ ~nomem
=============================================================================
