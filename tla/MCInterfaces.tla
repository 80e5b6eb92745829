----------------------------- MODULE MCInterfaces -----------------------------
(***************************************************************************)
(* The two interfaces that an operator has at hand: the Zigbee console,    *)
(* with four commands one after the other, or the M5Stack's display.  They *)
(* are on different devices, so that one of them is in play.               *)
(***************************************************************************)
EXTENDS ZbConsole, M5Pages

VARIABLE inPlay

runVars == <<inPlay, vars, pageVars>>
RunInit == /\ inPlay \in {"console", "pages"} /\ Init /\ PagesInit
           /\ inPlay = "console" => /\ role = "disabled" /\ dataset = "none"
                                    /\ wifi = "disconnected" /\ ssid = "none"

InConsole(A) == inPlay = "console" /\ A /\ UNCHANGED <<inPlay, pageVars>>
InPages(A)   == inPlay = "pages" /\ A /\ UNCHANGED <<inPlay, vars>>

RunNext == InConsole(Next) \/ InPages(PagesNext)

\* The REPL task runs, the stack answers every request, if only with a timeout,
\* and alarms go off; the tasks of the display run, timers and events come.
RunSpec ==
  /\ RunInit /\ [][RunNext]_runVars
  /\ WF_runVars(WaitResult /\ UNCHANGED <<inPlay, pageVars>>)
  /\ WF_runVars(Answer /\ UNCHANGED <<inPlay, pageVars>>)
  /\ WF_runVars(Alarm /\ UNCHANGED <<inPlay, pageVars>>)
  /\ WF_runVars(inPlay = "pages" /\ PageTasks /\ UNCHANGED <<inPlay, vars>>)

\* Contexts are live for every answer that is still to come, and every page of
\* the display exists once, and shows what is.
InterfacesHold == ConsoleInv /\ PagesHold

\* What the operator enters is made altogether or not at all, and does not
\* replace the network of a Thread that runs.
EditsSafe == AddAtomic /\ StoppedDataset

\* Every command returns to its prompt, whatever is lost or fails in the network
\* and however often a peer starts a test; and every page that waits for a
\* connection, or shows a key that has ended, goes.
Settles == (repl.pc = "wait" \/ Leftover) ~> (repl.pc = "idle" /\ ~Leftover)
=============================================================================
