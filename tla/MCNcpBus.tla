------------------------------ MODULE MCNcpBus ------------------------------
(* Requests and callbacks that meet in the buffers of the NCP; the frames    *)
(* written to the UART may hold any bytes, up to MaxLen behind the flags.    *)
EXTENDS NcpBus, NcpSlip, NcpZb

VARIABLE inPlay

(* Either the frames on their way, whatever the commands do, or the commands *)
(* and callbacks, whatever carries their frames.                             *)
ncpVars == <<inPlay, vars, zbCmdVars>>
NcpInit == inPlay \in {"frames", "commands"} /\ Init /\ NcpZbInit

InFrames(A)   == inPlay = "frames" /\ A /\ UNCHANGED <<inPlay, zbCmdVars>>
InCommands(A) == inPlay = "commands" /\ A /\ UNCHANGED <<inPlay, vars>>

NcpNext == InFrames(Next) \/ InCommands(NcpZbNext)

\* The tasks run, and the stack carries out what it is asked for; the host and
\* the network need not act.
NcpSpec ==
  /\ NcpInit /\ [][NcpNext]_ncpVars
  /\ WF_ncpVars(Main /\ UNCHANGED <<inPlay, zbCmdVars>>)
  /\ WF_ncpVars(BusRead /\ UNCHANGED <<inPlay, zbCmdVars>>)
  /\ WF_ncpVars(\/ Zb /\ UNCHANGED <<inPlay, zbCmdVars>>
                \/ ZbSignals /\ UNCHANGED <<inPlay, vars>>)

Written == Cardinality({ k \in DOMAIN tx : tx[k][2] = 1 })

\* The pattern detector of the UART finds the ends of the frames that were
\* written, whatever they hold.  That the last END is there shows that the
\* encoder's buffer of twice the length is enough.
EndsDelimit == Written >= 1 => Delimited

\* What the host decodes is what was sent; of two frames run together it gets
\* both, none of the bytes of one for the other's.
RoundTrip == (Written >= 1 => DecodesOne) /\ (Written >= 2 => DecodesTwo)

\* A frame of any bytes leaves the NCP delimited and is read as it was sent.
SlipCoding == EndsDelimit /\ RoundTrip

\* While nothing is refused the frames are whole and none is left behind; and
\* what the commands tell the host is true, and meant for what it asked.
NcpHolds == NcpInv /\ NcpZbInv

\* The host gets the indications and confirms in the order they were made: the
\* frames do not overtake each other, and neither do the callbacks and polls.
EventsInOrder == []IndicationsInOrder /\ ApsInOrder

\* The host gets what it waits for: an answer to every request, and the news of
\* the network after its START.
HostTold == Answered /\ FormsTold
=============================================================================
