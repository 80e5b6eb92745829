------------------------------ MODULE NcpSlip ------------------------------
(***************************************************************************)
(* slip.c of components/esp-zigbee-ncp: slip_encode and slip_decode, and   *)
(* the frame of esp_ncp_frame_input between them.  A byte is one of the    *)
(* four that slip.c knows, or Other.                                       *)
(***************************************************************************)
EXTENDS Integers, Sequences

CONSTANTS SLIP_END, SLIP_ESC, SLIP_ESC_END, SLIP_ESC_ESC, Other,
          MaxLen   \* bound: bytes of a frame that may be any byte

\* Different bytes, as slip.h defines them; Other is none of these.
ASSUME SlipAssumption ==
  /\ MaxLen \in Nat
  /\ SLIP_END \notin {SLIP_ESC, SLIP_ESC_END, SLIP_ESC_ESC, Other}
  /\ SLIP_ESC \notin {SLIP_ESC_END, SLIP_ESC_ESC, Other}
  /\ SLIP_ESC_END # SLIP_ESC_ESC

Bytes == {SLIP_END, SLIP_ESC, SLIP_ESC_END, SLIP_ESC_ESC, Other}

\* The flags are the first two bytes of a header and take no special value:
\* the version and a type up to 2, and the reserved bits.
Frames == { <<Other, Other>> \o s : s \in UNION { [1..n -> Bytes] : n \in 0..MaxLen } }

\* The sequence sent for a byte.
Escape(c) == CASE c = SLIP_END -> <<SLIP_ESC, SLIP_ESC_END>>
               [] c = SLIP_ESC -> <<SLIP_ESC, SLIP_ESC_ESC>>
               [] OTHER        -> <<c>>

\* Mutant: a stream buffer of the packet's own length.
CapacityOfPlain(inbuf) == Len(inbuf)

\* The stream buffer's: what does not fit is dropped byte by byte.
Capacity(inbuf) == 2 * Len(inbuf)
StreamSend(buf, s, cap) == SubSeq(buf \o s, 1, IF Len(buf \o s) < cap THEN Len(buf \o s) ELSE cap)

slip_encode(inbuf) ==
  LET cap == Capacity(inbuf)
      enc[i \in 0..Len(inbuf)] ==
        IF i = 0 THEN StreamSend(<<>>, <<SLIP_END>>, cap)
        ELSE StreamSend(enc[i - 1], Escape(inbuf[i]), cap)
  IN  StreamSend(enc[Len(inbuf)], <<SLIP_END>>, cap)

Unescape(c) == CASE c = SLIP_ESC_END -> SLIP_END
                 [] c = SLIP_ESC_ESC -> SLIP_ESC
                 [] OTHER            -> c

\* Of a run of bytes that ends in SLIP_END, as the pattern detector cuts them.
\* An END within the run is skipped.
slip_decode(inbuf) ==
  LET n == Len(inbuf)
      dec[i \in 1..(n + 1)] ==
        CASE i = n + 1          -> <<>>
          [] i <= n /\ inbuf[i] = SLIP_END -> IF i = n THEN <<>> ELSE dec[i + 1]
          [] i < n /\ inbuf[i] = SLIP_ESC  -> <<Unescape(inbuf[i + 1])>> \o dec[i + 2]
          [] OTHER              -> IF i = n THEN <<>> ELSE <<inbuf[i]>> \o dec[i + 1]
  IN  dec[1]

-----------------------------------------------------------------------------
\* END is an encoded frame's first and its last byte and is nowhere between.
Delimited == \A f \in Frames : LET wire == slip_encode(f) IN
  \A k \in DOMAIN wire : wire[k] = SLIP_END <=> k \in {1, Len(wire)}

\* Decoding gives back a frame; of two that the receiver did not part, both.
DecodesOne == \A f \in Frames : slip_decode(slip_encode(f)) = f
DecodesTwo == LET g == <<Other, Other, SLIP_ESC>> IN
  \A f \in Frames : slip_decode(slip_encode(f) \o slip_encode(g)) = f \o g
=============================================================================
