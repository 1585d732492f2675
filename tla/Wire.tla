-------------------------------- MODULE Wire --------------------------------
(***************************************************************************)
(* What the dialogs of the three message forms have in common, on their    *)
(* receiving side: the remote peer writes frames, the socket yields their  *)
(* bytes in pieces that have nothing to do with the frames.                *)
(***************************************************************************)
EXTENDS Naturals, Sequences, SequencesExt, ConstConfig

CONSTANTS
    Base,       \* how many values a byte has (256 for the program)
    Payloads,   \* the messages, as sequences of bytes
    MaxSent     \* how many the remote sends

ASSUME WireAssumption ==
    /\ Base \in Nat \ {0, 1}
    /\ Payloads \subseteq Seq(0 .. Base - 1)
    /\ MaxSent \in Nat

VARIABLES
    form,       \* the message form given to spawn_*_processor!
    config,     \* the const parameter: both peers are built with the same
    sent,       \* the messages the remote sent
    wire,       \* the bytes written that were not read yet
    reader,     \* where the dialog's reading is at, and its buffers
    got         \* the messages relayed to the processor

given == <<form, config>>
wireVars == <<given, sent, wire, reader, got>>

CONST_CONFIG == From(config)

Silent == sent = <<>> /\ wire = <<>> /\ got = <<>>

\* The remote's side of the dialog: write_all()
Writes(m, frame) ==
    /\ Len(sent) < MaxSent
    /\ sent' = Append(sent, m)
    /\ wire' = wire \o frame
    /\ UNCHANGED <<given, reader, got>>

\* Some bytes are read, up to what the buffer has room for; r is the reader after it
Reads(bytes, r) ==
    /\ bytes # <<>> /\ IsPrefix(bytes, wire)
    /\ wire' = SubSeq(wire, Len(bytes) + 1, Len(wire))
    /\ reader' = r
    /\ UNCHANGED <<given, sent>>

\* The prefixes of the wire, up to n bytes
Pieces(n) == {SubSeq(wire, 1, k) : k \in 1 .. IF n < Len(wire) THEN n ELSE Len(wire)}

\* A step of the dialog over what it read before
Turns(r) == reader' = r /\ UNCHANGED <<given, sent, wire>>
Relays(m) == got' = Append(got, m)

\* The loop is left: the remote left, a write failed -- both at any time, as far as
\* the reading can tell -- or the peer's outgoing stream ended
Ended == [reader EXCEPT !.step = "over"]
=============================================================================
