---------------------------- MODULE MmapFraming ----------------------------
(***************************************************************************)
(* The mmap dialog (mmap_binary_dialog.rs): messages have a fixed size and *)
(* are read straight into slots of the processor's channel.  The dialog    *)
(* always holds a reserved slot, that it publishes once it is full.        *)
(***************************************************************************)
EXTENDS Wire

CONSTANT Size       \* remote_payload_size

ASSUME MmapAssumption == Size \in Nat \ {0}

Slots == 1 .. CONST_CONFIG.receiver_channel_size
Reserved == {s \in Slots : reader.slots[s] = "reserved"}
Free == {s \in Slots : reader.slots[s] = "free"}

\* reserve_slot(), once a slot is free
ReserveSlot(s) ==
    [reader EXCEPT !.step = "select", !.slot = s, !.slots[s] = "reserved", !.bytes[s] = <<>>]

\* ... and when it gives up, as all strategies do in the end: whether to abort
AbortsWhenFull == CONST_CONFIG.retrying_strategy.variant # "DoNotRetry"

SendReserved(s, bytes) ==
    [reader EXCEPT !.step = "allocating", !.bytes[s] = bytes, !.slots[s] = "published",
                   !.inbox = Append(@, s)]

\* The first slot cannot be refused: the channel is new
MmapInit ==
    reader = [step |-> "select", slot |-> 1, closed |-> FALSE,
              slots |-> [s \in Slots |-> IF s = 1 THEN "reserved" ELSE "free"],
              bytes |-> [s \in Slots |-> <<>>],
              inbox |-> <<>>]

MmapSend == \E m \in Payloads : Len(m) = Size /\ Writes(m, m)

\* A full slot is published, and another one is needed
MmapRead ==
    /\ reader.step = "select"
    /\ \E piece \in Pieces(Size - Len(reader.bytes[reader.slot])) :
        LET s == reader.slot
            bytes == reader.bytes[s] \o piece
        IN  IF Len(bytes) = Size
            THEN Reads(piece, SendReserved(s, bytes)) /\ Relays(bytes)
            ELSE Reads(piece, [reader EXCEPT !.bytes[s] = bytes]) /\ UNCHANGED got

MmapReserve ==
    /\ reader.step = "allocating"
    /\ \E s \in Free : Turns(ReserveSlot(s))
    /\ UNCHANGED got

\* The connection is reported closed unless the retryer says not to abort.  The slot
\* cancelled on the way out is the one published last: the channel, which nothing in
\* the code asks whether it is still reserved, may refuse to or may free it.
MmapRefused ==
    /\ reader.step = "allocating" /\ Free = {}
    /\ \E status \in {"free", reader.slots[reader.slot]} :
        Turns([Ended EXCEPT !.closed = AbortsWhenFull, !.slots[reader.slot] = status])
    /\ UNCHANGED got

\* The processor consumes a message: its slot is free again
MmapConsume ==
    /\ reader.inbox # <<>>
    /\ Turns([reader EXCEPT !.inbox = Tail(@), !.slots[Head(reader.inbox)] = "free"])
    /\ UNCHANGED got

\* Mutant: the reservation is not cancelled
MmapEndUncancelled ==
    /\ reader.step = "select"
    /\ \E isClosed \in BOOLEAN : Turns([Ended EXCEPT !.closed = isClosed])
    /\ UNCHANGED got

\* try_cancel_reservation().  The end of the outgoing stream closes nothing.
MmapEnd ==
    /\ reader.step = "select"
    /\ \E isClosed \in BOOLEAN :
        Turns([Ended EXCEPT !.closed = isClosed, !.slots[reader.slot] = "free"])
    /\ UNCHANGED got

MmapNext == MmapSend \/ MmapRead \/ MmapReserve \/ MmapRefused \/ MmapConsume \/ MmapEnd

-----------------------------------------------------------------------------

\* Each slot is free, or the one being read into, or published once with the bytes
\* of a message the processor did not consume: none is lost, and none is reserved
\* -- and written to -- while the processor may read it.  A refused dialog may have
\* freed the last one it published before the processor read it: only once it
\* reserves no more, so that the bytes are still there.
SlotsAccounted ==
    form = "MmapBinary" =>
    LET pending == Len(reader.inbox)
    IN  /\ Reserved = IF reader.step = "select" THEN {reader.slot} ELSE {}
        /\ Slots = Free \cup Reserved \cup Range(reader.inbox)
        /\ IsInjective(reader.inbox)
        /\ \A i \in 1..pending :
            /\ \/ reader.slots[reader.inbox[i]] = "published"
               \/ reader.step = "over" /\ reader.inbox[i] = reader.slot
            /\ reader.bytes[reader.inbox[i]] = got[Len(got) - pending + i]
=============================================================================
