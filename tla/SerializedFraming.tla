-------------------------- MODULE SerializedFraming --------------------------
(***************************************************************************)
(* The serialized dialog (serialized_binary_dialog.rs): each message comes *)
(* after its size, in as many bytes as receiver_max_msg_size takes.        *)
(***************************************************************************)
EXTENDS Wire

CONSTANT SizeAtOnce     \* no read cuts a size: the dialog does not put the pieces together

\* min_bytes_for_usize()
MinBytes(n) == DigitsOf(n, Base)

PayloadSizeLen == MinBytes(CONST_CONFIG.receiver_max_msg_size)

\* to_le_bytes() and decode_usize_min()
LittleEndian(n, len) == Digits(n, Base, len)
Decode(bytes) == Numeral(bytes, Base)

WaitingForPayloadSize == [step |-> "size", buffer |-> <<>>, expected |-> 0]
SerializedInit == reader = WaitingForPayloadSize

SerializedSend ==
    \E m \in Payloads :
        /\ Len(m) \in 1 .. CONST_CONFIG.sender_max_msg_size - 1
        /\ Writes(m, LittleEndian(Len(m), PayloadSizeLen) \o m)

\* The buffer is cleared at each turn of the loop
SerializedReadSize ==
    /\ reader.step = "size"
    /\ \E bytes \in Pieces(PayloadSizeLen) :
        /\ SizeAtOnce => Len(bytes) = PayloadSizeLen
        /\ Reads(bytes, IF Len(bytes) = PayloadSizeLen
                        THEN [step |-> "payload", buffer |-> <<>>, expected |-> Decode(bytes)]
                        ELSE [reader EXCEPT !.buffer = bytes])
    /\ UNCHANGED got

\* A payload is put together over as many reads as it takes
SerializedReadPayload ==
    /\ reader.step = "payload"
    /\ \E bytes \in Pieces(reader.expected - Len(reader.buffer)) :
        LET buffer == reader.buffer \o bytes
        IN  IF Len(buffer) = reader.expected
            THEN Reads(bytes, WaitingForPayloadSize) /\ Relays(buffer)
            ELSE Reads(bytes, [reader EXCEPT !.buffer = buffer]) /\ UNCHANGED got

SerializedEnd ==
    /\ reader.step # "over"
    /\ Turns(Ended) /\ UNCHANGED got

SerializedNext ==
    SerializedSend \/ SerializedReadSize \/ SerializedReadPayload \/ SerializedEnd

-----------------------------------------------------------------------------

\* "determine the `read_buffer` -- into which we will read data until it is totally
\* filled up": the size a payload is read by is the one that was sent with it.
SizeFilledUp ==
    reader.step = "payload" => reader.expected = Len(sent[Len(got) + 1])
=============================================================================
