------------------------------ MODULE Framings ------------------------------
(***************************************************************************)
(* A dialog of any of the three message forms, under any configuration,    *)
(* and what all of them promise: FramedLink.                               *)
(***************************************************************************)
EXTENDS TextualFraming, SerializedFraming, MmapFraming

CONSTANTS
    Configs,    \* the const parameters that each message form is built with
    Octets      \* the u8 values that a configuration is tried with

\* A const parameter is what into() makes of a configuration that compiles
ASSUME FramingsAssumption ==
    /\ DOMAIN Configs \subseteq {"Textual", "VariableBinary", "MmapBinary"}
    /\ \A config_ \in UNION {Configs[f] : f \in DOMAIN Configs} : IsLegal(From(config_))
    /\ Octets \subseteq 0..255

Init ==
    /\ form \in DOMAIN Configs
    /\ config \in Configs[form]
    /\ Silent
    /\ CASE form = "Textual"        -> TextInit
         [] form = "VariableBinary" -> SerializedInit
         [] form = "MmapBinary"     -> MmapInit

\* TextualDialog, SerializedBinaryDialog and MmapBinaryDialog
Textual == form = "Textual" /\ TextNext
Serialized == form = "VariableBinary" /\ SerializedNext
Mmap == form = "MmapBinary" /\ MmapNext
Over == reader.step = "over" /\ UNCHANGED wireVars

Next == Textual \/ Serialized \/ Mmap \/ Over

Spec == Init /\ [][Next]_wireVars

-----------------------------------------------------------------------------

Link == INSTANCE FramedLink

\* Each dialog implements the link: messages are relayed whole, in order and one
\* by one, whatever the pieces the socket yields their bytes in.
Framed == Link!Spec

\* The size of any message the sender takes is read back from the bytes it is sent in
SizesReadBack ==
    \A config_ \in Configs["VariableBinary"] :
        LET c == From(config_)
            len == MinBytes(c.receiver_max_msg_size)
        IN  /\ len \in Nat
            /\ \A n \in 1 .. c.sender_max_msg_size - 1 :
                /\ LittleEndian(n, len) \in Seq(0 .. Base - 1)
                /\ Decode(LittleEndian(n, len)) = n

\* The sender takes no larger messages than the receiver makes room for
LimitsAgree ==
    \A config_ \in Configs["VariableBinary"] :
        From(config_).sender_max_msg_size <= From(config_).receiver_max_msg_size

\* The const parameter tells the configuration it was made from: whatever value a
\* field has, it can be extracted, and so can all the other ones; and a message form
\* can be told from its seven bits.  It is about the const parameter alone, which never
\* changes: said of the dialogs that have not started.
ConfigRoundTrip ==
    sent = <<>> =>
     /\ \A field \in DOMAIN Layout : \A value \in Legal(Octets)[field] :
            LET c == [CONST_CONFIG EXCEPT ![field] = value]
                reprs == Reprs(c)
            IN  /\ \A f \in DOMAIN Layout : Fits(Layout[f], reprs[f])
                /\ From(Into(c)) = c
     /\ \A f_ \in [variant : Range(MessageForms), size : PowersUpTo(MaxExponent)] :
            FormFromRepr(FormAsRepr(f_)) = f_ /\ Fits(0..6, FormAsRepr(f_))

\* No message is held back: a dialog that waits for the socket, and has nothing to
\* read, relayed all that was sent -- the last line of a read and a payload that
\* came in the same read as the next size included.
NothingHeldBack ==
    wire = <<>> /\ reader.step \in {"select", "size"} => got = sent
=============================================================================
