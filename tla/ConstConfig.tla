----------------------------- MODULE ConstConfig -----------------------------
(***************************************************************************)
(* The configuration of a service (config.rs): a structure that is packed  *)
(* into the u64 given to the types as their const parameter, and unpacked  *)
(* wherever one of its values is needed.  A word is the set of the         *)
(* positions of its bits that are 1.                                       *)
(***************************************************************************)
EXTENDS Numerals, SequencesExt, FiniteSetsExt

CONSTANT MaxExponent    \* the highest power of two a u32 is given: 2^31 for the program

ASSUME ConstConfigAssumption == MaxExponent \in 15..31

Word(n) == LET bits == Digits(n, 2, 16) IN {i \in 0..15 : bits[i + 1] = 1}
Number(word) == Numeral([i \in 1..16 |-> IF i - 1 \in word THEN 1 ELSE 0], 2)

\* Powers of two are kept by their exponent; what does not fit in its bits is
\* refused by the compiler.
Exponent(n) == CHOOSE e \in 0..MaxExponent : PowerOf2[e] = n

MessageForms == <<"Textual", "VariableBinary", "MmapBinary">>
Retrying(variant, n) == [variant |-> variant, n |-> n]
Variants == <<"DoNotRetry", "EndCommunications", "RetryWithBackoffUpTo",
              "RetryYieldingForUpToMillis", "RetrySpinningForUpToMillis">>

\* What tells a variant of an enumeration from the others
Tag(variants, variant) == (CHOOSE i \in DOMAIN variants : variants[i] = variant) - 1

\* An option is a sequence of at most one value
SocketOptions(delay, linger, hops) ==
    [no_delay |-> delay, linger_millis |-> linger, hops_to_live |-> hops]

DefaultConfig ==
    [sender_channel_size |-> 1024, receiver_channel_size |-> 1024,
     sender_max_msg_size |-> 1024, receiver_max_msg_size |-> 1024,
     flush_timeout_millis |-> 256,
     retrying_strategy |-> Retrying("RetryWithBackoffUpTo", 20),
     socket_options |-> SocketOptions(<<TRUE>>, <<128>>, <<255>>),
     executor_instruments |-> 0]

-----------------------------------------------------------------------------

\* Mutant: the instruments overlap the socket options
OverlappingLayout == [sender_channel_size   |-> 0..4,
                      receiver_channel_size |-> 5..9,
                      sender_max_msg_size   |-> 10..14,
                      receiver_max_msg_size |-> 15..19,
                      flush_timeout_millis  |-> 20..23,
                      retrying_strategy     |-> 24..34,
                      socket_options        |-> 35..50,
                      executor_instruments  |-> 50..58]

\* The bits of each field
Layout == [sender_channel_size   |-> 0..4,
           receiver_channel_size |-> 5..9,
           sender_max_msg_size   |-> 10..14,
           receiver_max_msg_size |-> 15..19,
           flush_timeout_millis  |-> 20..23,
           retrying_strategy     |-> 24..34,
           socket_options        |-> 35..50,
           executor_instruments  |-> 51..59]

GetBits(config, bits) == {i - Min(bits) : i \in config \cap bits}
SetBits(config, bits, value) == (config \ bits) \cup {i + Min(bits) : i \in value}
Fits(bits, value) == value \subseteq 0 .. Max(bits) - Min(bits)

GetPowerOf2(config, bits) == PowerOf2[Number(GetBits(config, bits))]
SetPowerOf2(config, bits, n) == SetBits(config, bits, Word(Exponent(n)))

FormAsRepr(form) == SetPowerOf2(Word(Tag(MessageForms, form.variant)), 2..6, form.size)
FormFromRepr(repr) ==
    [variant |-> MessageForms[Number(repr \cap 0..1) + 1], size |-> GetPowerOf2(repr, 2..6)]

StrategyAsRepr(s) == SetBits(Word(Tag(Variants, s.variant)), 3..10, Word(s.n))
StrategyFromRepr(repr) ==
    Retrying(Variants[Number(repr \cap 0..2) + 1], Number(GetBits(repr, 3..10)))

\* A flag tells whether there is a value
SocketAsRepr(s) ==
       (IF s.no_delay = <<>> THEN {} ELSE {0} \cup IF s.no_delay[1] THEN {1} ELSE {})
  \cup (IF s.linger_millis = <<>> THEN {}
        ELSE {2} \cup IF s.linger_millis[1] = 0 THEN {}
                      ELSE SetPowerOf2({}, 3..7, s.linger_millis[1]))
  \cup (IF s.hops_to_live = <<>> THEN {} ELSE SetBits({}, 8..15, Word(s.hops_to_live[1])))
SocketFromRepr(repr) ==
    [no_delay |-> IF 0 \in repr THEN <<1 \in repr>> ELSE <<>>,
     linger_millis |-> IF 2 \in repr THEN <<GetPowerOf2(repr, 3..7)>> ELSE <<>>,
     hops_to_live |-> LET hops == Number(GetBits(repr, 8..15))
                      IN  IF hops > 0 THEN <<hops>> ELSE <<>>]

\* The bits to store, field by field
Reprs(c) ==
    [sender_channel_size   |-> Word(Exponent(c.sender_channel_size)),
     receiver_channel_size |-> Word(Exponent(c.receiver_channel_size)),
     sender_max_msg_size   |-> Word(Exponent(c.sender_max_msg_size)),
     receiver_max_msg_size |-> Word(Exponent(c.receiver_max_msg_size)),
     flush_timeout_millis  |-> Word(Exponent(c.flush_timeout_millis)),
     retrying_strategy     |-> StrategyAsRepr(c.retrying_strategy),
     socket_options        |-> SocketAsRepr(c.socket_options),
     executor_instruments  |-> Word(c.executor_instruments)]

Order == <<"sender_channel_size", "receiver_channel_size", "sender_max_msg_size",
           "receiver_max_msg_size", "flush_timeout_millis", "retrying_strategy",
           "socket_options", "executor_instruments">>

\* into(): the fields are stored one after the other
Into(c) ==
    LET reprs == Reprs(c)
        stored[k \in 0..8] ==
            IF k = 0 THEN {}
            ELSE SetBits(stored[k - 1], Layout[Order[k]], reprs[Order[k]])
    IN  stored[8]

\* from()
From(config) ==
    [sender_channel_size   |-> GetPowerOf2(config, Layout.sender_channel_size),
     receiver_channel_size |-> GetPowerOf2(config, Layout.receiver_channel_size),
     sender_max_msg_size   |-> GetPowerOf2(config, Layout.sender_max_msg_size),
     receiver_max_msg_size |-> GetPowerOf2(config, Layout.receiver_max_msg_size),
     flush_timeout_millis  |-> GetPowerOf2(config, Layout.flush_timeout_millis),
     retrying_strategy     |-> StrategyFromRepr(GetBits(config, Layout.retrying_strategy)),
     socket_options        |-> SocketFromRepr(GetBits(config, Layout.socket_options)),
     executor_instruments  |-> Number(GetBits(config, Layout.executor_instruments))]

\* The extract_*() functions
Extract(config, field) == From(config)[field]

-----------------------------------------------------------------------------

\* What the types and the comments of the fields admit, with u8 values out of octets
PowersUpTo(e) == {PowerOf2[i] : i \in 0..e}
Options(values) == {<<>>} \cup {<<v>> : v \in values}
LegalStrategies(octets) ==
         {Retrying(Variants[i], 0) : i \in 1..2}
    \cup {Retrying(Variants[i], n) : i \in 3..5, n \in octets}
LegalSocketOptions(octets) ==
    [no_delay : Options(BOOLEAN), linger_millis : Options(PowersUpTo(MaxExponent)),
     hops_to_live : Options(octets \ {0})]
Legal(octets) ==
    [sender_channel_size   |-> PowersUpTo(MaxExponent),
     receiver_channel_size |-> PowersUpTo(MaxExponent),
     sender_max_msg_size   |-> PowersUpTo(MaxExponent),
     receiver_max_msg_size |-> PowersUpTo(MaxExponent),
     flush_timeout_millis  |-> PowersUpTo(15),
     retrying_strategy     |-> LegalStrategies(octets),
     socket_options        |-> LegalSocketOptions(octets),
     executor_instruments  |-> octets]

IsLegal(c) ==
    /\ DOMAIN c = DOMAIN Layout /\ c = [f \in DOMAIN Layout |-> c[f]]
    /\ \A f \in DOMAIN Layout : c[f] \in Legal(0..255)[f]
=============================================================================
