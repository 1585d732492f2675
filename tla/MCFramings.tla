----------------------------- MODULE MCFramings -----------------------------
(* Framings under the configurations that matter to each message form, and the *)
(* packing of the configurations themselves                                    *)
EXTENDS Framings

MCPayloads == {<<>>, <<1>>, <<2, 1>>, <<0, 2>>, <<1, 2, 0, 4, 3>>}

Small(c) == [DefaultConfig EXCEPT !.sender_max_msg_size = c, !.receiver_max_msg_size = c]
Strategies == {Retrying("DoNotRetry", 0), Retrying("EndCommunications", 0),
               Retrying("RetryYieldingForUpToMillis", 255)}

MCConfigs ==
    [Textual        |-> {Into(DefaultConfig)},
     VariableBinary |-> {Into(Small(c)) : c \in {4, 8}},
     MmapBinary     |-> {Into([DefaultConfig EXCEPT !.receiver_channel_size = n,
                                                    !.retrying_strategy = s]) :
                            n \in {1, 2}, s \in Strategies}]

\* What the proofs about the serialized dialog assume of its configurations
ASSUME MCSizesReadBack == SizesReadBack /\ LimitsAgree

=============================================================================
