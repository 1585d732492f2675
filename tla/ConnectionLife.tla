--------------------------- MODULE ConnectionLife ---------------------------
(***************************************************************************)
(* What a service -- server or client -- promises about each connection,   *)
(* whatever its tasks and channels: a connection is announced (Connected)  *)
(* once, is only given to a processor after that, by one dialog at a time, *)
(* and never again once a dialog reported its socket closed; it ends once, *)
(* either reported (Disconnected) or dropped without a word, and nothing   *)
(* happens to it afterwards.                                               *)
(***************************************************************************)
CONSTANT Conns

VARIABLES
    phase,      \* phase[c]: "unopened", "held" by the service, "served", "gone"
    dead,       \* connections whose socket was reported closed
    announced,  \* connections Connected was issued for
    reported    \* connections Disconnected was issued for

vars == <<phase, dead, announced, reported>>

TypeOK ==
    /\ phase \in [Conns -> {"unopened", "held", "served", "gone"}]
    /\ dead \subseteq Conns
    /\ announced \subseteq Conns
    /\ reported \subseteq Conns

Init ==
    /\ phase = [c \in Conns |-> "unopened"]
    /\ dead = {}
    /\ announced = {}
    /\ reported = {}

Open(c) ==
    /\ phase[c] = "unopened"
    /\ phase' = [phase EXCEPT ![c] = "held"]
    /\ UNCHANGED <<dead, announced, reported>>

Announce(c) ==
    /\ phase[c] = "held"
    /\ c \notin announced
    /\ announced' = announced \cup {c}
    /\ UNCHANGED <<phase, dead, reported>>

Serve(c) ==
    /\ phase[c] = "held"
    /\ c \in announced \ dead
    /\ phase' = [phase EXCEPT ![c] = "served"]
    /\ UNCHANGED <<dead, announced, reported>>

Yield(c) ==
    /\ phase[c] = "served"
    /\ phase' = [phase EXCEPT ![c] = "held"]
    /\ dead' \in {dead, dead \cup {c}}
    /\ UNCHANGED <<announced, reported>>

Report(c) ==
    /\ phase[c] = "held"
    /\ c \in announced
    /\ phase' = [phase EXCEPT ![c] = "gone"]
    /\ reported' = reported \cup {c}
    /\ UNCHANGED <<dead, announced>>

\* connections dropped together: with a channel, or with a failed dialog
Drop(S) ==
    /\ \A c \in S : phase[c] \in {"held", "served"}
    /\ phase' = [c \in Conns |-> IF c \in S THEN "gone" ELSE phase[c]]
    /\ UNCHANGED <<dead, announced, reported>>

Next ==
    \/ \E c \in Conns : Open(c) \/ Announce(c) \/ Serve(c) \/ Yield(c) \/ Report(c)
    \/ \E S \in SUBSET Conns : Drop(S)

Spec == Init /\ [][Next]_vars

\* What the promise amounts to: only announced connections are served or
\* reported, and what is reported is over.
Promise ==
    /\ \A c \in Conns : phase[c] = "served" => c \in announced \ dead
    /\ \A c \in reported : c \in announced /\ phase[c] = "gone"
=============================================================================
