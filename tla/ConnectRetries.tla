--------------------------- MODULE ConnectRetries ---------------------------
(***************************************************************************)
(* How the client of ClientService gets its connection: the host may       *)
(* resolve to several addresses, each attempt is at the next of them, and  *)
(* CONST_CONFIG's retrying strategy tells how many attempts there are.     *)
(***************************************************************************)
EXTENDS ClientService

CONSTANTS
    Addresses,  \* what the host resolves to: an empty resolution panics
    Strategies  \* [attempts, patience]: the attempts of RetryWithBackoffUpTo(),
                \* 0 for the strategies that do not retry; or the patience of
                \* RetryYieldingForUpToMillis(), TRUE until it times out

ASSUME RetriesAssumption ==
    /\ IsFiniteSet(Addresses) /\ Addresses # {}
    /\ Strategies \subseteq [attempts : Nat, patience : BOOLEAN]

VARIABLES
    strategy,   \* ConstConfig::retrying_strategy
    listening,  \* the addresses that accept connections, from now on
    untried,    \* opt_addrs: what is left of the last resolution
    failures    \* attempts that failed, up to FailuresBound

retryVars == <<strategy, listening, untried, failures>>

\* The bound on the counter, only met with patience: beyond what it is compared with
FailuresBound == Cardinality(Addresses) + strategy.attempts

RetriesInit ==
    /\ Init
    /\ strategy \in Strategies
    /\ listening \in SUBSET Addresses
    /\ untried = {}
    /\ failures = 0

\* Mutant: each attempt resolves the host again
TurnOfAll == Addresses

\* The addresses the next attempt goes to one of: when none is left of the last
\* resolution, the host is resolved again
Turn == IF untried = {} THEN Addresses ELSE untried

ConnectTo(a) ==
    /\ a \in Turn \cap listening
    /\ untried' = Turn \ {a}
    /\ Connect
    /\ UNCHANGED <<strategy, listening, failures>>

FailToConnectTo(a) ==
    /\ a \in Turn \ listening
    /\ untried' = Turn \ {a}
    /\ failures' = IF failures < FailuresBound THEN failures + 1 ELSE failures
    /\ UNCHANGED <<strategy, listening>>

\* RetryResult::Transient, and the strategy has another attempt for it
Retry(a) ==
    /\ router = "connecting"
    /\ FailToConnectTo(a)
    /\ strategy.patience \/ failures < strategy.attempts
    /\ UNCHANGED vars

\* ... or it has not
GiveUp(a) ==
    /\ FailToConnectTo(a)
    /\ strategy.patience \/ failures >= strategy.attempts
    /\ ConnectFails

\* RetryResult::Fatal
ResolutionFails ==
    /\ untried = {}
    /\ ConnectFails
    /\ UNCHANGED retryVars

ConnectRetryable ==
    \/ \E a \in Addresses : ConnectTo(a) \/ Retry(a) \/ GiveUp(a)
    \/ ResolutionFails

RetriesNext ==
    \/ ConnectRetryable
    \/ Started /\ UNCHANGED retryVars

\* The strategy runs out: what Fairness says of Start, all strategies do
RetriesSpec == RetriesInit /\ [][RetriesNext]_<<vars, retryVars>> /\ Fairness
-----------------------------------------------------------------------------
\* What build_connect_continuation_closure() is for: as many attempts as the
\* host has addresses reach one of them that accepts connections, if there is.
ListeningIsFound == failures >= Cardinality(Addresses) => listening = {}
=============================================================================
