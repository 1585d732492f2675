------------------------------- MODULE Umpire -------------------------------
(***************************************************************************)
(* The ping-pong of the composite protocol stacking example: the umpire    *)
(* each party runs (ping_pong_logic.rs), and how a party reacts to what    *)
(* the other one tells (protocol_processor.rs).  An action of a player is  *)
(* a lucky number; only the probabilities it falls between matter, so the  *)
(* numbers stand for those classes.                                        *)
(***************************************************************************)
EXTENDS Naturals, Sequences, SequencesExt

CONSTANTS
    ScoreLimit,     \* MatchConfig::score_limit
    Luck            \* the lucky numbers act() may pick

ASSUME UmpireAssumption ==
    /\ ScoreLimit \in Nat \ {0}
    /\ Luck \subseteq 1..8

SERVICING_ATTEMPTS == 3

\* MatchConfig: 8 is above all probabilities.  The order is the one in which
\* they are looked up, which is not the one of the faults.
HardFaults == <<"NoBounce", "NoRebate", "Mishit", "PreBounce", "NetBlock", "BallOut">>
Probability == [NoBounce |-> 1, NoRebate |-> 2, Mishit |-> 3, PreBounce |-> 4,
                NetTouch |-> 5, NetBlock |-> 6, BallOut |-> 7]

Players == {"Ourself", "Opponent"}
Other(player) == CHOOSE p \in Players : p # player

WaitingForService(attempt) == [name |-> "WaitingForService", attempt |-> attempt]
Rally == [name |-> "Rally"]
GameOver == [name |-> "GameOver"]
GameStates == {WaitingForService(n) : n \in 1..SERVICING_ATTEMPTS} \cup {Rally, GameOver}

Umpires == [score : [Players -> 0..ScoreLimit], state : GameStates, turn : Players]

New(first) ==
    [score |-> [p \in Players |-> 0], state |-> WaitingForService(1), turn |-> first]

\* PingPongEvent
TurnFlip(luck, event) == [kind |-> "TurnFlip", luck |-> luck, event |-> event]
SoftFault(luck, fault) == [kind |-> "SoftFault", luck |-> luck, fault |-> fault]
Score(winner, luck, fault) ==
    [kind |-> "Score", winner |-> winner, luck |-> luck, fault |-> fault]
GracefullyEnded(score, luck, fault) ==
    [kind |-> "GracefullyEnded", score |-> score, luck |-> luck, fault |-> fault]
GameCancelled(score, rule) == [kind |-> "GameCancelled", score |-> score, rule |-> rule]

Rules == {"WrongPlayerForTurn", "UmpiresDisagreeOnState", "UmpiresDisagreeOnEvent",
          "UmpiresDisagreeOnSoftFault", "UmpiresDisagreeOnHardFault",
          "UmpiresDisagreeOnExceededServicingAttempts"}

PingPongEvents ==
    LET scores == [Players -> 0..ScoreLimit]
    IN  [kind : {"TurnFlip"}, luck : Luck, event : {"SuccessfulService", "SuccessfulRebate"}]
        \cup [kind : {"SoftFault"}, luck : Luck, fault : {"Mishit", "NetTouch"}]
        \cup [kind : {"Score"}, winner : Players, luck : Luck, fault : Range(HardFaults)]
        \cup [kind : {"GracefullyEnded"}, score : scores, luck : Luck, fault : Range(HardFaults)]
        \cup [kind : {"GameCancelled"}, score : scores, rule : Rules]

\* What process_turn() leaves and what it answers
Outcome(umpire, event) == [umpire |-> umpire, event |-> event]

-----------------------------------------------------------------------------
(* The umpire *)

\* The position of the fault in HardFaults, or 0
HardFault ==
    [luck \in Luck |-> SelectInSeq(HardFaults, LAMBDA fault : luck <= Probability[fault])]

\* Mutant: one attempt too many
LenientSoftFault(luck, attempt) ==
    /\ attempt <= SERVICING_ATTEMPTS
    /\ luck <= Probability["NetTouch"]

ServiceSoftFault(luck, attempt) ==
    /\ attempt < SERVICING_ATTEMPTS
    /\ luck <= Probability["NetTouch"]

SoftFaultOf(luck) == IF luck <= Probability["Mishit"] THEN "Mishit" ELSE "NetTouch"

\* Mutant: the loser services the next ball
LoserServes(u, luck, fault) ==
    LET score == [u.score EXCEPT ![Other(u.turn)] = @ + 1]
    IN  IF score[Other(u.turn)] >= ScoreLimit
        THEN Outcome([u EXCEPT !.score = score, !.state = GameOver],
                     GracefullyEnded(score, luck, fault))
        ELSE Outcome([u EXCEPT !.score = score, !.state = WaitingForService(1)],
                     Score(Other(u.turn), luck, fault))

\* The other player wins the score, and services the next ball unless that was
\* the last score of the match
ComputeLostScore(u, luck, fault) ==
    LET winner == Other(u.turn)
        score == [u.score EXCEPT ![winner] = @ + 1]
    IN  IF score[winner] >= ScoreLimit
        THEN Outcome([score |-> score, state |-> GameOver, turn |-> u.turn],
                     GracefullyEnded(score, luck, fault))
        ELSE Outcome([score |-> score, state |-> WaitingForService(1), turn |-> winner],
                     Score(winner, luck, fault))

\* The ball reached the other side, unless it was a hard fault
Play(u, luck, event) ==
    IF HardFault[luck] > 0
    THEN ComputeLostScore(u, luck, HardFaults[HardFault[luck]])
    ELSE Outcome([score |-> u.score, state |-> Rally, turn |-> Other(u.turn)],
                 TurnFlip(luck, event))

Panic == [kind |-> "Panic"]

ProcessTurn(u, player, luck) ==
    CASE u.turn # player ->
            Outcome([u EXCEPT !.state = GameOver],
                    GameCancelled(u.score, "WrongPlayerForTurn"))
      [] u.turn = player /\ u.state.name = "WaitingForService" ->
            IF ServiceSoftFault(luck, u.state.attempt)
            THEN Outcome([u EXCEPT !.state = WaitingForService(@.attempt + 1)],
                         SoftFault(luck, SoftFaultOf(luck)))
            ELSE Play(u, luck, "SuccessfulService")
      [] u.turn = player /\ u.state = Rally -> Play(u, luck, "SuccessfulRebate")
      [] u.turn = player /\ u.state = GameOver -> Outcome(u, Panic)

-----------------------------------------------------------------------------
(* The reactions: each is the set of what may come out of it, an umpire and  *)
(* the events told to the other party                                        *)

Reaction(umpire, events) == [umpire |-> umpire, events |-> events]
Disagreement(u, rule) == {Reaction(u, <<GameCancelled(u.score, rule)>>)}

Act(u) == {LET turn == ProcessTurn(u, "Ourself", luck)
           IN  Reaction(turn.umpire, <<turn.event>>) : luck \in Luck}

\* service_ball(): the player acts again after a soft fault, of which the umpire
\* allows SERVICING_ATTEMPTS - 1
Again(runs) ==
    UNION {IF Last(run.events).kind = "SoftFault"
           THEN {Reaction(next.umpire, run.events \o next.events) : next \in Act(run.umpire)}
           ELSE {run} : run \in runs}

ServiceBall(u) == Again(Again(Act(u)))

\* Mutant: the opponent's turn is not played again
ReactToRallyBlindly(u, reported, told) == Act([u EXCEPT !.turn = "Ourself"])

ReactToRallyEvent(u, reported, told) ==
    LET expected == ProcessTurn(u, "Opponent", told.luck)
    IN  IF u.state.name # reported THEN Disagreement(u, "UmpiresDisagreeOnState")
        ELSE IF expected.event # told
             THEN Disagreement(expected.umpire, "UmpiresDisagreeOnEvent")
             ELSE Act(expected.umpire)

\* Mutant: the service is taken over at the first soft fault
TakeServiceOver(u, told) ==
    ServiceBall([ProcessTurn(u, "Opponent", told.luck).umpire EXCEPT !.turn = "Ourself"])

ReactToServiceSoftFault(u, told) ==
    LET expected == ProcessTurn(u, "Opponent", told.luck)
        after == expected.umpire
    IN  CASE expected.event.kind # "SoftFault" ->
                Disagreement(after, "UmpiresDisagreeOnSoftFault")
          [] expected.event.kind = "SoftFault" /\ expected.event.fault # told.fault ->
                Disagreement(after, "UmpiresDisagreeOnEvent")
          [] expected.event = told ->
                IF after.state.attempt <= SERVICING_ATTEMPTS
                THEN {Reaction(after, <<>>)}
                ELSE Disagreement(after, "UmpiresDisagreeOnExceededServicingAttempts")

\* Mutant: the ball is serviced once, as the client does when the game starts
ServeOnce(u, told) == Act(ProcessTurn(u, "Opponent", told.luck).umpire)

ReactToScore(u, told) ==
    LET expected == ProcessTurn(u, "Opponent", told.luck)
    IN  CASE expected.event.kind # "Score" ->
                Disagreement(expected.umpire, "UmpiresDisagreeOnState")
          [] expected.event.kind = "Score" /\ expected.event.fault # told.fault ->
                Disagreement(expected.umpire, "UmpiresDisagreeOnEvent")
          [] expected.event.kind = "Score" /\ expected.event.fault = told.fault ->
                ServiceBall(expected.umpire)

\* The match of both processors over the events that go on with the game.  No umpire
\* answers PingPongEvent::HardFault or TurnFlipEvents::SoftFaultService.
React(u, told) ==
    CASE told.kind = "TurnFlip" ->
            ReactToRallyEvent(u, IF told.event = "SuccessfulService"
                                 THEN "WaitingForService" ELSE "Rally", told)
      [] told.kind = "SoftFault" -> ReactToServiceSoftFault(u, told)
      [] told.kind = "Score" -> ReactToScore(u, told)
=============================================================================
