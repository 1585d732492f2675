--------------------------- MODULE PingPongProofs ---------------------------
(***************************************************************************)
(* Machine-checked proofs about PingPong, for any score limit, any lucky   *)
(* numbers and any versions.                                               *)
(***************************************************************************)
EXTENDS PingPong, SequenceTheorems, TLAPS

-----------------------------------------------------------------------------
(* The umpire *)

\* A hard fault is one of the list.
LEMMA HardFaultListed ==
    ASSUME NEW luck \in Luck
    PROVE  HardFault[luck] \in 0 .. 6
<1> DEFINE I == {i \in 1 .. Len(HardFaults) : luck <= Probability[HardFaults[i]]}
<1>1. HardFault[luck] = IF I # {} THEN Min(I) ELSE 0
  BY DEF HardFault, SelectInSeq
<1>2. Len(HardFaults) = 6
  BY DEF HardFaults
<1>3. I \in SUBSET (1 .. 6)
  BY <1>2
<1> HIDE DEF I
<1>4. ASSUME I # {} PROVE Min(I) \in I
  <2>1. \E x \in I : \A y \in I : x <= y
    <3>1. \A y \in I : y = 1 \/ y = 2 \/ y = 3 \/ y = 4 \/ y = 5 \/ y = 6
      BY <1>3
    <3>2. CASE 1 \in I
      BY <3>1, <3>2
    <3>3. CASE 1 \notin I /\ 2 \in I
      BY <3>1, <3>3
    <3>4. CASE 1 \notin I /\ 2 \notin I /\ 3 \in I
      BY <3>1, <3>4
    <3>5. CASE 1 \notin I /\ 2 \notin I /\ 3 \notin I /\ 4 \in I
      BY <3>1, <3>5
    <3>6. CASE 1 \notin I /\ 2 \notin I /\ 3 \notin I /\ 4 \notin I
      BY <1>4, <3>1, <3>6
    <3> QED BY <3>2, <3>3, <3>4, <3>5, <3>6
  <2> QED BY <2>1 DEF Min
<1>5. CASE I # {}
  <2>1. HardFault[luck] = Min(I)
    BY <1>1, <1>5
  <2>2. Min(I) \in 1 .. 6
    BY <1>3, <1>4, <1>5
  <2> QED BY <2>1, <2>2
<1>6. CASE I = {}
  BY <1>1, <1>6
<1> QED BY <1>5, <1>6

\* There are two players.
LEMMA OtherPlayer == Other("Ourself") = "Opponent" /\ Other("Opponent") = "Ourself"
BY DEF Other, Players

\* What an umpire's state may be while the match goes on
LEMMA StateKinds ==
    ASSUME NEW u \in Umpires, u.state # GameOver
    PROVE  \/ /\ u.state = Rally /\ u.state.name = "Rally"
           \/ /\ u.state.attempt \in 1 .. 3 /\ u.state = WaitingForService(u.state.attempt)
              /\ u.state.name = "WaitingForService"
BY DEF Umpires, GameStates, WaitingForService, Rally, SERVICING_ATTEMPTS

\* The states of a match differ from each other.
LEMMA StatesTyped ==
    /\ \A n \in 1 .. 3 : WaitingForService(n) \in GameStates /\ WaitingForService(n) # GameOver
                         /\ WaitingForService(n).name = "WaitingForService"
                         /\ WaitingForService(n).attempt = n
    /\ Rally \in GameStates /\ Rally # GameOver /\ GameOver \in GameStates
    /\ \A n : WaitingForService(n) # Rally
BY DEF GameStates, WaitingForService, Rally, GameOver, SERVICING_ATTEMPTS

\* What an umpire keeps
LEMMA UmpireFields ==
    ASSUME NEW u \in Umpires
    PROVE  /\ u = [score |-> u.score, state |-> u.state, turn |-> u.turn]
           /\ u.score \in [Players -> 0 .. ScoreLimit] /\ u.state \in GameStates /\ u.turn \in Players
           /\ u.score["Ourself"] \in Nat /\ u.score["Opponent"] \in Nat
BY UmpireAssumption DEF Umpires, Players, UmpireAssumption

\* The turn of either player, by the state of the match
LEMMA TurnByState ==
    ASSUME NEW u \in Umpires, u.state # GameOver, NEW luck
    PROVE  /\ u.state = Rally => ProcessTurn(u, u.turn, luck) = Play(u, luck, "SuccessfulRebate")
           /\ u.state # Rally =>
                ProcessTurn(u, u.turn, luck) =
                    IF ServiceSoftFault(luck, u.state.attempt)
                    THEN Outcome([u EXCEPT !.state = WaitingForService(@.attempt + 1)], SoftFault(luck, SoftFaultOf(luck)))
                    ELSE Play(u, luck, "SuccessfulService")
<1>1. CASE u.state = Rally
  BY <1>1 DEF ProcessTurn, Rally, GameOver
<1>2. CASE u.state # Rally
  <2>1. u.state.name = "WaitingForService" /\ u.state # GameOver
    BY <1>2, StateKinds
  <2> QED BY <1>2, <2>1 DEF ProcessTurn
<1> QED BY <1>1, <1>2

-----------------------------------------------------------------------------
(* The same turn, as seen by the other player *)

\* The opponent's view of an umpire is one, and its own mirror
LEMMA MirrorTyped ==
    ASSUME NEW u \in Umpires
    PROVE  /\ Mirrored(u) \in Umpires /\ Mirrored(Mirrored(u)) = u
           /\ Mirrored(u).state = u.state
           /\ u.turn = "Ourself" <=> Mirrored(u).turn = "Opponent"
           /\ Mirrored(u).score["Ourself"] = u.score["Opponent"]
           /\ Mirrored(u).score["Opponent"] = u.score["Ourself"]
           /\ Sound(Mirrored(u)) <=> Sound(u)
<1>1. Players = {"Ourself", "Opponent"}
  BY DEF Players
<1>2. /\ u.score \in [Players -> 0 .. ScoreLimit] /\ u.turn \in {"Ourself", "Opponent"}
      /\ u = [score |-> u.score, state |-> u.state, turn |-> u.turn] /\ u.state \in GameStates
  BY <1>1, UmpireFields
<1> DEFINE score == [player \in Players |-> u.score[Other(player)]]
           turn == Other(u.turn)
<1>3. /\ Mirrored(u) = [score |-> score, state |-> u.state, turn |-> turn]
      /\ score \in [Players -> 0 .. ScoreLimit]
      /\ score["Ourself"] = u.score["Opponent"] /\ score["Opponent"] = u.score["Ourself"]
      /\ turn \in Players /\ (u.turn = "Ourself" <=> turn = "Opponent")
      /\ Other(turn) = u.turn
  BY <1>1, <1>2, OtherPlayer DEF Mirrored
<1>4. [player \in Players |-> score[Other(player)]] = u.score
  BY <1>1, <1>2, <1>3, OtherPlayer
<1> HIDE DEF score, turn
<1>5. Mirrored(u) \in Umpires
  BY <1>2, <1>3 DEF Umpires
<1>6. Mirrored(Mirrored(u)) = [score |-> [player \in Players |-> score[Other(player)]],
                               state |-> u.state, turn |-> Other(turn)]
  BY <1>3 DEF Mirrored
<1>7. Mirrored(Mirrored(u)) = u
  BY <1>2, <1>3, <1>4, <1>6
<1>8. Sound(Mirrored(u)) <=> Sound(u)
  BY <1>1, <1>3 DEF Sound
<1> QED BY <1>3, <1>5, <1>7, <1>8

\* A player that serves the opponent its scores, and the opponent that counts them
LEMMA LostScore ==
    ASSUME NEW u \in Umpires, u.turn = "Ourself", Sound(u), u.state # GameOver,
           NEW luck \in Luck, NEW fault \in Range(HardFaults),
           NEW o, o = ComputeLostScore(u, luck, fault),
           NEW m, m = ComputeLostScore(Mirrored(u), luck, fault)
    PROVE  /\ o.umpire \in Umpires /\ Sound(o.umpire)
           /\ m.umpire = Mirrored(o.umpire)
           /\ \/ /\ o.umpire.state = WaitingForService(1) /\ o.umpire.turn = "Opponent"
                 /\ o.event = Score("Opponent", luck, fault)
                 /\ m.event = Score("Ourself", luck, fault)
              \/ /\ o.umpire.state = GameOver
                 /\ o.event = GracefullyEnded(o.umpire.score, luck, fault)
                 /\ m.event.kind = "GracefullyEnded"
<1> DEFINE w == Mirrored(u)
           ours == [u.score EXCEPT !["Opponent"] = @ + 1]
           theirs == [w.score EXCEPT !["Ourself"] = @ + 1]
<1>1. /\ Players = {"Ourself", "Opponent"} /\ ScoreLimit \in Nat
      /\ Other("Ourself") = "Opponent" /\ Other("Opponent") = "Ourself"
  BY OtherPlayer, UmpireAssumption DEF Players, UmpireAssumption
<1>2. /\ u.score \in [Players -> 0 .. ScoreLimit] /\ u.score["Opponent"] < ScoreLimit
      /\ u.score["Ourself"] < ScoreLimit
      /\ u.score["Opponent"] \in Nat /\ u.score["Ourself"] \in Nat
      /\ u = [score |-> u.score, state |-> u.state, turn |-> "Ourself"]
  BY <1>1, UmpireFields DEF Sound
<1>3. /\ w.turn = "Opponent" /\ w.score = [player \in Players |-> u.score[Other(player)]]
      /\ w = [score |-> w.score, state |-> w.state, turn |-> "Opponent"]
  BY <1>1, <1>2 DEF Mirrored
<1>4. /\ ours \in [Players -> 0 .. ScoreLimit]
      /\ ours["Opponent"] = u.score["Opponent"] + 1 /\ ours["Ourself"] = u.score["Ourself"]
  BY <1>1, <1>2
<1>5. theirs = [player \in Players |-> ours[Other(player)]]
  BY <1>1, <1>2, <1>3
<1>6. theirs["Ourself"] = ours["Opponent"]
  BY <1>1, <1>5
<1>7. o = IF ours["Opponent"] >= ScoreLimit
          THEN Outcome([score |-> ours, state |-> GameOver, turn |-> "Ourself"],
                       GracefullyEnded(ours, luck, fault))
          ELSE Outcome([score |-> ours, state |-> WaitingForService(1), turn |-> "Opponent"],
                       Score("Opponent", luck, fault))
  BY <1>1 DEF ComputeLostScore
<1>8. m = IF theirs["Ourself"] >= ScoreLimit
          THEN Outcome([score |-> theirs, state |-> GameOver, turn |-> "Opponent"],
                       GracefullyEnded(theirs, luck, fault))
          ELSE Outcome([score |-> theirs, state |-> WaitingForService(1), turn |-> "Ourself"],
                       Score("Ourself", luck, fault))
  BY <1>1, <1>3 DEF ComputeLostScore
<1> HIDE DEF w, ours, theirs
<1>9. CASE ours["Opponent"] >= ScoreLimit
  <2>1. /\ o.umpire = [score |-> ours, state |-> GameOver, turn |-> "Ourself"]
        /\ o.event = GracefullyEnded(ours, luck, fault)
    BY <1>7, <1>9 DEF Outcome
  <2>2. /\ m.umpire = [score |-> theirs, state |-> GameOver, turn |-> "Opponent"]
        /\ m.event = GracefullyEnded(theirs, luck, fault)
    BY <1>6, <1>8, <1>9 DEF Outcome
  <2>3. m.umpire = Mirrored(o.umpire)
    BY <1>1, <1>5, <2>1, <2>2 DEF Mirrored
  <2>4. o.umpire \in Umpires
    BY <1>1, <1>4, <2>1, StatesTyped DEF Umpires
  <2>5. Sound(o.umpire) /\ o.umpire.state = GameOver /\ o.umpire.score = ours
    BY <2>1 DEF Sound
  <2> QED BY <2>1, <2>2, <2>3, <2>4, <2>5 DEF GracefullyEnded
<1>10. CASE ~(ours["Opponent"] >= ScoreLimit)
  <2>1. /\ o.umpire = [score |-> ours, state |-> WaitingForService(1), turn |-> "Opponent"]
        /\ o.event = Score("Opponent", luck, fault)
    BY <1>7, <1>10 DEF Outcome
  <2>2. /\ m.umpire = [score |-> theirs, state |-> WaitingForService(1), turn |-> "Ourself"]
        /\ m.event = Score("Ourself", luck, fault)
    BY <1>6, <1>8, <1>10 DEF Outcome
  <2>3. m.umpire = Mirrored(o.umpire)
    BY <1>1, <1>5, <2>1, <2>2 DEF Mirrored
  <2>4. o.umpire \in Umpires
    BY <1>1, <1>4, <2>1, StatesTyped DEF Umpires
  <2>5. Sound(o.umpire)
    BY <1>1, <1>2, <1>4, <1>10, <2>1 DEF Sound
  <2> QED BY <2>1, <2>2, <2>3, <2>4, <2>5
<1> QED BY <1>9, <1>10

\* A ball that is played: it is lost or it reaches the other side
LEMMA PlayedBall ==
    ASSUME NEW u \in Umpires, u.turn = "Ourself", Sound(u), u.state # GameOver,
           NEW luck \in Luck, NEW event \in {"SuccessfulService", "SuccessfulRebate"},
           NEW o, o = Play(u, luck, event),
           NEW m, m = Play(Mirrored(u), luck, event)
    PROVE  /\ o.umpire \in Umpires /\ Sound(o.umpire)
           /\ m.umpire = Mirrored(o.umpire)
           /\ \/ /\ o.umpire.state = Rally /\ o.umpire.turn = "Opponent"
                 /\ o.event = TurnFlip(luck, event) /\ m.event = o.event
              \/ \E fault \in Range(HardFaults) :
                 \/ /\ o.umpire.state = WaitingForService(1) /\ o.umpire.turn = "Opponent"
                    /\ o.event = Score("Opponent", luck, fault)
                    /\ m.event = Score("Ourself", luck, fault)
                 \/ /\ o.umpire.state = GameOver
                    /\ o.event = GracefullyEnded(o.umpire.score, luck, fault)
                    /\ m.event.kind = "GracefullyEnded"
<1>1. HardFault[luck] \in 0 .. 6
  BY HardFaultListed
<1>2. CASE HardFault[luck] > 0
  <2> DEFINE fault == HardFaults[HardFault[luck]]
  <2>1. fault \in Range(HardFaults)
    BY <1>1, <1>2 DEF HardFaults, Range
  <2>2. o = ComputeLostScore(u, luck, fault) /\ m = ComputeLostScore(Mirrored(u), luck, fault)
    BY <1>2 DEF Play
  <2> HIDE DEF fault
  <2> QED BY <2>1, <2>2, LostScore
<1>3. CASE ~(HardFault[luck] > 0)
  <2>1. /\ o = Outcome([score |-> u.score, state |-> Rally, turn |-> "Opponent"], TurnFlip(luck, event))
        /\ m = Outcome([score |-> [player \in Players |-> u.score[Other(player)]],
                         state |-> Rally, turn |-> "Ourself"], TurnFlip(luck, event))
    BY <1>3, OtherPlayer DEF Play, Mirrored
  <2>2. /\ u = [score |-> u.score, state |-> u.state, turn |-> "Ourself"]
        /\ u.score \in [Players -> 0 .. ScoreLimit]
    BY UmpireFields
  <2>4. /\ o.umpire = [score |-> u.score, state |-> Rally, turn |-> "Opponent"]
        /\ o.event = TurnFlip(luck, event)
    BY <2>1 DEF Outcome
  <2>5. /\ m.umpire = [score |-> [player \in Players |-> u.score[Other(player)]],
                       state |-> Rally, turn |-> "Ourself"]
        /\ m.event = TurnFlip(luck, event)
    BY <2>1 DEF Outcome
  <2>6. o.umpire \in Umpires /\ Sound(o.umpire)
    BY <2>2, <2>4, StatesTyped DEF Umpires, Sound, Players
  <2>7. m.umpire = Mirrored(o.umpire)
    BY <2>4, <2>5, OtherPlayer DEF Mirrored
  <2> QED BY <2>4, <2>5, <2>6, <2>7
<1> QED BY <1>1, <1>2, <1>3

\* What a player tells of its turn, and how its opponent sees it
LEMMA OurTurn ==
    ASSUME NEW u \in Umpires, u.turn = "Ourself", Sound(u), u.state # GameOver,
           NEW luck \in Luck,
           NEW o, o = ProcessTurn(u, "Ourself", luck),
           NEW m, m = ProcessTurn(Mirrored(u), "Opponent", luck)
    PROVE  /\ o.umpire \in Umpires /\ Sound(o.umpire)
           /\ m.umpire = Mirrored(o.umpire)
           /\ o = Outcome(o.umpire, o.event)
           /\ o.event \in PingPongEvents /\ o.event.luck = luck /\ IsEvent(o.event)
           /\ \/ /\ o.event.kind = "TurnFlip" /\ m.event = o.event
                 /\ o.event.event = IF u.state = Rally THEN "SuccessfulRebate" ELSE "SuccessfulService"
                 /\ o.umpire.state = Rally /\ o.umpire.turn = "Opponent"
              \/ /\ o.event.kind = "SoftFault" /\ m.event = o.event
                 /\ u.state # Rally /\ u.state.attempt < 3 /\ o.umpire = Missed(u, 1)
              \/ /\ o.event.kind = "Score" /\ o.event.winner = "Opponent"
                 /\ m.event.kind = "Score" /\ m.event.fault = o.event.fault
                 /\ o.umpire.state = WaitingForService(1) /\ o.umpire.turn = "Opponent"
              \/ /\ o.event.kind = "GracefullyEnded" /\ m.event.kind = "GracefullyEnded"
                 /\ o.umpire.state = GameOver
<1> DEFINE w == Mirrored(u)
<1>1. /\ w \in Umpires /\ w.turn = "Opponent" /\ w.state = u.state /\ w.state # GameOver
      /\ Players = {"Ourself", "Opponent"}
  BY MirrorTyped DEF Players
<1>2. ASSUME NEW event \in {"SuccessfulService", "SuccessfulRebate"},
             o = Play(u, luck, event), m = Play(w, luck, event),
             event = IF u.state = Rally THEN "SuccessfulRebate" ELSE "SuccessfulService"
      PROVE  /\ o.umpire \in Umpires /\ Sound(o.umpire)
             /\ m.umpire = Mirrored(o.umpire)
             /\ o.event \in PingPongEvents /\ o.event.luck = luck /\ IsEvent(o.event)
             /\ \/ /\ o.event.kind = "TurnFlip" /\ m.event = o.event
                   /\ o.event.event = event
                   /\ o.umpire.state = Rally /\ o.umpire.turn = "Opponent"
                \/ /\ o.event.kind = "Score" /\ o.event.winner = "Opponent"
                   /\ m.event.kind = "Score" /\ m.event.fault = o.event.fault
                   /\ o.umpire.state = WaitingForService(1) /\ o.umpire.turn = "Opponent"
                \/ /\ o.event.kind = "GracefullyEnded" /\ m.event.kind = "GracefullyEnded"
                   /\ o.umpire.state = GameOver
  <2>1. /\ o.umpire \in Umpires /\ Sound(o.umpire)
        /\ m.umpire = Mirrored(o.umpire)
        /\ \/ /\ o.umpire.state = Rally /\ o.umpire.turn = "Opponent"
              /\ o.event = TurnFlip(luck, event) /\ m.event = o.event
           \/ \E fault \in Range(HardFaults) :
              \/ /\ o.umpire.state = WaitingForService(1) /\ o.umpire.turn = "Opponent"
                 /\ o.event = Score("Opponent", luck, fault)
                 /\ m.event = Score("Ourself", luck, fault)
              \/ /\ o.umpire.state = GameOver
                 /\ o.event = GracefullyEnded(o.umpire.score, luck, fault)
                 /\ m.event.kind = "GracefullyEnded"
    BY <1>2, PlayedBall
  <2>2. CASE /\ o.umpire.state = Rally /\ o.umpire.turn = "Opponent"
             /\ o.event = TurnFlip(luck, event) /\ m.event = o.event
    BY <2>1, <2>2 DEF TurnFlip, PingPongEvents, IsEvent
  <2>3. ASSUME NEW fault \in Range(HardFaults),
               o.umpire.state = WaitingForService(1), o.umpire.turn = "Opponent",
               o.event = Score("Opponent", luck, fault), m.event = Score("Ourself", luck, fault)
        PROVE  /\ o.event \in PingPongEvents /\ o.event.luck = luck /\ IsEvent(o.event)
               /\ o.event.kind = "Score" /\ o.event.winner = "Opponent"
               /\ m.event.kind = "Score" /\ m.event.fault = o.event.fault
    BY <1>1, <2>3 DEF Score, PingPongEvents, IsEvent
  <2>4. ASSUME NEW fault \in Range(HardFaults), o.umpire.state = GameOver,
               o.event = GracefullyEnded(o.umpire.score, luck, fault)
        PROVE  /\ o.event \in PingPongEvents /\ o.event.luck = luck /\ IsEvent(o.event)
               /\ o.event.kind = "GracefullyEnded"
    <3>1. o.umpire.score \in [Players -> 0 .. ScoreLimit]
      BY <2>1, UmpireFields
    <3> QED BY <2>4, <3>1 DEF GracefullyEnded, PingPongEvents, IsEvent
  <2> QED BY <2>1, <2>2, <2>3, <2>4
<1>3. o = Outcome(o.umpire, o.event)
  BY StateKinds, TurnByState DEF Play, ComputeLostScore, Outcome
<1>4. CASE u.state = Rally
  <2>1. o = Play(u, luck, "SuccessfulRebate") /\ m = Play(w, luck, "SuccessfulRebate")
    BY <1>1, <1>4, TurnByState
  <2> QED BY <1>2, <1>3, <1>4, <2>1
<1>5. CASE u.state # Rally /\ ~ServiceSoftFault(luck, u.state.attempt)
  <2>1. o = Play(u, luck, "SuccessfulService") /\ m = Play(w, luck, "SuccessfulService")
    BY <1>1, <1>5, TurnByState
  <2> QED BY <1>2, <1>3, <1>5, <2>1
<1>6. CASE u.state # Rally /\ ServiceSoftFault(luck, u.state.attempt)
  <2> DEFINE event == SoftFault(luck, SoftFaultOf(luck))
             next == WaitingForService(u.state.attempt + 1)
  <2>1. /\ o = Outcome([u EXCEPT !.state = WaitingForService(@.attempt + 1)], event)
        /\ m = Outcome([w EXCEPT !.state = WaitingForService(@.attempt + 1)], event)
    BY <1>1, <1>6, TurnByState
  <2>2. u.state.attempt \in 1 .. 3 /\ u.state.attempt < 3
    BY <1>6, StateKinds DEF ServiceSoftFault, SERVICING_ATTEMPTS
  <2>3. next \in GameStates /\ next # GameOver
    BY <2>2, StatesTyped
  <2>4. o.event = event /\ m.event = event /\ o.umpire = [u EXCEPT !.state = next]
        /\ m.umpire = [w EXCEPT !.state = next]
    BY <1>1, <2>1 DEF Outcome
  <2>5. event \in PingPongEvents /\ event.luck = luck /\ IsEvent(event) /\ event.kind = "SoftFault"
    BY DEF SoftFault, SoftFaultOf, PingPongEvents, IsEvent
  <2> HIDE DEF next, event
  <2>6. o.umpire \in Umpires /\ Sound(o.umpire)
    BY <2>3, <2>4 DEF Umpires, Sound
  <2>7. m.umpire = Mirrored(o.umpire)
    BY <2>3, <2>4, MirrorTyped, OtherPlayer DEF Mirrored, Umpires
  <2>8. o.umpire = Missed(u, 1)
    BY <2>4 DEF Missed, next
  <2> QED BY <1>3, <1>6, <2>2, <2>4, <2>5, <2>6, <2>7, <2>8
<1> QED BY <1>4, <1>5, <1>6

-----------------------------------------------------------------------------
(* A player's turn *)

\* What a run of attempts that told these events leaves
Told(u, run) ==
    /\ run.umpire \in Umpires /\ Sound(run.umpire)
    /\ run.events \in Seq(PingPongEvents) /\ run.events # <<>>
    /\ \A i \in 1 .. Len(run.events) : IsEvent(run.events[i])
    /\ Tells(u, run.events, run.umpire)

\* Acting once
LEMMA ActTold ==
    ASSUME NEW u \in Umpires, u.turn = "Ourself", Sound(u), u.state # GameOver,
           NEW run \in Act(u)
    PROVE  /\ Told(u, run) /\ Len(run.events) = 1
           /\ run = Reaction(run.umpire, <<run.events[1]>>)
           /\ run.events[1].kind = "SoftFault" =>
                run.umpire = Missed(u, 1) /\ u.state # Rally /\ u.state.attempt < 3
<1>1. PICK luck \in Luck :
        run = Reaction(ProcessTurn(u, "Ourself", luck).umpire, <<ProcessTurn(u, "Ourself", luck).event>>)
  BY DEF Act
<1> DEFINE o == ProcessTurn(u, "Ourself", luck)
           m == ProcessTurn(Mirrored(u), "Opponent", luck)
<1>2. /\ o.umpire \in Umpires /\ Sound(o.umpire)
      /\ o = Outcome(o.umpire, o.event)
      /\ o.event \in PingPongEvents /\ o.event.luck = luck /\ IsEvent(o.event)
      /\ o.event.kind = "SoftFault" =>
            o.umpire = Missed(u, 1) /\ u.state # Rally /\ u.state.attempt < 3
  <2>1. /\ o.umpire \in Umpires /\ Sound(o.umpire)
        /\ o = Outcome(o.umpire, o.event)
        /\ o.event \in PingPongEvents /\ o.event.luck = luck /\ IsEvent(o.event)
        /\ \/ o.event.kind = "TurnFlip"
           \/ /\ o.event.kind = "SoftFault"
              /\ u.state # Rally /\ u.state.attempt < 3 /\ o.umpire = Missed(u, 1)
           \/ o.event.kind = "Score"
           \/ o.event.kind = "GracefullyEnded"
    BY OurTurn
  <2> QED BY <2>1
<1>3. run.umpire = o.umpire /\ run.events = <<o.event>>
  BY <1>1 DEF Reaction
<1> HIDE DEF o, m
<1>4. /\ run.events \in Seq(PingPongEvents) /\ run.events # <<>> /\ Len(run.events) = 1
      /\ run.events[1] = o.event
  BY <1>2, <1>3
<1>5. Tells(u, run.events, run.umpire)
  <2>1. Missed(u, 1 - 1) = u
    BY DEF Missed
  <2>2. ProcessTurn(u, "Ourself", run.events[1].luck) = Outcome(run.umpire, run.events[1])
    BY <1>2, <1>3, <1>4 DEF o
  <2>3. 1 .. 1 = {1} /\ 1 .. 1 - 1 = {}
    OBVIOUS
  <2> QED BY <1>2, <1>4, <2>1, <2>2, <2>3 DEF Tells
<1>6. Told(u, run)
  BY <1>2, <1>3, <1>4, <1>5 DEF Told
<1>7. run = Reaction(run.umpire, <<run.events[1]>>)
  BY <1>1, <1>3, <1>4 DEF o
<1> QED BY <1>2, <1>3, <1>4, <1>6, <1>7

\* The umpire of a player that missed its service a number of times
LEMMA MissedTyped ==
    ASSUME NEW u \in Umpires, u.turn = "Ourself", Sound(u), u.state # GameOver, u.state # Rally,
           NEW k \in Nat, u.state.attempt + k <= 3
    PROVE  /\ Missed(u, k) \in Umpires /\ Missed(u, k).turn = "Ourself" /\ Sound(Missed(u, k))
           /\ Missed(u, k).state = WaitingForService(u.state.attempt + k)
           /\ Missed(u, k).state # GameOver /\ Missed(u, k).state # Rally
           /\ Missed(u, k).state.attempt = u.state.attempt + k
<1>1. u.state.attempt \in 1 .. 3 /\ u.state = WaitingForService(u.state.attempt)
  BY StateKinds
<1>2. CASE k = 0
  BY <1>1, <1>2, StatesTyped DEF Missed
<1>3. CASE k # 0
  <2> DEFINE next == WaitingForService(u.state.attempt + k)
  <2>1. Missed(u, k) = [u EXCEPT !.state = next]
    BY <1>3 DEF Missed
  <2>2. /\ next \in GameStates /\ next # GameOver /\ next # Rally
        /\ next.attempt = u.state.attempt + k
    BY <1>1, StatesTyped
  <2> HIDE DEF next
  <2>3. /\ Missed(u, k) \in Umpires /\ Missed(u, k).turn = "Ourself" /\ Sound(Missed(u, k))
        /\ Missed(u, k).state = next
    BY <2>1, <2>2 DEF Umpires, Sound
  <2> QED BY <2>2, <2>3 DEF next
<1> QED BY <1>2, <1>3

\* ... one after the other
LEMMA MissedAgain ==
    ASSUME NEW u \in Umpires, u.state # GameOver, u.state # Rally,
           NEW k \in Nat, NEW l \in Nat
    PROVE  Missed(Missed(u, k), l) = Missed(u, k + l)
<1> DEFINE v == Missed(u, k)
<1>1. u.state.attempt \in Nat
  BY StateKinds
<1>2. CASE l = 0
  BY <1>2 DEF Missed
<1>3. CASE l # 0 /\ k = 0
  BY <1>3 DEF Missed
<1>4. CASE l # 0 /\ k # 0
  <2>1. v = [u EXCEPT !.state = WaitingForService(u.state.attempt + k)]
    BY <1>4 DEF Missed
  <2>2. Missed(v, l) = [v EXCEPT !.state = WaitingForService(v.state.attempt + l)]
    BY <1>4 DEF Missed
  <2>3. Missed(u, k + l) = [u EXCEPT !.state = WaitingForService(u.state.attempt + (k + l))]
    BY <1>4 DEF Missed
  <2> HIDE DEF v
  <2>4. v.state.attempt + l = u.state.attempt + (k + l)
    BY <1>1, <2>1 DEF Umpires, WaitingForService
  <2> QED BY <2>1, <2>2, <2>3, <2>4 DEF v, Umpires
<1> QED BY <1>2, <1>3, <1>4

\* One more attempt, after soft faults only
LEMMA TellsMore ==
    ASSUME NEW u, NEW events \in Seq(PingPongEvents), NEW k \in Nat \ {0}, Len(events) = k,
           Tells(u, events, Missed(u, k)), events[k].kind = "SoftFault",
           NEW event \in PingPongEvents, event.luck \in Luck, NEW v,
           ProcessTurn(Missed(u, k), "Ourself", event.luck) = Outcome(v, event)
    PROVE  Tells(u, Append(events, event), v)
<1> DEFINE more == Append(events, event)
<1>1. /\ Len(more) = k + 1 /\ more[k + 1] = event
      /\ \A i \in 1 .. k : more[i] = events[i]
  BY AppendProperties
<1> HIDE DEF more
<1>2. (k + 1) - 1 = k
  OBVIOUS
<1>3. /\ u.turn = "Ourself" /\ u.state # GameOver
      /\ \A i \in 1 .. k : events[i].luck \in Luck
      /\ \A i \in 1 .. k - 1 :
            /\ events[i].kind = "SoftFault"
            /\ ProcessTurn(Missed(u, i - 1), "Ourself", events[i].luck) = Outcome(Missed(u, i), events[i])
      /\ ProcessTurn(Missed(u, k - 1), "Ourself", events[k].luck) = Outcome(Missed(u, k), events[k])
  BY DEF Tells
<1>4. ASSUME NEW i \in 1 .. k + 1 PROVE more[i].luck \in Luck
  BY <1>1, <1>3
<1>5. ASSUME NEW i \in 1 .. k
      PROVE  /\ more[i].kind = "SoftFault"
             /\ ProcessTurn(Missed(u, i - 1), "Ourself", more[i].luck) = Outcome(Missed(u, i), more[i])
  <2>1. more[i] = events[i]
    BY <1>1
  <2>2. CASE i = k
    BY <1>3, <2>1, <2>2
  <2>3. CASE i # k
    <3>1. i \in 1 .. k - 1
      BY <2>3
    <3> QED BY <1>3, <2>1, <3>1
  <2> QED BY <2>2, <2>3
<1>6. ProcessTurn(Missed(u, k), "Ourself", more[k + 1].luck) = Outcome(v, more[k + 1])
  BY <1>1
<1> QED BY <1>1, <1>2, <1>3, <1>4, <1>5, <1>6, Zenon DEF Tells, more

\* What k attempts at servicing tell: soft faults alone only if no attempt is left
Served(u, k, run) ==
    /\ Told(u, run)
    /\ Len(run.events) \in 1 .. k
    /\ run.events[Len(run.events)].kind = "SoftFault" =>
        Len(run.events) = k /\ run.umpire = Missed(u, k) /\ k < 3

\* One more attempt keeps to the rules of the service
LEMMA AgainServed ==
    ASSUME NEW u \in Umpires, u.turn = "Ourself", Sound(u), u.state = WaitingForService(1),
           NEW k \in 1 .. 2, NEW runs, \A run \in runs : Served(u, k, run),
           NEW next \in Again(runs)
    PROVE  Served(u, k + 1, next)
<1>1. PICK run \in runs :
        next \in IF Last(run.events).kind = "SoftFault"
                 THEN {Reaction(act.umpire, run.events \o act.events) : act \in Act(run.umpire)}
                 ELSE {run}
  BY DEF Again
<1>2. /\ Served(u, k, run) /\ Told(u, run) /\ k \in Nat /\ k # 0
      /\ Len(run.events) \in 1 .. k /\ run.events \in Seq(PingPongEvents)
      /\ Last(run.events) = run.events[Len(run.events)]
  BY DEF Served, Told, Last
<1>3. CASE Last(run.events).kind # "SoftFault"
  <2>1. next = run
    BY <1>1, <1>3
  <2>2. Len(run.events) \in 1 .. k + 1
    BY <1>2
  <2> QED BY <1>2, <1>3, <2>1, <2>2 DEF Served
<1>4. CASE Last(run.events).kind = "SoftFault"
  <2> DEFINE w == Missed(u, k)
  <2>1. Len(run.events) = k /\ run.umpire = w /\ run.events[k].kind = "SoftFault"
    BY <1>2, <1>4 DEF Served
  <2>2. PICK act \in Act(w) : next = Reaction(act.umpire, run.events \o act.events)
    BY <1>1, <1>4, <2>1
  <2>3. u.state.attempt = 1 /\ u.state # GameOver /\ u.state # Rally
    BY StatesTyped
  <2>4. /\ w \in Umpires /\ w.turn = "Ourself" /\ Sound(w) /\ w.state # GameOver
        /\ w.state.attempt = 1 + k
    BY <2>3, MissedTyped
  <2> HIDE DEF w
  <2> DEFINE event == act.events[1]
             v == act.umpire
  <2>5. /\ Told(w, act) /\ Len(act.events) = 1
        /\ act = Reaction(v, <<event>>)
        /\ event.kind = "SoftFault" => v = Missed(w, 1) /\ w.state.attempt < 3
    BY <2>4, ActTold
  <2>6. /\ v \in Umpires /\ Sound(v) /\ event \in PingPongEvents /\ IsEvent(event)
        /\ event.luck \in Luck
        /\ ProcessTurn(w, "Ourself", event.luck) = Outcome(v, event)
    BY <2>5 DEF Told, Tells, Missed
  <2>7. act.events = <<event>>
    BY <2>5 DEF Reaction
  <2> HIDE DEF event, v
  <2>8. next.umpire = v /\ next.events = run.events \o <<event>>
    BY <2>2, <2>7 DEF Reaction, v
  <2>9. run.events \o <<event>> = Append(run.events, event)
    BY <1>2, <2>6, AppendIsConcat
  <2>10. Tells(u, Append(run.events, event), v)
    BY <1>2, <2>1, <2>6, TellsMore DEF Told, w
  <2>11. /\ next.events \in Seq(PingPongEvents) /\ Len(next.events) = k + 1
         /\ next.events[k + 1] = event
         /\ \A i \in 1 .. k : next.events[i] = run.events[i]
    <3> DEFINE told == run.events
               more == Append(told, event)
    <3>1. told \in Seq(PingPongEvents) /\ Len(told) = k
      BY <1>2, <2>1
    <3> HIDE DEF told
    <3>2. /\ more \in Seq(PingPongEvents) /\ Len(more) = k + 1 /\ more[k + 1] = event
          /\ \A i \in 1 .. k : more[i] = told[i]
      BY <2>6, <3>1, AppendProperties
    <3>3. next.events = more
      BY <2>8, <2>9, Zenon DEF told
    <3> HIDE DEF more
    <3> QED BY <3>2, <3>3 DEF told
  <2>12. \A i \in 1 .. Len(next.events) : IsEvent(next.events[i])
    BY <1>2, <2>1, <2>6, <2>11 DEF Told
  <2>13. Told(u, next)
    <3>1. Tells(u, next.events, next.umpire)
      BY <2>8, <2>9, <2>10, Zenon
    <3>2. next.umpire \in Umpires /\ Sound(next.umpire) /\ next.events # <<>>
      BY <1>2, <2>6, <2>8, <2>11
    <3> QED BY <2>11, <2>12, <3>1, <3>2, Zenon DEF Told
  <2>14. event.kind = "SoftFault" => v = Missed(u, k + 1) /\ k + 1 < 3
    BY <2>3, <2>4, <2>5, MissedAgain DEF w, event, v
  <2> QED BY <2>8, <2>11, <2>13, <2>14 DEF Served
<1> QED BY <1>3, <1>4

\* A player that services tells of soft faults and of what came out of the service.
LEMMA BallServed ==
    ASSUME NEW u \in Umpires, u.turn = "Ourself", Sound(u), u.state = WaitingForService(1),
           NEW run \in ServiceBall(u)
    PROVE  Told(u, run) /\ run.events[Len(run.events)].kind # "SoftFault"
<1>1. ASSUME NEW first \in Act(u) PROVE Served(u, 1, first)
  <2>1. u.state # GameOver
    BY StatesTyped
  <2>2. /\ Told(u, first) /\ Len(first.events) = 1
        /\ first.events[1].kind = "SoftFault" => first.umpire = Missed(u, 1)
    BY <2>1, ActTold
  <2> QED BY <2>2 DEF Served
<1>2. ASSUME NEW second \in Again(Act(u)) PROVE Served(u, 2, second)
  <2>1. Served(u, 1 + 1, second)
    BY <1>1, AgainServed
  <2> QED BY <2>1
<1>3. Served(u, 3, run)
  <2>1. Served(u, 2 + 1, run)
    BY <1>2, AgainServed DEF ServiceBall
  <2> QED BY <2>1
<1> QED BY <1>3 DEF Served

-----------------------------------------------------------------------------
(* What the other player hears *)

\* The first of the events is the outcome of a turn, which is over unless it is a soft fault.
LEMMA FirstTold ==
    ASSUME NEW u \in Umpires, Sound(u), NEW v, NEW events \in Seq(Messages), events # <<>>,
           Tells(u, events, v)
    PROVE  /\ u.turn = "Ourself" /\ u.state # GameOver /\ events[1].luck \in Luck
           /\ Len(events) \in Nat \ {0}
           /\ ProcessTurn(u, "Ourself", events[1].luck).event = events[1]
           /\ Len(events) = 1 => ProcessTurn(u, "Ourself", events[1].luck).umpire = v
           /\ events[1].kind # "SoftFault" => Len(events) = 1
<1>1. Len(events) \in Nat \ {0} /\ 1 \in 1 .. Len(events)
  BY EmptySeq
<1>2. Missed(u, 0) = u /\ 1 - 1 = 0
  BY DEF Missed
<1>3. CASE Len(events) = 1
  BY <1>1, <1>2, <1>3 DEF Tells, Outcome
<1>4. CASE Len(events) # 1
  <2> DEFINE n == Len(events)
  <2>1. n \in Nat \ {0} /\ n # 1
    BY <1>1, <1>4
  <2> HIDE DEF n
  <2>2. 1 \in 1 .. n - 1 /\ 1 \in 1 .. n
    BY <2>1
  <2>3. /\ events[1].kind = "SoftFault"
        /\ ProcessTurn(u, "Ourself", events[1].luck) = Outcome(Missed(u, 1), events[1])
        /\ events[1].luck \in Luck
    BY <1>2, <2>2 DEF Tells, n
  <2> QED BY <1>1, <1>4, <2>3 DEF Tells, Outcome
<1> QED BY <1>3, <1>4

\* After a soft fault the others remain.
LEMMA TellsRest ==
    ASSUME NEW u \in Umpires, u.state # GameOver, u.state # Rally, NEW v,
           NEW events \in Seq(Messages), Len(events) > 1,
           Tells(u, events, v), Missed(u, 1).state # GameOver, Missed(u, 1).turn = "Ourself"
    PROVE  Tells(Missed(u, 1), Tail(events), v)
<1> DEFINE n == Len(events)
           rest == Tail(events)
           w == Missed(u, 1)
<1>1. /\ n \in Nat /\ n > 1 /\ Len(rest) = n - 1
      /\ \A i \in 1 .. n - 1 : rest[i] = events[i + 1]
  BY HeadTailProperties
<1>2. \A i \in Nat : Missed(w, i) = Missed(u, i + 1)
  <2> TAKE i \in Nat
  <2>1. Missed(w, i) = Missed(u, 1 + i) /\ 1 + i = i + 1
    BY MissedAgain
  <2> QED BY <2>1
<1>3. /\ \A i \in 1 .. n : events[i].luck \in Luck
      /\ \A i \in 1 .. n - 1 :
            /\ events[i].kind = "SoftFault"
            /\ ProcessTurn(Missed(u, i - 1), "Ourself", events[i].luck) = Outcome(Missed(u, i), events[i])
      /\ ProcessTurn(Missed(u, n - 1), "Ourself", events[n].luck) = Outcome(v, events[n])
  BY DEF Tells
<1> HIDE DEF n, rest, w
<1>4. ASSUME NEW i \in 1 .. n - 1 PROVE rest[i].luck \in Luck
  <2>1. i + 1 \in 1 .. n
    BY <1>1
  <2> QED BY <1>1, <1>3, <2>1
<1>5. ASSUME NEW i \in 1 .. (n - 1) - 1
      PROVE  /\ rest[i].kind = "SoftFault"
             /\ ProcessTurn(Missed(w, i - 1), "Ourself", rest[i].luck) = Outcome(Missed(w, i), rest[i])
  <2> DEFINE j == i + 1
  <2>1. /\ j \in 1 .. n - 1 /\ i \in 1 .. n - 1 /\ i \in Nat /\ i - 1 \in Nat /\ (i - 1) + 1 = j - 1
        /\ i + 1 = j
    BY <1>1
  <2>2. Missed(w, i - 1) = Missed(u, j - 1) /\ Missed(w, i) = Missed(u, j) /\ rest[i] = events[j]
    BY <1>1, <1>2, <2>1
  <2> HIDE DEF j
  <2> QED BY <1>3, <2>1, <2>2
<1>6. ProcessTurn(Missed(w, (n - 1) - 1), "Ourself", rest[n - 1].luck) = Outcome(v, rest[n - 1])
  <2>1. (n - 1) - 1 \in Nat /\ ((n - 1) - 1) + 1 = n - 1 /\ n - 1 \in 1 .. n - 1 /\ (n - 1) + 1 = n
    BY <1>1
  <2>2. Missed(w, (n - 1) - 1) = Missed(u, n - 1) /\ rest[n - 1] = events[n]
    BY <1>1, <1>2, <2>1
  <2> QED BY <1>3, <2>2
<1>7. w.turn = "Ourself" /\ w.state # GameOver
  BY DEF w
<1> QED BY <1>1, <1>4, <1>5, <1>6, <1>7, Zenon DEF Tells, n, rest, w

\* A player that counts the opponent's turn finds what it was told.
LEMMA Hearing ==
    ASSUME NEW r \in Umpires, Sound(r), NEW v, NEW events \in Seq(Messages), events # <<>>,
           Tells(Mirrored(r), events, v),
           NEW told, told = events[1],
           NEW m, m = ProcessTurn(r, "Opponent", told.luck)
    PROVE  /\ r.turn = "Opponent" /\ r.state # GameOver
           /\ Len(events) \in Nat \ {0}
           /\ \/ /\ told.kind = "TurnFlip" /\ Len(events) = 1 /\ m.event = told
                 /\ told.event = IF r.state = Rally THEN "SuccessfulRebate" ELSE "SuccessfulService"
                 /\ v \in Umpires /\ Sound(v) /\ m.umpire = Mirrored(v)
                 /\ v.state = Rally /\ v.turn = "Opponent"
              \/ /\ told.kind = "SoftFault" /\ m.event = told
                 /\ r.state # Rally /\ r.state.attempt < 3
                 /\ Missed(Mirrored(r), 1) \in Umpires /\ m.umpire = Mirrored(Missed(Mirrored(r), 1))
                 /\ Len(events) = 1 => v = Missed(Mirrored(r), 1)
                 /\ Len(events) # 1 => Tells(Missed(Mirrored(r), 1), Tail(events), v)
              \/ /\ told.kind = "Score" /\ Len(events) = 1 /\ told.winner = "Opponent"
                 /\ m.event.kind = "Score" /\ m.event.fault = told.fault
                 /\ v \in Umpires /\ Sound(v) /\ m.umpire = Mirrored(v)
                 /\ v.state = WaitingForService(1) /\ v.turn = "Opponent"
              \/ /\ told.kind = "GracefullyEnded" /\ Len(events) = 1
                 /\ v \in Umpires /\ Sound(v) /\ v.state = GameOver
<1> DEFINE u == Mirrored(r)
           o == ProcessTurn(u, "Ourself", told.luck)
<1>1. u \in Umpires /\ Sound(u) /\ Mirrored(u) = r /\ u.state = r.state
  BY MirrorTyped
<1>2. /\ u.turn = "Ourself" /\ u.state # GameOver /\ told.luck \in Luck
      /\ Len(events) \in Nat \ {0}
      /\ o.event = told
      /\ Len(events) = 1 => o.umpire = v
      /\ told.kind # "SoftFault" => Len(events) = 1
  BY <1>1, FirstTold
<1>3. m = ProcessTurn(Mirrored(u), "Opponent", told.luck)
  BY <1>1
<1>4. r.turn = "Opponent" /\ r.state # GameOver
  BY <1>1, <1>2, MirrorTyped
<1> HIDE DEF u
<1>5. /\ o.umpire \in Umpires /\ Sound(o.umpire)
      /\ m.umpire = Mirrored(o.umpire)
      /\ \/ /\ o.event.kind = "TurnFlip" /\ m.event = o.event
            /\ o.event.event = IF u.state = Rally THEN "SuccessfulRebate" ELSE "SuccessfulService"
            /\ o.umpire.state = Rally /\ o.umpire.turn = "Opponent"
         \/ /\ o.event.kind = "SoftFault" /\ m.event = o.event
            /\ u.state # Rally /\ u.state.attempt < 3 /\ o.umpire = Missed(u, 1)
         \/ /\ o.event.kind = "Score" /\ o.event.winner = "Opponent"
            /\ m.event.kind = "Score" /\ m.event.fault = o.event.fault
            /\ o.umpire.state = WaitingForService(1) /\ o.umpire.turn = "Opponent"
         \/ /\ o.event.kind = "GracefullyEnded" /\ m.event.kind = "GracefullyEnded"
            /\ o.umpire.state = GameOver
  BY <1>1, <1>2, <1>3, OurTurn
<1> HIDE DEF o
<1>6. CASE told.kind = "SoftFault"
  <2>1. /\ m.event = told /\ u.state # Rally /\ u.state.attempt < 3
        /\ o.umpire = Missed(u, 1) /\ m.umpire = Mirrored(Missed(u, 1)) /\ Missed(u, 1) \in Umpires
    BY <1>2, <1>5, <1>6
  <2>2. ASSUME Len(events) # 1 PROVE Tells(Missed(u, 1), Tail(events), v)
    <3>1. Missed(u, 1).state # GameOver /\ Missed(u, 1).turn = "Ourself"
      <4>1. u.state.attempt \in Nat /\ u.state.attempt + 1 <= 3
        BY <1>1, <1>2, <2>1, StateKinds
      <4> QED BY <1>1, <1>2, <2>1, <4>1, MissedTyped
    <3>2. Len(events) > 1
      <4> DEFINE n == Len(events)
      <4>1. n \in Nat \ {0} /\ n # 1
        BY <1>2, <2>2
      <4> HIDE DEF n
      <4>2. n > 1
        BY <4>1
      <4> QED BY <4>2 DEF n
    <3>3. Tells(u, events, v)
      BY DEF u
    <3> QED BY <1>1, <1>2, <2>1, <3>1, <3>2, <3>3, TellsRest
  <2> QED BY <1>1, <1>2, <1>4, <1>6, <2>1, <2>2 DEF u
<1>7. CASE told.kind # "SoftFault"
  <2>1. Len(events) = 1 /\ o.umpire = v
    BY <1>2, <1>7
  <2> QED BY <1>1, <1>2, <1>4, <1>5, <1>7, <2>1
<1> QED BY <1>6, <1>7

\* A player that goes on with the game has nothing to complain about.
LEMMA Reacting ==
    ASSUME NEW r \in Umpires, Sound(r), NEW v, NEW events \in Seq(Messages), events # <<>>,
           Tells(Mirrored(r), events, v),
           NEW told, told = events[1], GoesOn(told),
           NEW run \in React(r, told)
    PROVE  \/ /\ told.kind # "SoftFault" /\ Len(events) = 1
              /\ Told(Mirrored(v), run)
              /\ run.events[Len(run.events)].kind # "SoftFault"
           \/ /\ told.kind = "SoftFault" /\ run.events = <<>>
              /\ run.umpire \in Umpires /\ Sound(run.umpire)
              /\ Missed(Mirrored(r), 1) \in Umpires
              /\ run.umpire = Mirrored(Missed(Mirrored(r), 1))
              /\ Len(events) = 1 => v = Missed(Mirrored(r), 1)
              /\ Len(events) # 1 => Tells(Missed(Mirrored(r), 1), Tail(events), v)
<1> DEFINE m == ProcessTurn(r, "Opponent", told.luck)
<1>1. /\ r.turn = "Opponent" /\ r.state # GameOver
      /\ \/ /\ told.kind = "TurnFlip" /\ Len(events) = 1 /\ m.event = told
            /\ told.event = IF r.state = Rally THEN "SuccessfulRebate" ELSE "SuccessfulService"
            /\ v \in Umpires /\ Sound(v) /\ m.umpire = Mirrored(v)
            /\ v.state = Rally /\ v.turn = "Opponent"
         \/ /\ told.kind = "SoftFault" /\ m.event = told
            /\ r.state # Rally /\ r.state.attempt < 3
            /\ Missed(Mirrored(r), 1) \in Umpires /\ m.umpire = Mirrored(Missed(Mirrored(r), 1))
            /\ Len(events) = 1 => v = Missed(Mirrored(r), 1)
            /\ Len(events) # 1 => Tells(Missed(Mirrored(r), 1), Tail(events), v)
         \/ /\ told.kind = "Score" /\ Len(events) = 1 /\ told.winner = "Opponent"
            /\ m.event.kind = "Score" /\ m.event.fault = told.fault
            /\ v \in Umpires /\ Sound(v) /\ m.umpire = Mirrored(v)
            /\ v.state = WaitingForService(1) /\ v.turn = "Opponent"
         \/ /\ told.kind = "GracefullyEnded" /\ Len(events) = 1
            /\ v \in Umpires /\ Sound(v) /\ v.state = GameOver
  BY Hearing
<1>2. CASE told.kind = "TurnFlip"
  <2>1. r.state.name = IF told.event = "SuccessfulService" THEN "WaitingForService" ELSE "Rally"
    <3>1. CASE r.state = Rally
      <4>1. told.event = "SuccessfulRebate" /\ r.state.name = "Rally"
        BY <1>1, <1>2, <3>1 DEF Rally
      <4> QED BY <4>1
    <3>2. CASE r.state # Rally
      <4>1. told.event = "SuccessfulService"
        BY <1>1, <1>2, <3>2
      <4>2. r.state.name = "WaitingForService"
        BY <1>1, <3>2, StateKinds
      <4> QED BY <4>1, <4>2
    <3> QED BY <3>1, <3>2
  <2>2. React(r, told) = Act(Mirrored(v))
    BY <1>1, <1>2, <2>1 DEF React, ReactToRallyEvent
  <2>3. /\ Mirrored(v) \in Umpires /\ Mirrored(v).turn = "Ourself" /\ Sound(Mirrored(v))
        /\ Mirrored(v).state = Rally
    <3>1. v \in Umpires /\ Sound(v) /\ v.state = Rally /\ v.turn = "Opponent"
      BY <1>1, <1>2
    <3>2. Mirrored(v) \in Umpires /\ Mirrored(Mirrored(v)) = v
      BY <3>1, MirrorTyped
    <3> QED BY <3>1, <3>2, MirrorTyped
  <2>4. Rally # GameOver
    BY StatesTyped
  <2>5. /\ Told(Mirrored(v), run) /\ Len(run.events) = 1
        /\ run.events[1].kind = "SoftFault" => Mirrored(v).state # Rally
    BY <2>2, <2>3, <2>4, ActTold
  <2> QED BY <1>1, <1>2, <2>3, <2>5
<1>3. CASE told.kind = "SoftFault"
  <2>1. /\ m.umpire \in Umpires /\ Sound(m.umpire) /\ m.event = told
        /\ m.umpire = Mirrored(Missed(Mirrored(r), 1))
        /\ m.umpire.state.attempt <= 3
    <3> DEFINE u == Mirrored(r)
    <3>1. /\ u \in Umpires /\ u.turn = "Ourself" /\ Sound(u) /\ u.state = r.state
          /\ r.state # Rally /\ r.state.attempt < 3 /\ r.state # GameOver
      <4>1. Mirrored(u) = r
        BY MirrorTyped
      <4> QED BY <1>1, <1>3, <4>1, MirrorTyped
    <3>2. m.umpire = Mirrored(Missed(u, 1)) /\ m.event = told
      BY <1>1, <1>3
    <3> HIDE DEF u, m
    <3>3. u.state.attempt \in Nat /\ u.state.attempt + 1 <= 3
      BY <3>1, StateKinds
    <3>4. /\ Missed(u, 1) \in Umpires /\ Sound(Missed(u, 1))
          /\ Missed(u, 1).state.attempt = u.state.attempt + 1
      BY <3>1, <3>3, MissedTyped
    <3>5. /\ Mirrored(Missed(u, 1)) \in Umpires /\ Sound(Mirrored(Missed(u, 1)))
          /\ Mirrored(Missed(u, 1)).state = Missed(u, 1).state
      BY <3>4, MirrorTyped
    <3> QED BY <3>2, <3>3, <3>4, <3>5 DEF u
  <2>2. React(r, told) = {Reaction(m.umpire, <<>>)}
    BY <1>3, <2>1 DEF React, ReactToServiceSoftFault, SERVICING_ATTEMPTS
  <2>3. run.umpire = m.umpire /\ run.events = <<>>
    BY <2>2 DEF Reaction
  <2> QED BY <1>1, <1>3, <2>1, <2>3
<1>4. CASE told.kind = "Score"
  <2>1. React(r, told) = ServiceBall(Mirrored(v))
    BY <1>1, <1>4 DEF React, ReactToScore
  <2>2. /\ Mirrored(v) \in Umpires /\ Mirrored(v).turn = "Ourself" /\ Sound(Mirrored(v))
        /\ Mirrored(v).state = WaitingForService(1)
    <3>1. v \in Umpires /\ Sound(v) /\ v.state = WaitingForService(1) /\ v.turn = "Opponent"
      BY <1>1, <1>4
    <3>2. Mirrored(v) \in Umpires /\ Mirrored(Mirrored(v)) = v
      BY <3>1, MirrorTyped
    <3> QED BY <3>1, <3>2, MirrorTyped
  <2>3. Told(Mirrored(v), run) /\ run.events[Len(run.events)].kind # "SoftFault"
    BY <2>1, <2>2, BallServed
  <2> QED BY <1>1, <1>4, <2>3
<1> QED BY <1>2, <1>3, <1>4 DEF GoesOn

-----------------------------------------------------------------------------
(* The parties' progress and the server's session *)

PhaseTypes ==
    /\ version \in [Parties -> Versions]
    /\ dialog \in [Parties -> {"PreGame", "Game"}]
    /\ phase \in [Parties -> {"arriving", "talking", "leaving", "left", "gone"}]
    /\ state \in [Parties -> {"PreGame", "Game", "Disconnect"}]
    /\ hungUp \in [Parties -> BOOLEAN]
    /\ session \in {"none", "new", "umpired"}
    /\ severed \in BOOLEAN /\ lostStart \in BOOLEAN

Progress == PhaseTypes /\ PartyProgress /\ SessionFollows

\* Both parties begin in the PreGame dialog.
LEMMA ProgressInit == Init => Progress
<1> SUFFICES ASSUME Init PROVE Progress
  OBVIOUS
<1>1. PhaseTypes
  BY DEF Init, PhaseTypes
<1>2. \A p \in Parties : /\ phase[p] = "arriving" /\ dialog[p] = "PreGame" /\ state[p] = "PreGame"
                         /\ ~hungUp[p]
  BY DEF Init
<1>3. PartyProgress
  BY <1>2 DEF PartyProgress, Concluded
<1>4. SessionFollows
  BY <1>2 DEF SessionFollows, Parties
<1> QED BY <1>1, <1>3, <1>4 DEF Progress

\* A conclusion that sets the state, in either dialog
LEMMA ConcludesProgress ==
    ASSUME Progress, NEW p \in Parties, In(p, dialog[p], "talking"),
           NEW new \in {"Game", "Disconnect"}, NEW messages, Concludes(p, new, messages),
           dialog[p] = "Game" => new = "Game",
           session' = IF p = "server" /\ new = "Game" THEN "umpired" ELSE session
    PROVE  Progress'
<1> USE DEF Progress, PhaseTypes, PartyProgress, SessionFollows, Concluded, In, Parties
<1>1. /\ phase' = [phase EXCEPT ![p] = "leaving"] /\ state' = [state EXCEPT ![p] = new]
      /\ UNCHANGED <<version, dialog, hungUp, severed, lostStart>>
  BY DEF Concludes, Enter
<1>2. PhaseTypes'
  BY <1>1
<1>3. PartyProgress'
  <2>1. ASSUME NEW q \in Parties, q # p
        PROVE  UNCHANGED <<phase[q], state[q], dialog[q], hungUp[q]>>
    BY <1>1, <2>1
  <2>2. phase'[p] = "leaving" /\ state'[p] = new /\ dialog'[p] = dialog[p] /\ hungUp'[p] = hungUp[p]
    BY <1>1
  <2> QED BY <2>1, <2>2
<1>4. SessionFollows'
  BY <1>1
<1> QED BY <1>2, <1>3, <1>4

\* The handlers of the PreGame dialog
LEMMA PreGameProgress == Progress /\ PreGame => Progress'
<1> SUFFICES ASSUME Progress, PreGame PROVE Progress'
  OBVIOUS
<1>1. CASE ServerArrives
  BY <1>1 DEF ServerArrives, In, Enter, Progress, PhaseTypes, PartyProgress, SessionFollows, Concluded, Parties
<1>2. CASE ClientArrives
  BY <1>2 DEF ClientArrives, In, Enter, Progress, PhaseTypes, PartyProgress, SessionFollows, Concluded, Parties
<1>3. CASE ServerHearsVersion
  <2>1. PICK v \in Versions :
            /\ Hears("server", "PreGame", Version(v))
            /\ \/ UNCHANGED <<version, dialog, phase, state, hungUp, severed, lostStart>>
               \/ Concludes("server", "Disconnect", <<Plain("Error")>>)
            /\ UNCHANGED session
    BY <1>3 DEF ServerHearsVersion
  <2>2. CASE UNCHANGED <<version, dialog, phase, state, hungUp, severed, lostStart>>
    BY <2>1, <2>2 DEF Progress, PhaseTypes, PartyProgress, SessionFollows
  <2>3. CASE Concludes("server", "Disconnect", <<Plain("Error")>>)
    BY <2>1, <2>3, ConcludesProgress DEF Hears, In, Parties
  <2> QED BY <2>1, <2>2, <2>3
<1>4. CASE ServerHearsConfig
  BY <1>4, ConcludesProgress DEF ServerHearsConfig, Hears, In, Parties
<1>5. CASE ClientHearsVersion
  BY <1>5, ConcludesProgress DEF ClientHearsVersion, Hears, In, Parties
<1>6. CASE ClientHearsError
  BY <1>6, ConcludesProgress DEF ClientHearsError, Hears, In, Parties
<1> QED BY <1>1, <1>2, <1>3, <1>4, <1>5, <1>6 DEF PreGame

\* Playing goes on with the dialog.
LEMMA ReactsProgress ==
    ASSUME Progress, NEW p \in Parties, NEW reactions, Reacts(p, reactions)
    PROVE  Progress'
BY DEF Reacts, Progress, PhaseTypes, PartyProgress, SessionFollows

\* The handlers of the Game dialog
LEMMA GameProgress == Progress /\ Game => Progress'
<1> SUFFICES ASSUME Progress, Game PROVE Progress'
  OBVIOUS
<1>1. CASE ServerStartsGame
  BY <1>1 DEF ServerStartsGame, In, Enter, Progress, PhaseTypes, PartyProgress, SessionFollows, Concluded, Parties
<1>2. CASE ClientStartsGame
  BY <1>2 DEF ClientStartsGame, In, Enter, Progress, PhaseTypes, PartyProgress, SessionFollows, Concluded, Parties
<1>3. CASE (\E p \in Parties : Plays(p)) \/ ClientHearsGameStarted \/ ClientHearsGameOver
  BY <1>3, ReactsProgress DEF Plays, ClientHearsGameStarted, ClientHearsGameOver, Parties
<1>4. CASE ClientHearsGoodBye
  <2>1. state["client"] = "Game"
    BY <1>4 DEF ClientHearsGoodBye, InGame, In, Progress, PartyProgress, Parties
  <2> QED BY <1>4, <2>1, ConcludesProgress DEF ClientHearsGoodBye, InGame, In, Parties
<1>5. CASE ServerSaysGoodBye
  <2>1. state["server"] = "Game" /\ session = "umpired"
    BY <1>5 DEF ServerSaysGoodBye, InGame, In, Progress, PartyProgress, SessionFollows, Parties
  <2> QED BY <1>5, <2>1, ConcludesProgress DEF ServerSaysGoodBye, InGame, In, Parties
<1> QED BY <1>1, <1>2, <1>3, <1>4, <1>5 DEF Game

\* A connection is dropped, or goes on in the Game dialog.
LEMMA RouteProgress ==
    ASSUME Progress, NEW p \in Parties, Route(p),
           phase[p] = "left" \/ (In(p, "Game", "leaving") /\ p = "client" /\ ~hungUp[p])
    PROVE  Progress'
<1> USE DEF Progress, PhaseTypes, PartyProgress, SessionFollows, Concluded, Parties
<1>1. CASE hungUp[p] \/ state[p] = "Disconnect"
  <2>1. /\ phase' = [phase EXCEPT ![p] = "gone"] /\ severed' \in BOOLEAN
        /\ UNCHANGED <<dialog, version, state, hungUp, session, lostStart>>
    BY <1>1 DEF Route, Enter
  <2>2. phase[p] = "left"
    BY <1>1 DEF In
  <2>3. PhaseTypes'
    BY <2>1
  <2>4. PartyProgress' /\ SessionFollows'
    BY <1>1, <2>1, <2>2
  <2> QED BY <2>3, <2>4
<1>2. CASE ~(hungUp[p] \/ state[p] = "Disconnect")
  <2>1. state[p] = "Game"
    BY <1>2 DEF In
  <2>2. /\ phase' = [phase EXCEPT ![p] = "arriving"]
        /\ dialog' = [dialog EXCEPT ![p] = "Game"]
        /\ UNCHANGED <<version, state, hungUp, session, lostStart, severed>>
    BY <1>2, <2>1 DEF Route, Enter
  <2>3. PhaseTypes'
    BY <2>2
  <2>4. ASSUME NEW q \in Parties
        PROVE  /\ phase'[q] \in {"arriving", "talking"} => ~hungUp'[q] /\ state'[q] = dialog'[q]
               /\ phase'[q] = "gone" => hungUp'[q] \/ state'[q] = "Disconnect"
               /\ dialog'[q] = "PreGame" /\ state'[q] = "PreGame" /\ phase'[q] \in Concluded => hungUp'[q]
               /\ dialog'[q] = "Game" =>
                    state'[q] = IF phase'[q] \in {"left", "gone"} THEN "Disconnect" ELSE "Game"
    <3>1. CASE q = p
      BY <1>2, <2>1, <2>2, <3>1
    <3>2. CASE q # p
      BY <2>2, <3>2
    <3> QED BY <3>1, <3>2
  <2>5. SessionFollows'
    BY <2>1, <2>2
  <2> QED BY <2>3, <2>4, <2>5
<1> QED BY <1>1, <1>2

\* What the library does around the dialogs
LEMMA LibraryProgress ==
    ASSUME Progress, NEW p \in Parties, Library(p)
    PROVE  Progress'
<1>1. CASE PeerLeft(p)
  BY <1>1 DEF PeerLeft, Enter, Progress, PhaseTypes, PartyProgress, SessionFollows, Concluded, Parties
<1>2. CASE DialogEnds(p)
  BY <1>2, RouteProgress DEF DialogEnds
<1>3. CASE ReadInVain(p)
  BY <1>3 DEF ReadInVain, Progress, PhaseTypes, PartyProgress, SessionFollows, Heard
<1>4. CASE HangUp(p)
  BY <1>4 DEF HangUp, Enter, Progress, PhaseTypes, PartyProgress, SessionFollows, Concluded, Parties
<1> QED BY <1>1, <1>2, <1>3, <1>4 DEF Library

\* Every step keeps the progress of the parties.
LEMMA ProgressNext == Progress /\ [Next]_vars => Progress'
<1> SUFFICES ASSUME Progress, [Next]_vars PROVE Progress'
  OBVIOUS
<1>1. CASE DialogEndsEarly
  BY <1>1, RouteProgress DEF DialogEndsEarly, Parties
<1>2. CASE Sever \/ UNCHANGED vars
  BY <1>2 DEF Sever, vars, Progress, PhaseTypes, PartyProgress, SessionFollows
<1> QED BY <1>1, <1>2, PreGameProgress, GameProgress, LibraryProgress DEF Next, Over

\* The server's session lives as long as the game needs it, and not longer.
THEOREM SessionIsReleased == Spec => []SessionReleased
<1>1. Progress => SessionReleased
  BY DEF Progress, PhaseTypes, SessionFollows, SessionReleased, In, Parties
<1> QED BY <1>1, ProgressInit, ProgressNext, PTL DEF Spec

-----------------------------------------------------------------------------
(* The conversation: who moves on, and who says something *)

\* p moves on, in its dialog or to the Game, and nothing is said
Moves(p) ==
    /\ UNCHANGED <<inbox, umpire, version, lostStart>>
    /\ \A q \in Parties \ {p} :
        /\ dialog'[q] = dialog[q] /\ phase'[q] = phase[q]
        /\ state'[q] = state[q] /\ hungUp'[q] = hungUp[q]
    /\ \/ /\ dialog'[p] = dialog[p] /\ phase'[p] # "arriving"
          /\ state'[p] = state[p] \/ dialog[p] = "Game"
          /\ phase[p] = "arriving" => p = "server" /\ dialog[p] = "PreGame" /\ phase'[p] = "talking"
          /\ phase[p] \in Concluded => phase'[p] \in Concluded
          /\ phase'[p] \in Concluded => hungUp'[p] \/ (phase[p] \in Concluded /\ hungUp'[p] = hungUp[p])
       \/ /\ state[p] = "Game" /\ state'[p] = "Game"
          /\ dialog'[p] = "Game" /\ phase'[p] = "arriving"
          /\ \/ dialog[p] = "PreGame"
             \/ p = "client" /\ dialog[p] = "Game" /\ phase[p] = "leaving" /\ ~hungUp[p]

\* What was said stays said while a party moves on.
LEMMA UnheardKept ==
    ASSUME UNCHANGED <<inbox, umpire, version, lostStart>>
    PROVE  /\ Unsaid' = Unsaid
           /\ \A c, s : Unheard(c, s)' = Unheard(c, s)
           /\ \A p \in Parties : Turn(p)' = Turn(p)
           /\ FirstServiceMissed' = FirstServiceMissed
           /\ ScoreEndorsed' = ScoreEndorsed
<1>1. Unsaid' = Unsaid
  BY DEF Unsaid
<1>2. ASSUME NEW c, NEW s PROVE Unheard(c, s)' = Unheard(c, s)
  BY DEF Unheard, Inboxes
<1>3. ASSUME NEW p \in Parties PROVE Turn(p)' = Turn(p)
  BY DEF Turn, OnlyEvents
<1>4. FirstServiceMissed' = FirstServiceMissed
  BY <1>2 DEF FirstServiceMissed
<1>5. ScoreEndorsed' = ScoreEndorsed
  BY <1>2 DEF ScoreEndorsed, Finished
<1> QED BY <1>1, <1>2, <1>3, <1>4, <1>5

\* A party that moves on leaves the conversation where it is.
LEMMA MovesOn ==
    ASSUME Progress, Conversation, NEW p \in Parties, Moves(p)
    PROVE  Conversation'
<1>1. /\ \A c, s : Unheard(c, s)' = Unheard(c, s)
      /\ Unsaid' = Unsaid /\ version' = version /\ lostStart' = lostStart
      /\ \A q \in Parties : Turn(q)' = Turn(q)
      /\ FirstServiceMissed' = FirstServiceMissed
      /\ ScoreEndorsed' = ScoreEndorsed
  BY UnheardKept DEF Moves
<1>2. Parties = {"client", "server"}
  BY DEF Parties
<1>3. CASE BeforeTheGame
  <2> USE <1>1, <1>2 DEF Progress, PhaseTypes, PartyProgress, Moves, In, InPreGame, Concluded
  <2>1. ASSUME Silence PROVE Silence'
    BY <2>1 DEF Silence
  <2>2. ASSUME VersionTold PROVE VersionTold'
    BY <2>2 DEF VersionTold
  <2>3. ASSUME VersionAgreed PROVE VersionAgreed'
    BY <2>3 DEF VersionAgreed
  <2>4. ASSUME VersionRefused PROVE VersionRefused'
    BY <2>4 DEF VersionRefused
  <2>5. ASSUME RefusalHeard PROVE RefusalHeard'
    BY <2>5 DEF RefusalHeard
  <2>6. ASSUME ConfigTold PROVE ConfigTold'
    BY <2>6 DEF ConfigTold, Upgraded
  <2>7. ASSUME Upgrading PROVE Upgrading'
    BY <2>7 DEF Upgrading, Upgraded
  <2>8. ASSUME Starting PROVE Starting'
    BY <2>8 DEF Starting, Upgraded, Gaming
  <2> QED BY <1>3, <2>1, <2>2, <2>3, <2>4, <2>5, <2>6, <2>7, <2>8 DEF BeforeTheGame, Conversation
<1>4. CASE InTheGame
  <2>1. \A q \in Parties : Gaming(q)'
    BY <1>2, <1>4 DEF InTheGame, Gaming, Upgraded, Moves, Concluded
  <2> QED BY <1>1, <1>4, <2>1 DEF InTheGame, Conversation
<1>5. CASE AfterTheGame
  BY <1>1, <1>2, <1>5 DEF AfterTheGame, Gaming, Upgraded, Moves, Concluded, Conversation
<1> QED BY <1>3, <1>4, <1>5 DEF Conversation

\* What the parties are still to hear, after one of them said something
LEMMA SaidInboxes ==
    ASSUME NEW c, NEW s, Unheard(c, s), NEW messages
    PROVE  /\ inbox["client"] = c /\ inbox["server"] = s
           /\ Answer("client", messages) => inbox' = Inboxes(Tail(c), s \o messages)
           /\ Answer("server", messages) => inbox' = Inboxes(c \o messages, Tail(s))
           /\ Send("client", messages) => inbox' = Inboxes(c, Append(s, messages))
           /\ Send("server", messages) => inbox' = Inboxes(Append(c, messages), s)
BY DEF Unheard, Inboxes, Answer, Send, Remote, Parties

\* What the library does moves a party on.
LEMMA LibraryMoves ==
    ASSUME Progress, NEW p \in Parties
    PROVE  /\ PeerLeft(p) => Moves(p)
           /\ HangUp(p) => Moves(p)
           /\ DialogEnds(p) => Moves(p)
           /\ DialogEndsEarly /\ p = "client" => Moves(p)
           /\ ServerArrives /\ p = "server" => Moves(p)
<1> USE DEF Moves, Progress, PhaseTypes, PartyProgress, Concluded, Parties
<1>1. ASSUME PeerLeft(p) PROVE Moves(p)
  BY <1>1 DEF PeerLeft, Enter
<1>2. ASSUME HangUp(p) PROVE Moves(p)
  BY <1>2 DEF HangUp, Enter
<1>3. ASSUME Route(p), \/ phase[p] = "left"
                       \/ p = "client" /\ dialog[p] = "Game" /\ phase[p] = "leaving" /\ ~hungUp[p]
      PROVE  Moves(p)
  <2>1. CASE hungUp[p] \/ state[p] = "Disconnect"
    <3>1. /\ phase' = [phase EXCEPT ![p] = "gone"]
          /\ UNCHANGED <<dialog, version, state, hungUp, umpire, inbox, lostStart>>
      BY <1>3, <2>1 DEF Route, Enter
    <3>2. phase[p] = "left"
      BY <1>3, <2>1
    <3> QED BY <2>1, <3>1, <3>2
  <2>2. CASE ~(hungUp[p] \/ state[p] = "Disconnect")
    <3>1. state[p] = "Game"
      BY <1>3, <2>2
    <3>2. /\ phase' = [phase EXCEPT ![p] = "arriving"]
          /\ dialog' = [dialog EXCEPT ![p] = "Game"]
          /\ UNCHANGED <<version, state, hungUp, umpire, inbox, lostStart>>
      BY <2>2, <3>1, <1>3 DEF Route, Enter
    <3> QED BY <1>3, <2>2, <3>1, <3>2
  <2> QED BY <2>1, <2>2
<1>4. ASSUME ServerArrives, p = "server" PROVE Moves(p)
  BY <1>4 DEF ServerArrives, In, Enter
<1> QED BY <1>1, <1>2, <1>3, <1>4 DEF DialogEnds, DialogEndsEarly, In

\* What tells how far the conversation is
LEMMA HeardWhen ==
    ASSUME Progress, Conversation
    PROVE  /\ In("client", "PreGame", "arriving") => BeforeTheGame /\ Silence
           /\ \A message : Hears("server", "PreGame", message) =>
                /\ BeforeTheGame
                /\ \/ VersionTold /\ message = Version(version["client"])
                   \/ ConfigTold /\ message = Plain("Config")
           /\ \A message : Hears("client", "PreGame", message) =>
                /\ BeforeTheGame
                /\ \/ VersionAgreed /\ message = Version(version["client"])
                   \/ VersionRefused /\ message = Plain("Error")
           /\ In("server", "Game", "arriving") => BeforeTheGame /\ Upgrading
           /\ In("client", "Game", "arriving") =>
                \/ BeforeTheGame /\ (ConfigTold \/ Upgrading \/ Starting)
                \/ AfterTheGame /\ Unheard(<<>>, <<>>)
           /\ InGame("client") =>
                \/ BeforeTheGame /\ Starting /\ Heard("client") = Plain("GameStarted")
                \/ InTheGame /\ Turn("client")
                \/ AfterTheGame /\ Unheard(<<Plain("GoodBye")>>, <<>>) /\ Heard("client") = Plain("GoodBye")
           /\ InGame("server") =>
                /\ InTheGame
                /\ Turn("server") \/ (ScoreEndorsed /\ Heard("server") = Plain("EndorsedScore"))
           /\ \A p \in Parties : ReadInVain(p) =>
                /\ BeforeTheGame
                /\ \/ p = "client" /\ Starting /\ Unheard(<<Plain("GameStarted")>>, <<>>)
                   \/ p = "server" /\ RefusalHeard /\ Unheard(<<>>, <<Plain("Error")>>)
<1> USE DEF Progress, PhaseTypes, PartyProgress, Concluded, Parties, In
<1>1. \A c, s : Unheard(c, s) => inbox["client"] = c /\ inbox["server"] = s
  BY SaidInboxes
<1>2. CASE BeforeTheGame
  <2> USE DEF InPreGame, Upgraded, Gaming, Hears, InGame, Heard, ReadInVain
  <2>1. CASE Silence
    BY <1>1, <1>2, <2>1 DEF Silence
  <2>2. CASE VersionTold
    BY <1>1, <1>2, <2>2 DEF VersionTold
  <2>3. CASE VersionAgreed
    BY <1>1, <1>2, <2>3 DEF VersionAgreed
  <2>4. CASE VersionRefused
    BY <1>1, <1>2, <2>4 DEF VersionRefused
  <2>5. CASE RefusalHeard
    BY <1>1, <1>2, <2>5 DEF RefusalHeard
  <2>6. CASE ConfigTold
    BY <1>1, <1>2, <2>6 DEF ConfigTold
  <2>7. CASE Upgrading
    BY <1>1, <1>2, <2>7 DEF Upgrading
  <2>8. CASE Starting
    BY <1>1, <1>2, <2>8 DEF Starting
  <2> QED BY <1>2, <2>1, <2>2, <2>3, <2>4, <2>5, <2>6, <2>7, <2>8, Zenon DEF BeforeTheGame
<1>3. CASE InTheGame
  <2>1. \A p \in Parties : dialog[p] = "Game" /\ phase[p] # "arriving" /\ (phase[p] \in Concluded => hungUp[p])
    BY <1>3 DEF InTheGame, Gaming, Upgraded
  <2>2. \/ \E p \in Parties : Turn(p)
        \/ Unheard(<<>>, <<>>)
        \/ ScoreEndorsed /\ Unheard(<<>>, <<Plain("EndorsedScore")>>)
    BY <1>3 DEF InTheGame, FirstServiceMissed, ScoreEndorsed
  <2>3. \A p \in Parties : Turn(p) => inbox[p] # <<>> /\ inbox[Remote(p)] = <<>>
    BY DEF Turn
  <2>4. InGame("client") => Turn("client")
    BY <1>1, <2>2, <2>3 DEF InGame, Remote
  <2>5. InGame("server") => Turn("server") \/ (ScoreEndorsed /\ Heard("server") = Plain("EndorsedScore"))
    BY <1>1, <2>2, <2>3 DEF InGame, Remote, Heard
  <2> QED BY <1>3, <2>1, <2>4, <2>5 DEF Hears, ReadInVain
<1>4. CASE AfterTheGame
  BY <1>1, <1>4 DEF AfterTheGame, Gaming, Upgraded, Hears, InGame, Heard, ReadInVain
<1> QED BY <1>2, <1>3, <1>4 DEF Conversation

-----------------------------------------------------------------------------
(* The umpires and what is in flight, before and after the game *)

Contents ==
    /\ umpire \in [Parties -> Umpires]
    /\ UmpiresSound
    /\ inbox \in [Parties -> Seq(Messages)]

\* A new umpire is one, and its match is not over.
LEMMA NewTyped ==
    ASSUME NEW first \in Players
    PROVE  /\ New(first) \in Umpires /\ Sound(New(first)) /\ New(first).turn = first
           /\ New(first).state = WaitingForService(1) /\ New(first).state # GameOver
<1>1. ScoreLimit \in Nat \ {0} /\ 0 \in 0 .. ScoreLimit /\ 0 < ScoreLimit
  BY UmpireAssumption DEF UmpireAssumption
<1> QED BY <1>1, StatesTyped DEF New, Umpires, Sound

\* The umpires of a game that did not begin are sound, and each message is one.
LEMMA UnsaidContents ==
    ASSUME Unsaid', umpire' \in [Parties -> Umpires],
           inbox' \in {Inboxes(<<>>, <<>>)} \cup {Inboxes(<<message>>, <<>>) : message \in Messages}
                      \cup {Inboxes(<<>>, <<message>>) : message \in Messages}
    PROVE  Contents'
<1>1. UmpiresSound'
  BY NewTyped DEF UmpiresSound, Unsaid, Parties, Players
<1>2. ASSUME NEW c \in Seq(Messages), NEW s \in Seq(Messages)
      PROVE  Inboxes(c, s) \in [Parties -> Seq(Messages)]
  BY DEF Inboxes
<1>3. <<>> \in Seq(Messages) /\ \A message \in Messages : <<message>> \in Seq(Messages)
  OBVIOUS
<1>4. inbox' \in [Parties -> Seq(Messages)]
  <2>1. CASE inbox' = Inboxes(<<>>, <<>>)
    BY <1>2, <1>3, <2>1
  <2>2. ASSUME NEW message \in Messages, inbox' = Inboxes(<<message>>, <<>>)
        PROVE  inbox' \in [Parties -> Seq(Messages)]
    BY <1>2, <1>3, <2>2
  <2>3. ASSUME NEW message \in Messages, inbox' = Inboxes(<<>>, <<message>>)
        PROVE  inbox' \in [Parties -> Seq(Messages)]
    BY <1>2, <1>3, <2>3
  <2> QED BY <2>1, <2>2, <2>3
<1> QED BY <1>1, <1>4 DEF Contents

\* A message that is said to a party that has nothing else to hear, and that is heard
LEMMA OneMessage ==
    ASSUME NEW message
    PROVE  /\ Append(<<>>, message) = <<message>> /\ Tail(<<message>>) = <<>>
           /\ <<>> \o <<message>> = <<message>> /\ <<>> \o <<>> = <<>>
OBVIOUS

\* A message answers the only one in flight.
LEMMA SaidAlone ==
    ASSUME NEW message, NEW answer
    PROVE  /\ Unheard(<<>>, <<>>) /\ Send("client", answer) => inbox' = Inboxes(<<>>, <<answer>>)
           /\ Unheard(<<>>, <<>>) /\ Send("server", answer) => inbox' = Inboxes(<<answer>>, <<>>)
           /\ Unheard(<<message>>, <<>>) /\ Answer("client", <<answer>>) => inbox' = Inboxes(<<>>, <<answer>>)
           /\ Unheard(<<message>>, <<>>) /\ Answer("client", <<>>) => inbox' = Inboxes(<<>>, <<>>)
           /\ Unheard(<<>>, <<message>>) /\ Answer("server", <<answer>>) => inbox' = Inboxes(<<answer>>, <<>>)
           /\ Unheard(<<>>, <<message>>) /\ Answer("server", <<>>) => inbox' = Inboxes(<<>>, <<>>)
<1>1. /\ \A m : Append(<<>>, m) = <<m>> /\ Tail(<<m>>) = <<>> /\ <<>> \o <<m>> = <<m>>
      /\ <<>> \o <<>> = <<>>
  BY OneMessage
<1>2. ASSUME Unheard(<<>>, <<>>), Send("client", answer) PROVE inbox' = Inboxes(<<>>, <<answer>>)
  <2>1. inbox' = Inboxes(<<>>, Append(<<>>, answer))
    BY <1>2, SaidInboxes
  <2> QED BY <1>1, <2>1, Zenon
<1>3. ASSUME Unheard(<<>>, <<>>), Send("server", answer) PROVE inbox' = Inboxes(<<answer>>, <<>>)
  <2>1. inbox' = Inboxes(Append(<<>>, answer), <<>>)
    BY <1>3, SaidInboxes
  <2> QED BY <1>1, <2>1, Zenon
<1>4. ASSUME Unheard(<<message>>, <<>>), Answer("client", <<answer>>)
      PROVE  inbox' = Inboxes(<<>>, <<answer>>)
  <2>1. inbox' = Inboxes(Tail(<<message>>), <<>> \o <<answer>>)
    BY <1>4, SaidInboxes
  <2> QED BY <1>1, <2>1, Zenon
<1>5. ASSUME Unheard(<<message>>, <<>>), Answer("client", <<>>) PROVE inbox' = Inboxes(<<>>, <<>>)
  <2>1. inbox' = Inboxes(Tail(<<message>>), <<>> \o <<>>)
    BY <1>5, SaidInboxes
  <2> QED BY <1>1, <2>1, Zenon
<1>6. ASSUME Unheard(<<>>, <<message>>), Answer("server", <<answer>>)
      PROVE  inbox' = Inboxes(<<answer>>, <<>>)
  <2>1. inbox' = Inboxes(<<>> \o <<answer>>, Tail(<<message>>))
    BY <1>6, SaidInboxes
  <2> QED BY <1>1, <2>1, Zenon
<1>7. ASSUME Unheard(<<>>, <<message>>), Answer("server", <<>>) PROVE inbox' = Inboxes(<<>>, <<>>)
  <2>1. inbox' = Inboxes(<<>> \o <<>>, Tail(<<message>>))
    BY <1>7, SaidInboxes
  <2> QED BY <1>1, <2>1, Zenon
<1> QED BY <1>2, <1>3, <1>4, <1>5, <1>6, <1>7

\* What the parties say besides the events
LEMMA PlainMessages ==
    /\ {Plain("Config"), Plain("Error"), Plain("GameStarted"), Plain("EndorsedScore"),
        Plain("GoodBye")} \subseteq Messages
    /\ \A v \in Versions : Version(v) \in Messages
BY DEF Messages

\* At first nothing is said.
LEMMA InitConversation == Init => Contents /\ Conversation
<1> SUFFICES ASSUME Init PROVE Contents /\ Conversation
  OBVIOUS
<1>1. /\ umpire["client"] = New("Ourself") /\ umpire["server"] = New("Opponent")
      /\ inbox = Inboxes(<<>>, <<>>)
  BY DEF Init, Inboxes, Parties
<1>2. Contents
  <2>1. umpire \in [Parties -> Umpires] /\ UmpiresSound
    BY <1>1, NewTyped DEF Init, UmpiresSound, Parties, Players
  <2>2. inbox \in [Parties -> Seq(Messages)]
    BY <1>1 DEF Inboxes, Parties
  <2> QED BY <2>1, <2>2 DEF Contents
<1>3. Silence /\ Unsaid
  BY <1>1 DEF Init, Silence, Unsaid, Unheard, In, InPreGame, Parties
<1> QED BY <1>2, <1>3 DEF Conversation, BeforeTheGame

\* The answers of the PreGame dialog
LEMMA PreGameConversation == Progress /\ Contents /\ Conversation /\ PreGame => Contents' /\ Conversation'
<1> SUFFICES ASSUME Progress, Contents, Conversation, PreGame PROVE Contents' /\ Conversation'
  OBVIOUS
<1> USE DEF Progress, PhaseTypes, PartyProgress, Concluded, Parties, In, InPreGame, Enter
<1>1. CASE ServerArrives
  <2>1. Moves("server")
    BY <1>1, LibraryMoves
  <2>2. UNCHANGED <<umpire, inbox>>
    BY <1>1 DEF ServerArrives
  <2> QED BY <2>1, <2>2, MovesOn DEF Contents, UmpiresSound
<1>2. ASSUME BeforeTheGame, umpire' = umpire, version' = version,
             NEW c, NEW s, inbox' = Inboxes(c, s)
      PROVE  Unsaid' /\ Unheard(c, s)' /\ umpire' \in [Parties -> Umpires]
             /\ version \in [Parties -> Versions]
  BY <1>2 DEF BeforeTheGame, Unsaid, Unheard, Contents, Inboxes
<1>3. CASE ClientArrives
  <2>1. BeforeTheGame /\ Silence
    BY <1>3, HeardWhen DEF ClientArrives
  <2>2. inbox' = Inboxes(<<>>, <<Version(version["client"])>>)
    BY <1>3, <2>1, SaidAlone DEF ClientArrives, Silence
  <2>3. VersionTold' /\ Unsaid'
    BY <1>2, <1>3, <2>1, <2>2 DEF ClientArrives, Silence, VersionTold, Inboxes, Unheard
  <2> QED BY <1>2, <1>3, <2>1, <2>2, <2>3, UnsaidContents, PlainMessages
          DEF ClientArrives, Conversation, BeforeTheGame
<1>4. CASE ServerHearsVersion
  <2>1. PICK v \in Versions :
            /\ Hears("server", "PreGame", Version(v))
            /\ \/ /\ Answer("server", <<Version(v)>>)
                  /\ UNCHANGED <<version, dialog, phase, state, hungUp>>
               \/ Concludes("server", "Disconnect", <<Plain("Error")>>)
            /\ UNCHANGED umpire
    BY <1>4 DEF ServerHearsVersion
  <2>2. BeforeTheGame /\ VersionTold /\ Version(v) = Version(version["client"])
    BY <2>1, HeardWhen DEF Plain, Version
  <2>3. CASE /\ Answer("server", <<Version(v)>>)
             /\ UNCHANGED <<version, dialog, phase, state, hungUp>>
    <3>1. inbox' = Inboxes(<<Version(version["client"])>>, <<>>)
      BY <2>2, <2>3, SaidAlone DEF VersionTold
    <3>2. VersionAgreed'
      BY <2>1, <2>2, <2>3, <3>1 DEF VersionTold, VersionAgreed, Unheard, Inboxes, Hears
    <3> QED BY <1>2, <2>1, <2>2, <2>3, <3>1, <3>2, UnsaidContents, PlainMessages
            DEF Conversation, BeforeTheGame
  <2>4. CASE Concludes("server", "Disconnect", <<Plain("Error")>>)
    <3>1. inbox' = Inboxes(<<Plain("Error")>>, <<>>)
      BY <2>2, <2>4, SaidAlone DEF VersionTold, Concludes
    <3>2. VersionRefused'
      BY <2>1, <2>2, <2>4, <3>1 DEF VersionTold, VersionRefused, Unheard, Inboxes, Hears, Concludes
    <3> QED BY <1>2, <2>1, <2>2, <2>4, <3>1, <3>2, UnsaidContents, PlainMessages
            DEF Conversation, BeforeTheGame, Concludes
  <2> QED BY <2>1, <2>3, <2>4
<1>5. CASE ServerHearsConfig
  <2>1. BeforeTheGame /\ ConfigTold
    BY <1>5, HeardWhen DEF ServerHearsConfig, Plain, Version
  <2>2. umpire' = umpire
    BY <1>5, <2>1 DEF ServerHearsConfig, BeforeTheGame, Unsaid, Contents
  <2>3. inbox' = Inboxes(<<>>, <<>>)
    BY <1>5, <2>1, SaidAlone DEF ServerHearsConfig, Concludes, ConfigTold
  <2>4. Upgrading'
    BY <1>5, <2>1, <2>3 DEF ServerHearsConfig, Concludes, Hears, ConfigTold, Upgrading, Upgraded, Unheard, Inboxes
  <2> QED BY <1>2, <1>5, <2>1, <2>2, <2>3, <2>4, UnsaidContents
          DEF ServerHearsConfig, Concludes, Conversation, BeforeTheGame
<1>6. CASE ClientHearsVersion
  <2>1. BeforeTheGame /\ VersionAgreed
    BY <1>6, HeardWhen DEF ClientHearsVersion, Plain, Version
  <2>2. inbox' = Inboxes(<<>>, <<Plain("Config")>>)
    BY <1>6, <2>1, SaidAlone DEF ClientHearsVersion, Concludes, VersionAgreed
  <2>3. ConfigTold'
    BY <1>6, <2>1, <2>2 DEF ClientHearsVersion, Concludes, Hears, VersionAgreed, ConfigTold, Upgraded, Unheard, Inboxes
  <2> QED BY <1>2, <1>6, <2>1, <2>2, <2>3, UnsaidContents, PlainMessages
          DEF ClientHearsVersion, Concludes, Conversation, BeforeTheGame
<1>7. CASE ClientHearsError
  <2>1. BeforeTheGame /\ VersionRefused
    BY <1>7, HeardWhen DEF ClientHearsError, Plain, Version
  <2>2. inbox' = Inboxes(<<>>, <<Plain("Error")>>)
    BY <1>7, <2>1, SaidAlone DEF ClientHearsError, Concludes, VersionRefused
  <2>3. RefusalHeard'
    BY <1>7, <2>1, <2>2 DEF ClientHearsError, Concludes, Hears, VersionRefused, RefusalHeard, Unheard, Inboxes
  <2> QED BY <1>2, <1>7, <2>1, <2>2, <2>3, UnsaidContents, PlainMessages
          DEF ClientHearsError, Concludes, Conversation, BeforeTheGame
<1> QED BY <1>1, <1>3, <1>4, <1>5, <1>6, <1>7 DEF PreGame

\* What is read in vain
LEMMA InVainConversation ==
    ASSUME Progress, Contents, Conversation, NEW p \in Parties, ReadInVain(p)
    PROVE  Contents' /\ Conversation'
<1>1. /\ Answer(p, <<>>) /\ UNCHANGED <<version, dialog, phase, state, hungUp, umpire>>
      /\ lostStart' = (lostStart \/ Heard(p).kind = "GameStarted")
  BY DEF ReadInVain
<1>2. /\ BeforeTheGame
      /\ \/ p = "client" /\ Starting /\ Unheard(<<Plain("GameStarted")>>, <<>>)
         \/ p = "server" /\ RefusalHeard /\ Unheard(<<>>, <<Plain("Error")>>)
  BY HeardWhen
<1>3. inbox' = Inboxes(<<>>, <<>>)
  BY <1>1, <1>2, SaidAlone
<1>4. Unsaid' /\ umpire' \in [Parties -> Umpires]
  BY <1>1, <1>2 DEF BeforeTheGame, Unsaid, Contents
<1>5. Contents'
  BY <1>3, <1>4, UnsaidContents
<1>6. Unheard(<<>>, <<>>)'
  BY <1>3 DEF Unheard, Inboxes
<1>7. CASE p = "client" /\ Starting /\ Unheard(<<Plain("GameStarted")>>, <<>>)
  <2>1. Heard("client").kind = "GameStarted"
    BY <1>7, SaidInboxes DEF Heard, Plain
  <2>2. Starting'
    BY <1>1, <1>6, <1>7, <2>1 DEF Starting, Upgraded, Gaming, PhaseTypes, Progress
  <2> QED BY <1>4, <1>5, <2>2 DEF Conversation, BeforeTheGame
<1>8. CASE p = "server" /\ RefusalHeard
  <2>1. RefusalHeard'
    BY <1>1, <1>6, <1>8 DEF RefusalHeard, InPreGame
  <2> QED BY <1>4, <1>5, <2>1 DEF Conversation, BeforeTheGame
<1> QED BY <1>2, <1>7, <1>8

\* A player that hears the opponent's last event and answers it
LEMMA Answered ==
    ASSUME Contents, NEW p \in Parties, Turn(p), NEW messages \in Seq(Messages), Answer(p, messages)
    PROVE  /\ inbox'[p] = Tail(inbox[p]) /\ inbox'[Remote(p)] = messages
           /\ inbox' \in [Parties -> Seq(Messages)]
           /\ Remote(p) \in Parties /\ Remote(p) # p /\ Remote(Remote(p)) = p
           /\ \A q \in Parties : q = p \/ q = Remote(p)
           /\ Heard(p) = inbox[p][1] /\ IsEvent(Heard(p))
           /\ Len(inbox[p]) = 1 => Tail(inbox[p]) = <<>>
<1> DEFINE events == inbox[p]
           q == Remote(p)
<1>1. /\ events \in Seq(Messages) /\ events # <<>> /\ inbox[q] = <<>>
      /\ q \in Parties /\ q # p /\ Remote(q) = p /\ inbox \in [Parties -> Seq(Messages)]
      /\ \A i \in DOMAIN events : IsEvent(events[i])
      /\ \A r \in Parties : r = p \/ r = q
  BY DEF Contents, Turn, OnlyEvents, Remote, Parties
<1>2. inbox' = [inbox EXCEPT ![p] = Tail(@), ![q] = @ \o messages]
  BY DEF Answer
<1> HIDE DEF events, q
<1>3. inbox[p] = events
  BY DEF events
<1>4. inbox'[p] = Tail(events) /\ inbox'[q] = <<>> \o messages
  BY <1>1, <1>2, <1>3
<1>5. <<>> \o messages = messages
  OBVIOUS
<1>6. Tail(events) \in Seq(Messages) /\ Len(events) \in Nat \ {0} /\ Len(Tail(events)) = Len(events) - 1
  BY <1>1, EmptySeq, HeadTailProperties
<1>7. inbox' \in [Parties -> Seq(Messages)]
  BY <1>1, <1>2, <1>3, <1>4, <1>5, <1>6
<1>8. ASSUME Len(events) = 1 PROVE Tail(events) = <<>>
  <2> DEFINE rest == Tail(events)
  <2>1. rest \in Seq(Messages) /\ Len(rest) = 0
    BY <1>6, <1>8
  <2> HIDE DEF rest
  <2>2. rest = <<>>
    BY <2>1, EmptySeq
  <2> QED BY <2>2 DEF rest
<1>9. Head(events) = events[1] /\ 1 \in DOMAIN events
  BY <1>1, <1>6
<1> QED BY <1>1, <1>3, <1>4, <1>5, <1>7, <1>8, <1>9 DEF Heard, events, q

\* The opponent answers with a turn of its own.
LEMMA TurnPassed ==
    ASSUME Contents, NEW p \in Parties, Turn(p), Len(inbox[p]) = 1,
           NEW run, Told(Mirrored(umpire[Remote(p)]), run),
           run.events[Len(run.events)].kind = "SoftFault" => p = "client" /\ Len(run.events) = 1
                                                           /\ umpire["server"] = New("Opponent"),
           Answer(p, run.events), umpire' = [umpire EXCEPT ![p] = run.umpire]
    PROVE  Contents' /\ Turn(Remote(p))'
<1> DEFINE q == Remote(p)
           v == umpire[q]
<1>1. /\ run.umpire \in Umpires /\ Sound(run.umpire)
      /\ run.events \in Seq(Messages) /\ run.events # <<>>
      /\ \A i \in 1 .. Len(run.events) : IsEvent(run.events[i])
      /\ Tells(Mirrored(v), run.events, run.umpire)
  BY DEF Told, Messages
<1>2. /\ inbox'[p] = <<>> /\ inbox'[q] = run.events
      /\ inbox' \in [Parties -> Seq(Messages)]
      /\ q \in Parties /\ q # p /\ Remote(q) = p /\ \A r \in Parties : r = p \/ r = q
  BY <1>1, Answered
<1>3. umpire'[p] = run.umpire /\ umpire'[q] = v /\ umpire' \in [Parties -> Umpires]
  BY <1>1, <1>2 DEF Contents
<1>4. UmpiresSound'
  BY <1>1, <1>2, <1>3 DEF Contents, UmpiresSound
<1>5. Contents'
  BY <1>2, <1>3, <1>4 DEF Contents
<1> HIDE DEF v
<1>6. DOMAIN run.events = 1 .. Len(run.events) /\ Last(run.events) = run.events[Len(run.events)]
  BY <1>1 DEF Last
<1>7. OnlyEvents(q)'
  BY <1>1, <1>2, <1>6 DEF OnlyEvents
<1>8. Last(inbox'[q]).kind = "SoftFault" => q = "server" /\ umpire'[q] = New("Opponent") /\ Len(inbox'[q]) = 1
  BY <1>2, <1>3, <1>6 DEF v, Remote
<1>9. Tells(Mirrored(umpire'[q]), inbox'[q], umpire'[p])
  BY <1>1, <1>2, <1>3, Zenon
<1>10. inbox'[q] # <<>> /\ inbox'[Remote(q)] = <<>>
  BY <1>1, <1>2
<1>11. Turn(q)'
  BY <1>2, <1>7, <1>8, <1>9, <1>10, Zenon DEF Turn
<1> QED BY <1>5, <1>11

\* A party that goes on with the game
LEMMA PlaysConversation ==
    ASSUME Progress, Contents, Conversation, NEW p \in Parties, Plays(p)
    PROVE  Contents' /\ Conversation'
<1> DEFINE r == umpire[p]
           q == Remote(p)
           v == umpire[q]
           events == inbox[p]
           told == events[1]
<1>1. /\ InGame(p) /\ GoesOn(Heard(p)) /\ p \in {"client", "server"} /\ q \in Parties
      /\ q # p /\ \A s \in Parties : s = p \/ s = q
  BY DEF Plays, Parties, Remote
<1>2. InTheGame /\ Turn(p)
  BY <1>1, HeardWhen DEF GoesOn, Plain
<1>3. PICK run \in React(r, Heard(p)) :
        /\ Answer(p, run.events)
        /\ umpire' = [umpire EXCEPT ![p] = run.umpire]
        /\ UNCHANGED <<dialog, phase, state, hungUp>>
  BY DEF Plays, Reacts
<1>4. Heard(p) = told
  <2>1. <<>> \in Seq(Messages)
    OBVIOUS
  <2> QED BY <1>2 DEF Turn, Heard
<1>5. /\ r \in Umpires /\ Sound(r) /\ v \in Umpires /\ Sound(v)
      /\ events \in Seq(Messages) /\ events # <<>> /\ Tells(Mirrored(r), events, v)
      /\ inbox[q] = <<>>
  BY <1>1, <1>2 DEF Contents, UmpiresSound, Turn
<1>6. \A s \in Parties : Gaming(s)'
  BY <1>2, <1>3 DEF InTheGame, Gaming, Upgraded
<1> HIDE DEF r, q, v, events, told
<1>7. \/ /\ told.kind # "SoftFault" /\ Len(events) = 1
         /\ Told(Mirrored(v), run)
         /\ run.events[Len(run.events)].kind # "SoftFault"
      \/ /\ told.kind = "SoftFault" /\ run.events = <<>>
         /\ run.umpire \in Umpires /\ Sound(run.umpire)
         /\ Missed(Mirrored(r), 1) \in Umpires
         /\ run.umpire = Mirrored(Missed(Mirrored(r), 1))
         /\ Len(events) = 1 => v = Missed(Mirrored(r), 1)
         /\ Len(events) # 1 => Tells(Missed(Mirrored(r), 1), Tail(events), v)
  BY <1>1, <1>3, <1>4, <1>5, Reacting DEF told
<1>8. CASE told.kind # "SoftFault"
  <2>1. Contents' /\ Turn(q)'
    BY <1>2, <1>3, <1>7, <1>8, TurnPassed DEF q, v, events
  <2> QED BY <1>1, <1>6, <2>1 DEF InTheGame, Conversation
<1>9. CASE told.kind = "SoftFault"
  <2> DEFINE w == Missed(Mirrored(r), 1)
  <2>1. run.events = <<>> /\ <<>> \in Seq(Messages)
    BY <1>7, <1>9
  <2>2. /\ inbox'[p] = Tail(events) /\ inbox'[q] = <<>> /\ inbox' \in [Parties -> Seq(Messages)]
        /\ Len(events) = 1 => Tail(events) = <<>>
    <3>1. Answer(p, <<>>)
      BY <1>3, <2>1
    <3> QED BY <1>2, <2>1, <3>1, Answered, Zenon DEF q, events
  <2>3. umpire'[p] = run.umpire /\ umpire'[q] = v /\ umpire' \in [Parties -> Umpires]
    BY <1>1, <1>3, <1>7, <1>9 DEF Contents, v
  <2>4. Contents'
    BY <1>1, <1>5, <1>7, <1>9, <2>2, <2>3 DEF Contents, UmpiresSound
  <2>5. w \in Umpires /\ umpire'[p] = Mirrored(w) /\ Mirrored(umpire'[p]) = w
    BY <1>7, <1>9, <2>3, MirrorTyped
  <2> HIDE DEF w
  <2>6. CASE Len(events) = 1
    <3>1. p = "server" /\ q = "client" /\ r = New("Opponent")
      BY <1>2, <1>4, <1>9, <2>6 DEF Turn, Last, events, told, r, q, Remote
    <3>2. inbox' = Inboxes(<<>>, <<>>)
      BY <1>1, <2>2, <2>6, <3>1 DEF Inboxes, Parties
    <3>3. umpire'["client"] = Mirrored(umpire'["server"])
      BY <1>7, <1>9, <2>3, <2>5, <2>6, <3>1 DEF w
    <3>4. umpire'["server"] = [New("Opponent") EXCEPT !.state = WaitingForService(2)]
      <4>1. Mirrored(New("Opponent")) = New("Ourself")
        BY OtherPlayer DEF New, Mirrored, Players
      <4>2. w = [New("Ourself") EXCEPT !.state = WaitingForService(2)]
        BY <3>1, <4>1 DEF w, Missed, New, WaitingForService
      <4>3. w = [score |-> [s \in Players |-> 0], state |-> WaitingForService(2), turn |-> "Ourself"]
        BY <4>2 DEF New
      <4>4. Mirrored(w) = [score |-> [s \in Players |-> 0], state |-> WaitingForService(2), turn |-> "Opponent"]
        BY <4>3, OtherPlayer DEF Mirrored, Players
      <4> QED BY <2>5, <3>1, <4>4 DEF New
    <3>5. FirstServiceMissed'
      BY <3>2, <3>3, <3>4 DEF FirstServiceMissed, Unheard, Inboxes
    <3> QED BY <1>6, <2>4, <3>5 DEF InTheGame, Conversation
  <2>7. CASE Len(events) # 1
    <3>1. /\ Tail(events) # <<>> /\ Len(Tail(events)) = Len(events) - 1
          /\ \A i \in 1 .. Len(events) - 1 : Tail(events)[i] = events[i + 1]
          /\ Len(events) \in Nat \ {0, 1} /\ Tail(events) \in Seq(Messages)
      <4> DEFINE n == Len(events)
                 rest == Tail(events)
      <4>1. n \in Nat \ {0, 1}
        BY <1>5, <2>7, EmptySeq
      <4>2. Len(rest) = n - 1 /\ rest \in Seq(Messages) /\ \A i \in 1 .. n - 1 : rest[i] = events[i + 1]
        BY <1>5, HeadTailProperties
      <4> HIDE DEF n, rest
      <4>3. rest # <<>>
        BY <4>1, <4>2, EmptySeq
      <4> QED BY <4>1, <4>2, <4>3 DEF n, rest
    <3>2. OnlyEvents(p)'
      <4>1. \A i \in 1 .. Len(events) : IsEvent(events[i])
        BY <1>2, <1>5 DEF Turn, OnlyEvents, events
      <4>2. \A i \in 1 .. Len(events) - 1 : i + 1 \in 1 .. Len(events)
        BY <3>1
      <4>3. DOMAIN inbox'[p] = 1 .. Len(events) - 1
        BY <2>2, <3>1
      <4> QED BY <2>2, <3>1, <4>1, <4>2, <4>3, Zenon DEF OnlyEvents
    <3>3. Last(inbox'[p]).kind # "SoftFault"
      <4>1. Last(events).kind # "SoftFault"
        BY <1>2, <2>7 DEF Turn, events
      <4>2. Last(Tail(events)) = Last(events)
        <5> DEFINE n == Len(events)
        <5>1. n \in Nat \ {0, 1} /\ Len(Tail(events)) = n - 1 /\ \A i \in 1 .. n - 1 : Tail(events)[i] = events[i + 1]
          BY <3>1
        <5> HIDE DEF n
        <5>2. n - 1 \in 1 .. n - 1 /\ (n - 1) + 1 = n
          BY <5>1
        <5>3. Tail(events)[n - 1] = events[n]
          BY <5>1, <5>2
        <5> QED BY <5>1, <5>3 DEF Last, n
      <4> QED BY <2>2, <4>1, <4>2
    <3>4. Tells(Mirrored(umpire'[p]), inbox'[p], umpire'[q])
      BY <1>7, <1>9, <2>2, <2>3, <2>5, <2>7, Zenon DEF w
    <3>5. Turn(p)'
      BY <2>2, <3>1, <3>2, <3>3, <3>4 DEF Turn, q
    <3> QED BY <1>6, <2>4, <3>5 DEF InTheGame, Conversation
  <2> QED BY <2>6, <2>7
<1> QED BY <1>8, <1>9

\* What a party hears in its turn is an event: the first of those in flight.
LEMMA TurnHeard ==
    ASSUME Contents, NEW p \in Parties, Turn(p)
    PROVE  Heard(p) = inbox[p][1] /\ IsEvent(Heard(p))
<1> DEFINE events == inbox[p]
<1>1. /\ events \in Seq(Messages) /\ events # <<>>
      /\ \A i \in DOMAIN events : IsEvent(events[i])
  BY DEF Contents, Turn, OnlyEvents
<1> HIDE DEF events
<1>2. Len(events) \in Nat \ {0} /\ DOMAIN events = 1 .. Len(events)
  BY <1>1, EmptySeq
<1>3. Head(events) = events[1] /\ 1 \in DOMAIN events
  BY <1>1, <1>2
<1> QED BY <1>1, <1>3 DEF Heard, events

\* When the match is over, its last event is all there is to hear.
LEMMA LastTurn ==
    ASSUME Contents, NEW p \in Parties, Turn(p), Heard(p).kind = "GracefullyEnded"
    PROVE  Len(inbox[p]) = 1 /\ Finished(Remote(p))
<1>1. /\ umpire[p] \in Umpires /\ Sound(umpire[p]) /\ inbox[p] \in Seq(Messages) /\ inbox[p] # <<>>
      /\ Tells(Mirrored(umpire[p]), inbox[p], umpire[Remote(p)])
      /\ inbox[p][1].kind = "GracefullyEnded"
  BY TurnHeard DEF Contents, UmpiresSound, Turn
<1> QED BY <1>1, Hearing DEF Finished

\* The first service, and the end of the game
LEMMA GameConversation == Progress /\ Contents /\ Conversation /\ Game => Contents' /\ Conversation'
<1> SUFFICES ASSUME Progress, Contents, Conversation, Game PROVE Contents' /\ Conversation'
  OBVIOUS
<1>1. Parties = {"client", "server"}
  BY DEF Parties
<1>2. CASE ServerStartsGame
  <2>1. BeforeTheGame /\ Upgrading
    BY <1>2, HeardWhen DEF ServerStartsGame
  <2>2. inbox' = Inboxes(<<Plain("GameStarted")>>, <<>>)
    BY <1>2, <2>1, SaidAlone DEF ServerStartsGame, Upgrading
  <2>3. Unsaid' /\ umpire' \in [Parties -> Umpires]
    BY <1>2, <2>1 DEF ServerStartsGame, BeforeTheGame, Unsaid, Contents
  <2>4. Starting'
    BY <1>1, <1>2, <2>1, <2>2 DEF ServerStartsGame, In, Enter, Upgrading, Starting, Upgraded, Gaming, InPreGame,
        Unheard, Inboxes, Progress, PhaseTypes, Concluded
  <2> QED BY <2>2, <2>3, <2>4, UnsaidContents, PlainMessages DEF Conversation, BeforeTheGame
<1>3. CASE ClientStartsGame
  <2>1. /\ inbox' = inbox /\ UNCHANGED <<version, dialog, state, hungUp, lostStart>>
        /\ umpire' = [umpire EXCEPT !["client"] = New("Ourself")]
        /\ dialog["client"] = "Game" /\ phase["client"] = "arriving"
        /\ phase' = [phase EXCEPT !["client"] = "talking"]
    BY <1>3 DEF ClientStartsGame, In, Enter
  <2>2. Contents'
    <3>1. New("Ourself") \in Umpires /\ Sound(New("Ourself"))
      BY NewTyped DEF Players
    <3>2. umpire' \in [Parties -> Umpires] /\ umpire'["client"] = New("Ourself") /\ umpire'["server"] = umpire["server"]
      BY <1>1, <2>1, <3>1 DEF Contents
    <3> QED BY <1>1, <2>1, <3>1, <3>2 DEF Contents, UmpiresSound
  <2>3. \A c, s : Unheard(c, s)' = Unheard(c, s)
    BY <2>1 DEF Unheard, Inboxes
  <2>4. CASE BeforeTheGame /\ (ConfigTold \/ Upgrading \/ Starting)
    <3>1. Unsaid'
      <4>1. umpire' = umpire
        BY <1>1, <2>1, <2>4 DEF BeforeTheGame, Unsaid, Contents
      <4> QED BY <2>4, <4>1 DEF BeforeTheGame, Unsaid
    <3>2. ConfigTold' \/ Upgrading' \/ Starting'
      BY <1>1, <2>1, <2>3, <2>4 DEF ConfigTold, Upgrading, Starting, Upgraded, Gaming, InPreGame, In,
          Progress, PhaseTypes, Concluded
    <3> QED BY <2>2, <3>1, <3>2 DEF Conversation, BeforeTheGame
  <2>5. CASE AfterTheGame /\ Unheard(<<>>, <<>>)
    <3>1. AfterTheGame'
      BY <1>1, <2>1, <2>3, <2>5 DEF AfterTheGame, Progress, PhaseTypes, Concluded
    <3> QED BY <2>2, <3>1 DEF Conversation
  <2> QED BY <1>3, <2>4, <2>5, HeardWhen DEF ClientStartsGame
<1>4. CASE \E p \in Parties : Plays(p)
  BY <1>4, PlaysConversation
<1>5. CASE ClientHearsGameStarted
  <2>1. BeforeTheGame /\ Starting /\ Unheard(<<Plain("GameStarted")>>, <<>>)
    <3>1. BeforeTheGame /\ Starting
      BY <1>1, <1>5, HeardWhen, TurnHeard DEF ClientHearsGameStarted, Plain, IsEvent
    <3>2. inbox["client"] # <<>>
      BY <1>5 DEF ClientHearsGameStarted, InGame
    <3> QED BY <3>1, <3>2, SaidInboxes DEF Starting
  <2>2. PICK run \in Act(umpire["client"]) :
            /\ Answer("client", run.events)
            /\ umpire' = [umpire EXCEPT !["client"] = run.umpire]
            /\ UNCHANGED <<dialog, phase, state, hungUp>>
    BY <1>5 DEF ClientHearsGameStarted, Reacts
  <2>3. umpire["client"] = New("Ourself") /\ umpire["server"] = New("Opponent")
    BY <1>1, <2>1 DEF BeforeTheGame, Unsaid
  <2>4. /\ New("Ourself") \in Umpires /\ New("Ourself").turn = "Ourself" /\ Sound(New("Ourself"))
        /\ New("Ourself").state # GameOver
        /\ New("Opponent") \in Umpires /\ Sound(New("Opponent"))
    BY NewTyped DEF Players
  <2>5. /\ Told(New("Ourself"), run) /\ Len(run.events) = 1
    BY <2>2, <2>3, <2>4, ActTold
  <2>6. /\ run.umpire \in Umpires /\ Sound(run.umpire)
        /\ run.events \in Seq(Messages) /\ run.events # <<>>
        /\ \A i \in 1 .. Len(run.events) : IsEvent(run.events[i])
        /\ Tells(New("Ourself"), run.events, run.umpire)
    BY <2>5 DEF Told, Messages
  <2>7. inbox' = Inboxes(<<>>, run.events)
    <3>1. inbox' = Inboxes(Tail(<<Plain("GameStarted")>>), <<>> \o run.events)
      BY <2>1, <2>2, SaidInboxes
    <3>2. Tail(<<Plain("GameStarted")>>) = <<>> /\ <<>> \o run.events = run.events
      BY <2>6
    <3> QED BY <3>1, <3>2, Zenon
  <2>8. inbox'["client"] = <<>> /\ inbox'["server"] = run.events /\ inbox' \in [Parties -> Seq(Messages)]
    BY <1>1, <2>6, <2>7 DEF Inboxes
  <2>9. umpire'["client"] = run.umpire /\ umpire'["server"] = New("Opponent") /\ umpire' \in [Parties -> Umpires]
    BY <1>1, <2>2, <2>3, <2>6 DEF Contents
  <2>10. Contents'
    BY <1>1, <2>4, <2>6, <2>8, <2>9 DEF Contents, UmpiresSound
  <2>11. Turn("server")'
    <3>1. Mirrored(New("Opponent")) = New("Ourself")
      BY OtherPlayer DEF New, Mirrored, Players
    <3>2. OnlyEvents("server")'
      BY <2>6, <2>8 DEF OnlyEvents
    <3>3. Tells(Mirrored(umpire'["server"]), inbox'["server"], umpire'["client"])
      BY <2>6, <2>8, <2>9, <3>1, Zenon
    <3>4. inbox'["server"] # <<>> /\ inbox'["client"] = <<>> /\ Len(inbox'["server"]) = 1
      BY <2>5, <2>6, <2>8
    <3>5. Remote("server") = "client"
      BY DEF Remote
    <3> QED BY <2>9, <3>2, <3>3, <3>4, <3>5, Zenon DEF Turn
  <2>12. \A p \in Parties : Gaming(p)'
    BY <1>1, <1>5, <2>1, <2>2 DEF ClientHearsGameStarted, InGame, In, Starting, Gaming, Upgraded, Concluded
  <2> QED BY <1>1, <2>10, <2>11, <2>12 DEF InTheGame, Conversation
<1>6. CASE ClientHearsGameOver
  <2>1. /\ InGame("client") /\ Heard("client").kind = "GracefullyEnded"
        /\ Answer("client", <<Plain("EndorsedScore")>>)
        /\ umpire' = [umpire EXCEPT !["client"] = umpire["client"]]
        /\ UNCHANGED <<dialog, phase, state, hungUp>>
    <3>1. PICK r \in {Reaction(umpire["client"], <<Plain("EndorsedScore")>>)} :
              /\ Answer("client", r.events)
              /\ umpire' = [umpire EXCEPT !["client"] = r.umpire]
              /\ UNCHANGED <<version, dialog, phase, state, hungUp, session, severed, lostStart>>
      BY <1>6 DEF ClientHearsGameOver, Reacts
    <3>2. r.events = <<Plain("EndorsedScore")>> /\ r.umpire = umpire["client"]
      BY <3>1 DEF Reaction
    <3>3. Answer("client", <<Plain("EndorsedScore")>>)
      BY <3>1, <3>2, Zenon
    <3> QED BY <1>6, <3>1, <3>2, <3>3, Zenon DEF ClientHearsGameOver
  <2>2. InTheGame /\ Turn("client")
    BY <2>1, HeardWhen DEF Plain
  <2>3. /\ Len(inbox["client"]) = 1 /\ Finished("server")
        /\ <<Plain("EndorsedScore")>> \in Seq(Messages)
    BY <1>1, <2>1, <2>2, LastTurn, PlainMessages DEF Remote
  <2>4. /\ inbox'["client"] = <<>> /\ inbox'["server"] = <<Plain("EndorsedScore")>>
        /\ inbox' \in [Parties -> Seq(Messages)]
    BY <1>1, <2>1, <2>2, <2>3, Answered DEF Remote
  <2>5. umpire' = umpire
    BY <2>1 DEF Contents
  <2>6. Contents'
    BY <2>4, <2>5 DEF Contents, UmpiresSound
  <2>7. ScoreEndorsed'
    <3>1. inbox' = Inboxes(<<>>, <<Plain("EndorsedScore")>>)
      BY <1>1, <2>4 DEF Inboxes
    <3> QED BY <2>3, <2>5, <3>1 DEF ScoreEndorsed, Finished, Unheard, Inboxes
  <2>8. \A p \in Parties : Gaming(p)'
    BY <2>1, <2>2 DEF InTheGame, Gaming, Upgraded
  <2> QED BY <2>6, <2>7, <2>8 DEF InTheGame, Conversation
<1>7. CASE ClientHearsGoodBye
  <2>1. AfterTheGame /\ Unheard(<<Plain("GoodBye")>>, <<>>)
    BY <1>1, <1>7, HeardWhen, TurnHeard DEF ClientHearsGoodBye, Plain, IsEvent
  <2>2. inbox' = Inboxes(<<>>, <<>>)
    BY <1>7, <2>1, SaidAlone DEF ClientHearsGoodBye, Concludes
  <2>3. Contents'
    <3>1. inbox' \in [Parties -> Seq(Messages)]
      BY <2>2 DEF Inboxes
    <3> QED BY <1>7, <3>1 DEF ClientHearsGoodBye, Contents, UmpiresSound
  <2>4. AfterTheGame'
    BY <1>1, <1>7, <2>1, <2>2 DEF ClientHearsGoodBye, Concludes, Enter, InGame, In, AfterTheGame, Unheard, Inboxes,
        Progress, PhaseTypes
  <2> QED BY <2>3, <2>4 DEF Conversation
<1>8. CASE ServerSaysGoodBye
  <2>1. /\ InTheGame /\ Concludes("server", state["server"], <<Plain("GoodBye")>>) /\ umpire' = umpire
        /\ \/ Turn("server") /\ Heard("server").kind = "GracefullyEnded"
           \/ ScoreEndorsed
    BY <1>1, <1>8, HeardWhen, TurnHeard DEF ServerSaysGoodBye, Plain, IsEvent
  <2>2. inbox' = Inboxes(<<Plain("GoodBye")>>, <<>>)
    <3>1. CASE Turn("server") /\ Heard("server").kind = "GracefullyEnded"
      <4>1. Len(inbox["server"]) = 1 /\ <<Plain("GoodBye")>> \in Seq(Messages)
        BY <1>1, <3>1, LastTurn, PlainMessages
      <4>2. /\ inbox'["server"] = <<>> /\ inbox'["client"] = <<Plain("GoodBye")>>
            /\ inbox' \in [Parties -> Seq(Messages)]
        BY <1>1, <2>1, <3>1, <4>1, Answered DEF Concludes, Remote
      <4> QED BY <1>1, <4>2 DEF Inboxes
    <3>2. CASE ScoreEndorsed
      BY <2>1, <3>2, SaidAlone DEF ScoreEndorsed, Concludes
    <3> QED BY <2>1, <3>1, <3>2
  <2>3. Contents'
    <3>1. inbox' \in [Parties -> Seq(Messages)]
      <4>1. <<Plain("GoodBye")>> \in Seq(Messages) /\ <<>> \in Seq(Messages)
        BY PlainMessages
      <4> QED BY <2>2, <4>1 DEF Inboxes
    <3> QED BY <2>1, <3>1 DEF Contents, UmpiresSound
  <2>4. AfterTheGame'
    BY <1>1, <2>1, <2>2 DEF Concludes, Enter, InTheGame, Gaming, Upgraded, AfterTheGame, Unheard, Inboxes,
        Progress, PhaseTypes, Concluded
  <2> QED BY <2>3, <2>4 DEF Conversation
<1> QED BY <1>2, <1>3, <1>4, <1>5, <1>6, <1>7, <1>8 DEF Game

-----------------------------------------------------------------------------
(* The inductive invariant *)

\* The parts of the inductive invariant that are proved one by one
LEMMA IInvParts == IInv <=> Progress /\ Contents /\ Conversation
BY DEF IInv, Progress, PhaseTypes, Contents, TypeOK

\* Every step follows the conversation.
LEMMA ConversationNext == Progress /\ Contents /\ Conversation /\ [Next]_vars => Contents' /\ Conversation'
<1> SUFFICES ASSUME Progress, Contents, Conversation, [Next]_vars PROVE Contents' /\ Conversation'
  OBVIOUS
<1>1. ASSUME NEW p \in Parties, Moves(p) PROVE Contents' /\ Conversation'
  BY <1>1, MovesOn DEF Moves, Contents, UmpiresSound
<1>2. CASE \E p \in Parties : Library(p)
  <2>1. PICK p \in Parties : Library(p)
    BY <1>2
  <2>2. CASE ReadInVain(p)
    BY <2>2, InVainConversation
  <2>3. CASE PeerLeft(p) \/ DialogEnds(p) \/ HangUp(p)
    BY <1>1, <2>3, LibraryMoves
  <2> QED BY <2>1, <2>2, <2>3 DEF Library
<1>3. CASE DialogEndsEarly
  <2>1. "client" \in Parties
    BY DEF Parties
  <2> QED BY <1>1, <1>3, <2>1, LibraryMoves
<1>4. CASE Sever \/ UNCHANGED vars
  <2>1. /\ UNCHANGED <<inbox, umpire, version, lostStart>>
        /\ UNCHANGED <<dialog, phase, state, hungUp>>
    BY <1>4 DEF Sever, vars
  <2>2. /\ \A c, s : Unheard(c, s)' = Unheard(c, s)
        /\ Unsaid' = Unsaid
        /\ \A q \in Parties : Turn(q)' = Turn(q)
        /\ FirstServiceMissed' = FirstServiceMissed
        /\ ScoreEndorsed' = ScoreEndorsed
    BY <2>1, UnheardKept
  <2>3. BeforeTheGame => BeforeTheGame'
    BY <2>1, <2>2 DEF BeforeTheGame, Silence, VersionTold, VersionAgreed, VersionRefused, RefusalHeard,
        ConfigTold, Upgrading, Starting, Upgraded, Gaming, In, InPreGame
  <2>4. InTheGame => InTheGame'
    BY <2>1, <2>2 DEF InTheGame, Gaming, Upgraded
  <2>5. AfterTheGame => AfterTheGame'
    BY <2>1, <2>2 DEF AfterTheGame, Gaming, Upgraded
  <2> QED BY <2>1, <2>3, <2>4, <2>5 DEF Conversation, Contents, UmpiresSound
<1> QED BY <1>2, <1>3, <1>4, PreGameConversation, GameConversation DEF Next, Over

\* The conversation follows its stages, each player tells what its umpire saw, and
\* the parties' progress and the session go with it.
THEOREM ConversationHolds == Spec => []IInv
<1>1. Init => IInv
  BY ProgressInit, InitConversation, IInvParts
<1>2. IInv /\ [Next]_vars => IInv'
  <2>1. IInv /\ [Next]_vars => Progress' /\ Contents' /\ Conversation'
    BY ProgressNext, ConversationNext, IInvParts
  <2>2. Progress' /\ Contents' /\ Conversation' => IInv'
    BY DEF IInv, Progress, PhaseTypes, Contents, TypeOK
  <2> QED BY <2>1, <2>2
<1> QED BY <1>1, <1>2, PTL DEF Spec

\* The variables keep their types: the scores stay below the limit until the match is
\* over, and the third attempt is the last.
THEOREM PingPongTyped == Spec => []TypeOK
<1>1. IInv => TypeOK
  BY DEF IInv
<1> QED BY <1>1, ConversationHolds, PTL

-----------------------------------------------------------------------------
(* What follows from it *)

\* What may be in flight: a turn, or a message of the dialogs with nothing else to hear
LEMMA InFlight ==
    ASSUME IInv
    PROVE  \/ \E p \in Parties : Turn(p)
           \/ Unheard(<<>>, <<>>)
           \/ \E message : /\ ~IsEvent(message) /\ message.kind \notin {"GameCancelled", "Panic"}
                           /\ Unheard(<<message>>, <<>>) \/ Unheard(<<>>, <<message>>)
<1>1. /\ \A v : ~IsEvent(Version(v)) /\ Version(v).kind \notin {"GameCancelled", "Panic"}
      /\ \A kind \in {"Config", "Error", "GameStarted", "EndorsedScore", "GoodBye"} :
            ~IsEvent(Plain(kind)) /\ Plain(kind).kind \notin {"GameCancelled", "Panic"}
  BY DEF IsEvent, Version, Plain
<1>2. Conversation
  BY DEF IInv
<1>3. CASE BeforeTheGame
  <2>1. \/ Unheard(<<>>, <<>>)
        \/ Unheard(<<>>, <<Version(version["client"])>>) \/ Unheard(<<Version(version["client"])>>, <<>>)
        \/ Unheard(<<Plain("Error")>>, <<>>) \/ Unheard(<<>>, <<Plain("Error")>>)
        \/ Unheard(<<>>, <<Plain("Config")>>) \/ Unheard(<<Plain("GameStarted")>>, <<>>)
    BY <1>3 DEF BeforeTheGame, Silence, VersionTold, VersionAgreed, VersionRefused, RefusalHeard, ConfigTold,
        Upgrading, Starting
  <2> QED BY <1>1, <2>1
<1>4. CASE InTheGame
  BY <1>1, <1>4 DEF InTheGame, FirstServiceMissed, ScoreEndorsed
<1>5. CASE AfterTheGame
  BY <1>1, <1>5 DEF AfterTheGame
<1> QED BY <1>2, <1>3, <1>4, <1>5 DEF Conversation

\* What may be in flight leaves no complaint, and no event against another.
LEMMA NothingElse ==
    ASSUME IInv
    PROVE  FairPlay /\ TurnsAlternate
<1>1. Parties = {"client", "server"}
  BY DEF Parties
<1>2. CASE \E p \in Parties : Turn(p)
  <2>1. PICK p \in Parties : Turn(p)
    BY <1>2
  <2>2. inbox[Remote(p)] = <<>> /\ Remote(p) \in Parties /\ \A q \in Parties : q = p \/ q = Remote(p)
    BY <1>1, <2>1 DEF Turn, Remote
  <2>3. \A i \in DOMAIN inbox[p] : IsEvent(inbox[p][i])
    BY <2>1 DEF Turn, OnlyEvents
  <2>4. DOMAIN inbox[Remote(p)] = {}
    BY <2>2
  <2>5. FairPlay
    BY <2>2, <2>3, <2>4 DEF FairPlay, IsEvent
  <2>6. TurnsAlternate
    BY <2>2, <2>3, <2>4 DEF TurnsAlternate, NoEvent, OnlyEvents
  <2> QED BY <2>5, <2>6
<1>3. ASSUME NEW c, NEW s, Unheard(c, s), NEW message,
             ~IsEvent(message), message.kind \notin {"GameCancelled", "Panic"},
             <<c, s>> \in {<< <<>>, <<>> >>, << <<message>>, <<>> >>, << <<>>, <<message>> >>}
      PROVE  FairPlay /\ TurnsAlternate
  <2>1. inbox["client"] = c /\ inbox["server"] = s
    BY <1>3, SaidInboxes
  <2>2. \A p \in Parties : inbox[p] = <<>> \/ inbox[p] = <<message>>
    BY <1>1, <1>3, <2>1
  <2>3. \A p \in Parties : \A i \in DOMAIN inbox[p] : inbox[p][i] = message
    BY <2>2
  <2>4. \A p \in Parties : NoEvent(p)
    BY <1>3, <2>3 DEF NoEvent
  <2> QED BY <1>1, <1>3, <2>3, <2>4 DEF FairPlay, TurnsAlternate
<1>4. ~IsEvent(Plain("Config")) /\ Plain("Config").kind \notin {"GameCancelled", "Panic"}
  BY DEF IsEvent, Plain
<1> QED BY <1>2, <1>3, <1>4, InFlight

\* No umpire has a rule to complain about, and none is asked to go on with a game that is over.
THEOREM GameIsFair == Spec => []FairPlay
BY NothingElse, ConversationHolds, PTL

\* A player only acts in its turn: events are not in flight in both directions, and
\* nothing else is said among them.
THEOREM PlayersTakeTurns == Spec => []TurnsAlternate
BY NothingElse, ConversationHolds, PTL

\* Both parties wait for each other in two cases only: the first service was a soft
\* fault, and GameStarted was read by the dialog that was ending.
THEOREM StallsAreTheTwo == Spec => []OnlyFirstServiceStalls
<1>1. IInv => OnlyFirstServiceStalls
  <2> SUFFICES ASSUME IInv, \A p \in Parties : phase[p] = "talking" /\ ~hungUp[p] /\ inbox[p] = <<>>
               PROVE  FirstServiceLost \/ lostStart
    BY DEF OnlyFirstServiceStalls
  <2>1. /\ inbox["client"] = <<>> /\ inbox["server"] = <<>>
        /\ phase["client"] = "talking" /\ phase["server"] = "talking"
        /\ state["client"] = dialog["client"] /\ state["server"] = dialog["server"]
        /\ Parties = {"client", "server"}
    BY DEF Parties, IInv, PartyProgress
  <2>2. ASSUME NEW c, NEW s, Unheard(c, s) PROVE c = <<>> /\ s = <<>>
    BY <2>1, <2>2, SaidInboxes
  <2>3. \A message : ~Unheard(<<message>>, <<>>) /\ ~Unheard(<<>>, <<message>>)
    <3>1. \A message : <<message>> # <<>>
      OBVIOUS
    <3> QED BY <2>2, <3>1
  <2>4. CASE BeforeTheGame
    BY <2>1, <2>3, <2>4 DEF BeforeTheGame, Silence, VersionTold, VersionAgreed, VersionRefused, RefusalHeard,
        ConfigTold, Upgrading, Starting, In, InPreGame
  <2>5. CASE InTheGame
    <3>1. FirstServiceMissed
      BY <2>1, <2>3, <2>5 DEF InTheGame, Turn, ScoreEndorsed
    <3>2. Playing
      BY <2>1, <2>5 DEF InTheGame, Gaming, Playing, In
    <3> QED BY <3>1, <3>2 DEF FirstServiceMissed, FirstServiceLost
  <2>6. CASE AfterTheGame
    BY <2>1, <2>6 DEF AfterTheGame, Concluded
  <2> QED BY <2>4, <2>5, <2>6 DEF IInv, Conversation
<1> QED BY <1>1, ConversationHolds, PTL

\* No service is told in more than the attempts there are.
LEMMA ServiceLength ==
    ASSUME NEW u \in Umpires, Sound(u), NEW v, NEW events \in Seq(Messages), events # <<>>,
           Tells(u, events, v)
    PROVE  /\ Len(events) \in 1 .. 3
           /\ Len(events) > 1 => u.state # Rally /\ u.state.attempt + (Len(events) - 1) <= 3
<1> DEFINE n == Len(events)
<1>1. n \in Nat \ {0}
  BY EmptySeq
<1>2. /\ u.turn = "Ourself" /\ u.state # GameOver
      /\ \A i \in 1 .. n : events[i].luck \in Luck
      /\ \A i \in 1 .. n - 1 :
            /\ events[i].kind = "SoftFault"
            /\ ProcessTurn(Missed(u, i - 1), "Ourself", events[i].luck) = Outcome(Missed(u, i), events[i])
  BY DEF Tells
<1> HIDE DEF n
<1>3. ASSUME NEW i \in 1 .. n - 1, NEW w \in Umpires, w = Missed(u, i - 1),
             w.turn = "Ourself", Sound(w), w.state # GameOver
      PROVE  w.state # Rally /\ w.state.attempt < 3
  <2>1. /\ ProcessTurn(w, "Ourself", events[i].luck).event.kind = "SoftFault" /\ events[i].luck \in Luck
    <3>1. i \in 1 .. n
      BY <1>1
    <3>2. ProcessTurn(w, "Ourself", events[i].luck) = Outcome(Missed(u, i), events[i])
      BY <1>2, <1>3
    <3>3. ProcessTurn(w, "Ourself", events[i].luck).event = events[i]
      BY <3>2 DEF Outcome
    <3> QED BY <1>2, <3>1, <3>3
  <2> QED BY <1>3, <2>1, OurTurn
<1>4. Missed(u, 0) = u
  BY DEF Missed
<1>5. ASSUME n > 1 PROVE u.state # Rally /\ u.state.attempt \in 1 .. 2
  <2>1. 1 \in 1 .. n - 1 /\ 1 - 1 = 0
    BY <1>1, <1>5
  <2>2. u.state # Rally /\ u.state.attempt < 3
    BY <1>2, <1>3, <1>4, <2>1
  <2> QED BY <1>2, <2>2, StateKinds
<1>6. ASSUME n > 2 PROVE u.state.attempt = 1
  <2>1. 2 \in 1 .. n - 1 /\ 2 - 1 = 1 /\ n > 1
    BY <1>1, <1>6
  <2>2. /\ Missed(u, 1) \in Umpires /\ Missed(u, 1).turn = "Ourself" /\ Sound(Missed(u, 1))
        /\ Missed(u, 1).state # GameOver /\ Missed(u, 1).state.attempt = u.state.attempt + 1
    BY <1>2, <1>5, <2>1, MissedTyped
  <2>3. Missed(u, 1).state.attempt < 3
    BY <1>3, <2>1, <2>2
  <2> QED BY <1>5, <2>1, <2>2, <2>3
<1>7. ~(n > 3)
  <2> SUFFICES ASSUME n > 3 PROVE FALSE
    OBVIOUS
  <2>1. 3 \in 1 .. n - 1 /\ 3 - 1 = 2 /\ n > 2 /\ n > 1
    BY <1>1
  <2>2. /\ Missed(u, 2) \in Umpires /\ Missed(u, 2).turn = "Ourself" /\ Sound(Missed(u, 2))
        /\ Missed(u, 2).state # GameOver /\ Missed(u, 2).state.attempt = u.state.attempt + 2
    BY <1>2, <1>5, <1>6, <2>1, MissedTyped
  <2>3. Missed(u, 2).state.attempt < 3
    BY <1>3, <2>1, <2>2
  <2> QED BY <1>6, <2>1, <2>2, <2>3
<1>8. n \in 1 .. 3
  BY <1>1, <1>7
<1>9. n > 1 => u.state # Rally /\ u.state.attempt + (n - 1) <= 3
  BY <1>5, <1>6, <1>8
<1> QED BY <1>8, <1>9 DEF n

\* The umpire that plays the opponent's turn again gets to where the opponent's got.
LEMMA Replaying ==
    ASSUME NEW r \in Umpires, Sound(r), NEW v, NEW events \in Seq(Messages), events # <<>>,
           Tells(Mirrored(r), events, v)
    PROVE  Replayed(r, events) = Mirrored(v)
<1> DEFINE u == Mirrored(r)
           n == Len(events)
           g == [k \in 0 .. n |-> IF k = n THEN Mirrored(v) ELSE Mirrored(Missed(u, k))]
           after == CHOOSE f : f = [k \in 0 .. n |-> IF k = 0 THEN r
                                                     ELSE ProcessTurn(f[k - 1], "Opponent", events[k].luck).umpire]
<1>1. /\ u \in Umpires /\ Sound(u) /\ Mirrored(u) = r
      /\ n \in 1 .. 3 /\ (n > 1 => u.state # Rally /\ u.state.attempt + (n - 1) <= 3)
  BY MirrorTyped, ServiceLength
<1>2. /\ u.turn = "Ourself" /\ u.state # GameOver
      /\ \A i \in 1 .. n : events[i].luck \in Luck
      /\ \A i \in 1 .. n - 1 :
            ProcessTurn(Missed(u, i - 1), "Ourself", events[i].luck) = Outcome(Missed(u, i), events[i])
      /\ ProcessTurn(Missed(u, n - 1), "Ourself", events[n].luck) = Outcome(v, events[n])
  BY DEF Tells
<1>3. Replayed(r, events) = after[n]
  BY DEF Replayed
<1> HIDE DEF u, n
<1>4. ASSUME NEW i \in 1 .. n
      PROVE  g[i] = ProcessTurn(g[i - 1], "Opponent", events[i].luck).umpire
  <2> DEFINE w == Missed(u, i - 1)
             next == IF i = n THEN v ELSE Missed(u, i)
  <2>1. w \in Umpires /\ w.turn = "Ourself" /\ Sound(w) /\ w.state # GameOver
    <3>1. CASE i = 1
      <4>1. w = u
        BY <3>1 DEF Missed
      <4> QED BY <1>1, <1>2, <4>1
    <3>2. CASE i # 1
      <4>1. i - 1 \in Nat /\ n > 1 /\ i - 1 <= n - 1
        BY <1>1, <3>2
      <4>2. u.state # Rally /\ u.state.attempt \in Nat /\ u.state.attempt + (n - 1) <= 3
        <5>1. u.state # Rally /\ u.state.attempt + (n - 1) <= 3
          BY <1>1, <4>1
        <5>2. u.state.attempt \in 1 .. 3
          BY <1>1, <1>2, <5>1, StateKinds
        <5> QED BY <5>1, <5>2
      <4>3. u.state.attempt + (i - 1) <= 3
        BY <1>1, <4>1, <4>2
      <4> QED BY <1>1, <1>2, <4>1, <4>2, <4>3, MissedTyped
    <3> QED BY <3>1, <3>2
  <2>2. ProcessTurn(w, "Ourself", events[i].luck) = Outcome(next, events[i]) /\ events[i].luck \in Luck
    <3>1. CASE i = n
      BY <1>2, <3>1
    <3>2. CASE i # n
      <4>1. i \in 1 .. n - 1
        BY <1>1, <3>2
      <4> QED BY <1>2, <3>2, <4>1
    <3> QED BY <3>1, <3>2
  <2> HIDE DEF w, next
  <2>3. ProcessTurn(Mirrored(w), "Opponent", events[i].luck).umpire = Mirrored(next)
    <3>1. ProcessTurn(w, "Ourself", events[i].luck).umpire = next
      BY <2>2 DEF Outcome
    <3> QED BY <2>1, <2>2, <3>1, OurTurn
  <2>4. g[i - 1] = Mirrored(w) /\ g[i] = Mirrored(next)
    <3>1. i - 1 \in 0 .. n /\ i - 1 # n /\ i \in 0 .. n
      BY <1>1
    <3> QED BY <3>1 DEF w, next
  <2> QED BY <2>3, <2>4
<1>5. g[0] = r /\ g[n] = Mirrored(v)
  <2>1. 0 \in 0 .. n /\ 0 # n /\ n \in 0 .. n /\ Missed(u, 0) = u
    BY <1>1 DEF Missed
  <2> QED BY <1>1, <2>1
<1>6. g = [k \in 0 .. n |-> IF k = 0 THEN r ELSE ProcessTurn(g[k - 1], "Opponent", events[k].luck).umpire]
  <2>1. DOMAIN g = 0 .. n /\ g = [k \in 0 .. n |-> g[k]]
    OBVIOUS
  <2> HIDE DEF g
  <2>2. ASSUME NEW k \in 0 .. n
        PROVE  g[k] = IF k = 0 THEN r ELSE ProcessTurn(g[k - 1], "Opponent", events[k].luck).umpire
    <3>1. CASE k = 0
      BY <1>5, <3>1
    <3>2. CASE k # 0
      <4>1. k \in 1 .. n
        BY <1>1, <3>2
      <4> QED BY <1>4, <3>2, <4>1
    <3> QED BY <3>1, <3>2
  <2> QED BY <2>1, <2>2
<1> HIDE DEF g
<1>7. after = [k \in 0 .. n |-> IF k = 0 THEN r ELSE ProcessTurn(after[k - 1], "Opponent", events[k].luck).umpire]
  BY <1>6
<1> HIDE DEF after
<1>8. /\ after[0] = r
      /\ \A k \in 1 .. n : after[k] = ProcessTurn(after[k - 1], "Opponent", events[k].luck).umpire
  <2>1. 0 \in 0 .. n /\ \A k \in 1 .. n : k \in 0 .. n /\ k # 0
    BY <1>1
  <2> QED BY <1>7, <2>1
<1>9. after[1] = g[1] /\ 1 \in 1 .. n
  <2>1. 1 \in 1 .. n /\ 1 - 1 = 0
    BY <1>1
  <2> QED BY <1>4, <1>5, <1>8, <2>1
<1>10. n > 1 => after[2] = g[2]
  <2>1. n > 1 => 2 \in 1 .. n /\ 2 - 1 = 1
    BY <1>1
  <2> QED BY <1>4, <1>8, <1>9, <2>1
<1>11. n > 2 => after[3] = g[3]
  <2>1. n > 2 => 3 \in 1 .. n /\ 3 - 1 = 2 /\ n > 1
    BY <1>1
  <2> QED BY <1>4, <1>8, <1>10, <2>1
<1>12. after[n] = g[n]
  <2>1. n = 1 \/ (n = 2 /\ n > 1) \/ (n = 3 /\ n > 2)
    BY <1>1
  <2> QED BY <1>9, <1>10, <1>11, <2>1
<1> QED BY <1>3, <1>5, <1>12

\* With nothing in flight the umpire stays as it is.
LEMMA NothingReplayed == \A r : Replayed(r, <<>>) = r
<1> TAKE r
<1> DEFINE after == CHOOSE f : f = [k \in 0 .. 0 |-> IF k = 0 THEN r
                                    ELSE ProcessTurn(f[k - 1], "Opponent", <<>>[k].luck).umpire]
           g == [k \in 0 .. 0 |-> r]
<1>1. Replayed(r, <<>>) = after[0]
  BY DEF Replayed
<1>2. g = [k \in 0 .. 0 |-> IF k = 0 THEN r ELSE ProcessTurn(g[k - 1], "Opponent", <<>>[k].luck).umpire]
  OBVIOUS
<1> HIDE DEF g
<1>3. after = [k \in 0 .. 0 |-> IF k = 0 THEN r ELSE ProcessTurn(after[k - 1], "Opponent", <<>>[k].luck).umpire]
  BY <1>2
<1> HIDE DEF after
<1>4. after[0] = r
  BY <1>3
<1> QED BY <1>1, <1>4

\* Both umpires know the same match: the one that plays again the events in flight gets
\* to the score, state and turn of the one that told them -- the final score the client
\* endorses without looking at it included.
THEOREM UmpiresKnowTheMatch == Spec => []UmpiresAgree
<1>1. IInv => UmpiresAgree
  <2> SUFFICES ASSUME IInv, NEW p \in Parties, Playing, Events(Remote(p)) = <<>>,
                      ~Finished(p), Finished(Remote(p)) => Events(p) # <<>>
               PROVE  Replayed(umpire[p], Events(p)) = Mirrored(umpire[Remote(p)])
    BY DEF UmpiresAgree
  <2> DEFINE q == Remote(p)
  <2>1. /\ Parties = {"client", "server"} /\ q \in Parties /\ q # p
        /\ \A s \in Parties : s = p \/ s = q
        /\ \A s \in Parties : umpire[s] \in Umpires /\ Sound(umpire[s]) /\ inbox[s] \in Seq(Messages)
    BY DEF IInv, TypeOK, UmpiresSound, Parties, Remote
  <2>2. ASSUME NEW c, NEW s, Unheard(c, s), NEW message, ~IsEvent(message),
               <<c, s>> \in {<< <<>>, <<>> >>, << <<message>>, <<>> >>, << <<>>, <<message>> >>}
        PROVE  Events(p) = <<>>
    <3>1. inbox["client"] = c /\ inbox["server"] = s
      BY <2>2, SaidInboxes
    <3>2. inbox[p] = <<>> \/ inbox[p] = <<message>>
      BY <2>1, <2>2, <3>1
    <3>3. NoEvent(p)
      BY <2>2, <3>2 DEF NoEvent
    <3> QED BY <3>3 DEF Events
  <2>3. ~IsEvent(Plain("GameStarted")) /\ ~IsEvent(Plain("EndorsedScore"))
    BY DEF IsEvent, Plain
  <2>4. CASE BeforeTheGame
    <3>1. Starting
      BY <2>4 DEF Playing, In, Parties, BeforeTheGame, Silence, VersionTold, VersionAgreed, VersionRefused,
          RefusalHeard, ConfigTold, Upgrading, Starting, InPreGame
    <3>2. Events(p) = <<>>
      BY <2>2, <2>3, <3>1 DEF Starting
    <3>3. umpire[p] = Mirrored(umpire[q])
      <4>1. Mirrored(New("Opponent")) = New("Ourself") /\ Mirrored(New("Ourself")) = New("Opponent")
        BY OtherPlayer DEF New, Mirrored, Players
      <4> QED BY <2>1, <2>4, <4>1 DEF BeforeTheGame, Unsaid, Remote
    <3> QED BY <3>2, <3>3, NothingReplayed
  <2>5. CASE InTheGame
    <3>1. CASE Turn(p)
      <4>1. /\ inbox[p] # <<>> /\ Tells(Mirrored(umpire[p]), inbox[p], umpire[q]) /\ OnlyEvents(p)
        BY <3>1 DEF Turn
      <4>2. Events(p) = inbox[p]
        <5>1. Heard(p) = inbox[p][1] /\ IsEvent(Heard(p))
          BY <2>1, <3>1, TurnHeard DEF Contents, IInv, TypeOK
        <5>2. 1 \in DOMAIN inbox[p]
          BY <2>1, <4>1, EmptySeq
        <5> QED BY <5>1, <5>2 DEF Events, NoEvent
      <4> QED BY <2>1, <4>1, <4>2, Replaying
    <3>2. CASE Turn(q)
      <4>1. inbox[q] # <<>> /\ OnlyEvents(q)
        BY <3>2 DEF Turn
      <4>2. Events(q) = inbox[q]
        <5>1. Heard(q) = inbox[q][1] /\ IsEvent(Heard(q))
          BY <2>1, <3>2, TurnHeard DEF Contents, IInv, TypeOK
        <5>2. 1 \in DOMAIN inbox[q]
          BY <2>1, <4>1, EmptySeq
        <5> QED BY <5>1, <5>2 DEF Events, NoEvent
      <4> QED BY <4>1, <4>2
    <3>3. CASE FirstServiceMissed
      <4>1. Events(p) = <<>>
        BY <2>2, <2>3, <3>3 DEF FirstServiceMissed
      <4>2. umpire[p] = Mirrored(umpire[q])
        BY <2>1, <3>3, MirrorTyped DEF FirstServiceMissed, Remote
      <4> QED BY <4>1, <4>2, NothingReplayed
    <3>4. CASE ScoreEndorsed
      <4>1. Events(p) = <<>>
        BY <2>2, <2>3, <3>4 DEF ScoreEndorsed
      <4>2. p = "client" /\ q = "server"
        BY <2>1, <3>4 DEF ScoreEndorsed, Remote
      <4> QED BY <3>4, <4>1, <4>2 DEF ScoreEndorsed
    <3> QED BY <2>1, <2>5, <3>1, <3>2, <3>3, <3>4 DEF InTheGame
  <2>6. CASE AfterTheGame
    BY <2>1, <2>6 DEF AfterTheGame, Playing, In, Concluded
  <2> QED BY <2>4, <2>5, <2>6 DEF IInv, Conversation
<1> QED BY <1>1, ConversationHolds, PTL
=============================================================================
