------------------------------ MODULE PingPong ------------------------------
(***************************************************************************)
(* The composite protocol stacking example: a client and a server agree on *)
(* a version in a textual dialog (PreGame), upgrade the same connection to *)
(* a binary one (Game), and play a match of ping-pong there, each with an  *)
(* umpire of its own.  A dialog goes through the phases the library takes  *)
(* it through: the processor is built ("arriving"), its stream runs        *)
(* ("talking"), the stream ended ("leaving"), PeerLeft was handled         *)
(* ("left"); then the connection is routed by its state to another dialog, *)
(* or dropped ("gone").                                                    *)
(***************************************************************************)
EXTENDS Umpire

CONSTANT Versions       \* what PROTOCOL_VERSION may be in a build

VARIABLES
    version,    \* each party's PROTOCOL_VERSION
    dialog,     \* the dialog each party is in ...
    phase,      \* ... and how far it is
    state,      \* the connection's state, that tells the next dialog
    hungUp,     \* SocketConnection::closed
    umpire,     \* the client's, and the one in the server's session
    session,    \* the server's entry for the client
    inbox,      \* what was sent to each party and it did not process
    severed,    \* the connection is broken
    \* history
    lostStart   \* GameStarted reached a client that was still in the PreGame dialog

vars == <<version, dialog, phase, state, hungUp, umpire, session, inbox, severed, lostStart>>

Parties == {"client", "server"}
Remote(p) == IF p = "client" THEN "server" ELSE "client"

\* Messages
Version(v) == [kind |-> "Version", version |-> v]
Plain(kind) == [kind |-> kind]
Messages ==
    {Version(v) : v \in Versions}
    \cup {Plain(kind) : kind \in {"Config", "Error", "GameStarted", "EndorsedScore", "GoodBye", "Panic"}}
    \cup PingPongEvents

TypeOK ==
    /\ version \in [Parties -> Versions]
    /\ dialog \in [Parties -> {"PreGame", "Game"}]
    /\ phase \in [Parties -> {"arriving", "talking", "leaving", "left", "gone"}]
    /\ state \in [Parties -> {"PreGame", "Game", "Disconnect"}]
    /\ hungUp \in [Parties -> BOOLEAN]
    /\ umpire \in [Parties -> Umpires]
    /\ session \in {"none", "new", "umpired"}
    /\ inbox \in [Parties -> Seq(Messages)]
    /\ severed \in BOOLEAN /\ lostStart \in BOOLEAN

Init ==
    /\ version \in [Parties -> Versions]
    /\ dialog = [p \in Parties |-> "PreGame"]
    /\ phase = [p \in Parties |-> "arriving"]
    /\ state = [p \in Parties |-> "PreGame"]
    /\ hungUp = [p \in Parties |-> FALSE]
    /\ umpire = [client |-> New("Ourself"), server |-> New("Opponent")]
    /\ session = "none"
    /\ inbox = [p \in Parties |-> <<>>]
    /\ severed = FALSE /\ lostStart = FALSE

In(p, d, ph) == dialog[p] = d /\ phase[p] = ph
Enter(p, ph) == phase' = [phase EXCEPT ![p] = ph]

\* The inboxes after p processed its next message and answered it, and after it
\* sent something by itself
Answer(p, messages) ==
    inbox' = [inbox EXCEPT ![p] = Tail(@), ![Remote(p)] = @ \o messages]
Send(p, message) == inbox' = [inbox EXCEPT ![Remote(p)] = Append(@, message)]

-----------------------------------------------------------------------------
(* PreGame *)

ServerArrives ==
    /\ In("server", "PreGame", "arriving")
    /\ session' = "new"
    /\ Enter("server", "talking")
    /\ UNCHANGED <<version, dialog, state, hungUp, umpire, inbox, severed, lostStart>>

ClientArrives ==
    /\ In("client", "PreGame", "arriving")
    /\ Send("client", Version(version["client"]))
    /\ Enter("client", "talking")
    /\ UNCHANGED <<version, dialog, state, hungUp, umpire, session, severed, lostStart>>

\* A party's next message, that it is ready to process
Hears(p, d, message) ==
    /\ In(p, d, "talking")
    /\ inbox[p] # <<>> /\ Head(inbox[p]) = message

\* The answer ends the processor's stream, with this state for the connection
Concludes(p, newState, messages) ==
    /\ Answer(p, messages)
    /\ state' = [state EXCEPT ![p] = newState]
    /\ Enter(p, "leaving")
    /\ UNCHANGED <<version, dialog, hungUp, severed, lostStart>>

ServerHearsVersion ==
    \E v \in Versions :
        /\ Hears("server", "PreGame", Version(v))
        /\ \/ /\ v = version["server"]
              /\ Answer("server", <<Version(v)>>)
              /\ UNCHANGED <<version, dialog, phase, state, hungUp, severed, lostStart>>
           \/ /\ v # version["server"]
              /\ Concludes("server", "Disconnect", <<Plain("Error")>>)
        /\ UNCHANGED <<umpire, session>>

\* The game is instantiated: the client is to service the first ball
ServerHearsConfig ==
    /\ Hears("server", "PreGame", Plain("Config"))
    /\ umpire' = [umpire EXCEPT !["server"] = New("Opponent")]
    /\ session' = "umpired"
    /\ Concludes("server", "Game", <<>>)

\* The first answer is the last one (take(1)).  The server only answers a Version
\* to a client that has the same.
ClientHearsVersion ==
    /\ Hears("client", "PreGame", Version(version["client"]))
    /\ Concludes("client", "Game", <<Plain("Config")>>)
    /\ UNCHANGED <<umpire, session>>

ClientHearsError ==
    /\ Hears("client", "PreGame", Plain("Error"))
    /\ Concludes("client", "Disconnect", <<Plain("Error")>>)
    /\ UNCHANGED <<umpire, session>>

PreGame ==
    \/ ServerArrives \/ ServerHearsVersion \/ ServerHearsConfig
    \/ ClientArrives \/ ClientHearsVersion \/ ClientHearsError

-----------------------------------------------------------------------------
(* Game *)

\* PeerArrived: GameStarted is sent after a while
ServerStartsGame ==
    /\ In("server", "Game", "arriving")
    /\ Send("server", Plain("GameStarted"))
    /\ Enter("server", "talking")
    /\ UNCHANGED <<version, dialog, state, hungUp, umpire, session, severed, lostStart>>

ClientStartsGame ==
    /\ In("client", "Game", "arriving")
    /\ umpire' = [umpire EXCEPT !["client"] = New("Ourself")]
    /\ Enter("client", "talking")
    /\ UNCHANGED <<version, dialog, state, hungUp, session, inbox, severed, lostStart>>

\* An event that goes on with the game: no party can tell that it won a score
GoesOn(message) ==
    \/ message.kind \in {"TurnFlip", "SoftFault"}
    \/ message.kind = "Score" /\ message.winner = "Opponent"

Reacts(p, reactions) ==
    \E r \in reactions :
        /\ Answer(p, r.events)
        /\ umpire' = [umpire EXCEPT ![p] = r.umpire]
        /\ UNCHANGED <<version, dialog, phase, state, hungUp, session, severed, lostStart>>

Heard(p) == Head(inbox[p])
InGame(p) == In(p, "Game", "talking") /\ inbox[p] # <<>>

Plays(p) == InGame(p) /\ GoesOn(Heard(p)) /\ Reacts(p, React(umpire[p], Heard(p)))

\* The client services once, whatever comes out of it
ClientHearsGameStarted ==
    InGame("client") /\ Heard("client").kind = "GameStarted" /\ Reacts("client", Act(umpire["client"]))

\* The score is endorsed as it was told
ClientHearsGameOver ==
    /\ InGame("client") /\ Heard("client").kind = "GracefullyEnded"
    /\ Reacts("client", {Reaction(umpire["client"], <<Plain("EndorsedScore")>>)})

\* cancel_and_close(): nothing is answered
ClientHearsGoodBye ==
    /\ InGame("client") /\ Heard("client").kind = "GoodBye"
    /\ Concludes("client", state["client"], <<>>)
    /\ UNCHANGED <<umpire, session>>

\* Whatever else the client says ends the game
ServerSaysGoodBye ==
    /\ InGame("server") /\ Heard("server").kind \in {"GracefullyEnded", "EndorsedScore"}
    /\ Concludes("server", state["server"], <<Plain("GoodBye")>>)
    /\ UNCHANGED <<umpire, session>>

Game ==
    \/ ServerStartsGame \/ ClientStartsGame
    \/ \E p \in Parties : Plays(p)
    \/ ClientHearsGameStarted \/ ClientHearsGameOver \/ ClientHearsGoodBye
    \/ ServerSaysGoodBye

-----------------------------------------------------------------------------
(* What the library does around the processors *)

\* Mutant: the session is kept
SessionForgotten(p) ==
    /\ phase[p] = "leaving"
    /\ Enter(p, "left")
    /\ state' = [state EXCEPT ![p] = IF dialog[p] = "Game" THEN "Disconnect" ELSE @]
    /\ UNCHANGED <<version, dialog, hungUp, umpire, session, inbox, severed, lostStart>>

\* Only the Game's handlers do something about it
PeerLeft(p) ==
    /\ phase[p] = "leaving"
    /\ Enter(p, "left")
    /\ state' = [state EXCEPT ![p] = IF dialog[p] = "Game" THEN "Disconnect" ELSE @]
    /\ session' = IF p = "server" /\ dialog[p] = "Game" THEN "none" ELSE session
    /\ UNCHANGED <<version, dialog, hungUp, umpire, inbox, severed, lostStart>>

\* The stacking closure.  A socket dropped with something unread resets the connection.
Route(p) ==
    /\ IF hungUp[p] \/ state[p] = "Disconnect"
       THEN /\ Enter(p, "gone")
            /\ severed' = (severed \/ inbox[p] # <<>>)
            /\ UNCHANGED dialog
       ELSE /\ Enter(p, "arriving")
            /\ dialog' = [dialog EXCEPT ![p] = state[p]]
            /\ UNCHANGED severed
    /\ UNCHANGED <<version, state, hungUp, umpire, session, inbox, lostStart>>

\* The executor closes the peer after PeerLeft ...
DialogEnds(p) == phase[p] = "left" /\ Route(p)

\* ... but the client's processor closed it already: the state may be taken before
\* PeerLeft sets it
DialogEndsEarly == In("client", "Game", "leaving") /\ ~hungUp["client"] /\ Route("client")

\* The dialog goes on reading for a processor that is no more
ReadInVain(p) ==
    /\ phase[p] \in {"leaving", "left"} /\ ~hungUp[p]
    /\ inbox[p] # <<>>
    /\ lostStart' = (lostStart \/ Heard(p).kind = "GameStarted")
    /\ Answer(p, <<>>)
    /\ UNCHANGED <<version, dialog, phase, state, hungUp, umpire, session, severed>>

\* Mutant: the end of the connection is not reported
HangUpUnreported(p) ==
    /\ phase[p] = "talking"
    /\ severed \/ (phase[Remote(p)] = "gone" /\ inbox[p] = <<>>)
    /\ Enter(p, "leaving")
    /\ UNCHANGED <<version, dialog, state, hungUp, umpire, session, inbox, severed, lostStart>>

HangUp(p) ==
    /\ phase[p] \in {"talking", "leaving", "left"} /\ ~hungUp[p]
    /\ severed \/ (phase[Remote(p)] = "gone" /\ inbox[p] = <<>>)
    /\ hungUp' = [hungUp EXCEPT ![p] = TRUE]
    /\ Enter(p, IF phase[p] = "talking" THEN "leaving" ELSE phase[p])
    /\ UNCHANGED <<version, dialog, state, umpire, session, inbox, severed, lostStart>>

Sever ==
    /\ ~severed /\ \E p \in Parties : phase[p] # "gone"
    /\ severed' = TRUE
    /\ UNCHANGED <<version, dialog, phase, state, hungUp, umpire, session, inbox, lostStart>>

Library(p) == PeerLeft(p) \/ DialogEnds(p) \/ ReadInVain(p) \/ HangUp(p)

Gone == \A p \in Parties : phase[p] = "gone"
Over == Gone /\ UNCHANGED vars

Next ==
    \/ PreGame \/ Game
    \/ (\E p \in Parties : Library(p)) \/ DialogEndsEarly
    \/ Sever \/ Over

Spec == Init /\ [][Next]_vars

\* p's turn ends with a fault
Faults(p) ==
    /\ Plays(p)
    /\ \E event \in Range(inbox'[Remote(p)]) : event.kind \in {"Score", "GracefullyEnded"}

\* Messages are processed and tasks polled whenever they can be; a lucky number is a
\* random one, and rallies do not last for ever
FairSpec ==
    /\ Spec
    /\ WF_vars(PreGame) /\ WF_vars(Game)
    /\ \A p \in Parties : WF_vars(Library(p)) /\ SF_vars(Faults(p))
-----------------------------------------------------------------------------
(* Safety *)

IsEvent(message) == message.kind \in {"TurnFlip", "SoftFault", "Score", "GracefullyEnded"}
NoEvent(p) == \A i \in DOMAIN inbox[p] : ~IsEvent(inbox[p][i])
OnlyEvents(p) == \A i \in DOMAIN inbox[p] : IsEvent(inbox[p][i])

\* The events in flight to p: nothing else is said among them, by TurnsAlternate
Events(p) == IF NoEvent(p) THEN <<>> ELSE inbox[p]

Playing == \A p \in Parties : In(p, "Game", "talking")
Finished(p) == umpire[p].state = GameOver

\* Where an umpire gets to by playing the opponent's events again
Replayed(u, events) ==
    LET after[n \in 0 .. Len(events)] ==
            IF n = 0 THEN u
            ELSE ProcessTurn(after[n - 1], "Opponent", events[n].luck).umpire
    IN  after[Len(events)]
Mirrored(u) == [score |-> [player \in Players |-> u.score[Other(player)]],
                state |-> u.state, turn |-> Other(u.turn)]

\* Both umpires know the same match: the one that plays again the events in
\* flight gets to the score, state and turn of the one that told them -- the
\* final score the client endorses without looking at it included.
UmpiresAgree ==
    \A p \in Parties :
        LET q == Remote(p)
        IN  Playing /\ Events(q) = <<>> /\ ~Finished(p) /\ (Finished(q) => Events(p) # <<>>)
                => Replayed(umpire[p], Events(p)) = Mirrored(umpire[q])

\* No umpire has a rule to complain about, and none is asked to go on with a
\* game that is over: GameCancelled, for which the client has no answer, is never told.
FairPlay ==
    \A p \in Parties : \A i \in DOMAIN inbox[p] :
        inbox[p][i].kind \notin {"GameCancelled", "Panic"}

\* A player only acts in its turn: events are not in flight in both directions, and
\* nothing else is said among them.
TurnsAlternate ==
    /\ \E p \in Parties : NoEvent(p)
    /\ \A p \in Parties : NoEvent(p) \/ OnlyEvents(p)

\* The client's first ball, lost to a soft fault: it is not serviced again
FirstServiceLost ==
    /\ umpire["server"] = [New("Opponent") EXCEPT !.state = WaitingForService(2)]
    /\ Playing

\* Both parties wait for each other in two cases only: the first service was a soft
\* fault, and GameStarted was read by the dialog that was ending.
OnlyFirstServiceStalls ==
    (\A p \in Parties : phase[p] = "talking" /\ ~hungUp[p] /\ inbox[p] = <<>>) /\ ~severed
        => FirstServiceLost \/ lostStart

\* The server's session lives as long as the game needs it and not longer; one
\* whose game never began is left behind, as the handler's TODO says.
SessionReleased ==
    /\ In("server", "Game", "arriving") \/ In("server", "Game", "talking") => session = "umpired"
    /\ In("server", "Game", "gone") => session = "none"

-----------------------------------------------------------------------------
(* The inductive invariant *)

Concluded == {"leaving", "left", "gone"}

\* Each party's progress: its state tells where its connection goes from a dialog
\* that is over, unless the connection is over
PartyProgress ==
    \A p \in Parties :
        /\ phase[p] \in {"arriving", "talking"} => ~hungUp[p] /\ state[p] = dialog[p]
        /\ phase[p] = "gone" => hungUp[p] \/ state[p] = "Disconnect"
        /\ dialog[p] = "PreGame" /\ state[p] = "PreGame" /\ phase[p] \in Concluded => hungUp[p]
        /\ dialog[p] = "Game" => state[p] = IF phase[p] \in {"left", "gone"} THEN "Disconnect" ELSE "Game"

SessionFollows ==
    /\ dialog["server"] = "Game" =>
        session = IF phase["server"] \in {"left", "gone"} THEN "none" ELSE "umpired"
    /\ state["server"] = "Game" => session = "umpired"

\* Who said what last: the conversation, up to the game
InPreGame(p, s) == dialog[p] = "PreGame" /\ state[p] = s
Unsaid == \A p \in Parties : umpire[p] = New(IF p = "client" THEN "Ourself" ELSE "Opponent")

\* What the client, and the server, are still to hear
Inboxes(c, s) == [p \in Parties |-> IF p = "client" THEN c ELSE s]
Unheard(c, s) == inbox = Inboxes(c, s)

\* In the Game, or on the way to it, and it did not say good bye
Upgraded(p) ==
    /\ dialog[p] = "Game" \/ state[p] = "Game"
    /\ dialog[p] = "Game" /\ phase[p] \in Concluded => hungUp[p]
Gaming(p) == Upgraded(p) /\ dialog[p] = "Game" /\ phase[p] # "arriving"

Silence ==
    /\ Unheard(<<>>, <<>>)
    /\ In("client", "PreGame", "arriving") /\ InPreGame("server", "PreGame")
VersionTold ==
    /\ Unheard(<<>>, <<Version(version["client"])>>)
    /\ InPreGame("client", "PreGame") /\ phase["client"] # "arriving"
    /\ InPreGame("server", "PreGame")
VersionAgreed ==
    /\ Unheard(<<Version(version["client"])>>, <<>>)
    /\ InPreGame("client", "PreGame") /\ phase["client"] # "arriving"
    /\ InPreGame("server", "PreGame") /\ phase["server"] # "arriving"
VersionRefused ==
    /\ Unheard(<<Plain("Error")>>, <<>>)
    /\ InPreGame("client", "PreGame") /\ phase["client"] # "arriving"
    /\ InPreGame("server", "Disconnect")
RefusalHeard ==
    /\ Unheard(<<>>, <<>>) \/ Unheard(<<>>, <<Plain("Error")>>)
    /\ InPreGame("client", "Disconnect") /\ InPreGame("server", "Disconnect")
ConfigTold ==
    /\ Unheard(<<>>, <<Plain("Config")>>)
    /\ Upgraded("client")
    /\ InPreGame("server", "PreGame") /\ phase["server"] # "arriving"
Upgrading ==
    /\ Unheard(<<>>, <<>>)
    /\ Upgraded("client")
    /\ InPreGame("server", "Game") \/ In("server", "Game", "arriving")
Starting ==
    /\ Unheard(<<Plain("GameStarted")>>, <<>>) \/ (lostStart /\ Unheard(<<>>, <<>>))
    /\ Upgraded("client") /\ Gaming("server")

BeforeTheGame ==
    /\ Unsaid
    /\ \/ Silence \/ VersionTold \/ VersionAgreed \/ VersionRefused \/ RefusalHeard
       \/ ConfigTold \/ Upgrading \/ Starting

\* The umpire of a player that goes on servicing after k soft faults
Missed(u, k) == IF k = 0 THEN u ELSE [u EXCEPT !.state = WaitingForService(@.attempt + k)]

\* What a player whose umpire was u tells of its turn, after which its umpire is v
Tells(u, events, v) ==
    LET n == Len(events)
    IN  /\ u.turn = "Ourself" /\ u.state # GameOver
        /\ \A i \in 1 .. n : events[i].luck \in Luck
        /\ \A i \in 1 .. n - 1 :
            /\ events[i].kind = "SoftFault"
            /\ ProcessTurn(Missed(u, i - 1), "Ourself", events[i].luck)
                    = Outcome(Missed(u, i), events[i])
        /\ ProcessTurn(Missed(u, n - 1), "Ourself", events[n].luck) = Outcome(v, events[n])

\* It is p's turn to hear
Turn(p) ==
    /\ inbox[p] # <<>> /\ OnlyEvents(p) /\ inbox[Remote(p)] = <<>>
    /\ Tells(Mirrored(umpire[p]), inbox[p], umpire[Remote(p)])
    /\ Last(inbox[p]).kind = "SoftFault" => p = "server" /\ umpire[p] = New("Opponent") /\ Len(inbox[p]) = 1

FirstServiceMissed ==
    /\ Unheard(<<>>, <<>>)
    /\ umpire["server"] = [New("Opponent") EXCEPT !.state = WaitingForService(2)]
    /\ umpire["client"] = Mirrored(umpire["server"])

ScoreEndorsed ==
    /\ Unheard(<<>>, <<Plain("EndorsedScore")>>)
    /\ Finished("server")

InTheGame ==
    /\ \A p \in Parties : Gaming(p)
    /\ (\E p \in Parties : Turn(p)) \/ FirstServiceMissed \/ ScoreEndorsed

AfterTheGame ==
    /\ dialog["server"] = "Game" /\ phase["server"] \in Concluded
    /\ \/ Unheard(<<Plain("GoodBye")>>, <<>>) /\ Gaming("client")
       \/ Unheard(<<>>, <<>>) /\ dialog["client"] = "Game"

Conversation == BeforeTheGame \/ InTheGame \/ AfterTheGame

\* The match is over once a player has the scores for it
Sound(u) == u.state # GameOver => \A player \in Players : u.score[player] < ScoreLimit
UmpiresSound == \A p \in Parties : Sound(umpire[p])

IInv ==
    /\ TypeOK
    /\ PartyProgress
    /\ SessionFollows
    /\ UmpiresSound
    /\ Conversation

-----------------------------------------------------------------------------
(* Liveness *)

\* The connection is dropped by both parties in the end, whether the match was played,
\* refused or cut off, except in the two cases above.
GameEnds == <>[](Gone \/ FirstServiceLost \/ lostStart)
=============================================================================
