--------------------------- MODULE ServerService ---------------------------
(***************************************************************************)
(* The composite socket server: the network event loop that accepts        *)
(* connections, the "connection routing task", one connection loop per     *)
(* spawned protocol processor, one task per connection being served, and   *)
(* the termination protocol.  They only communicate through bounded `mpsc' *)
(* channels of connections (moved, never copied) and one-shot signals.     *)
(*                                                                         *)
(* The dialog a task keeps over its connection is abstracted to how it     *)
(* ends: with the connection handed back (still open, or reported closed)  *)
(* or with an error, which drops the connection.                           *)
(***************************************************************************)
EXTENDS Naturals, Sequences, SequencesExt

CONSTANTS
    Conns,            \* connections remote parties may open
    Procs,            \* spawned protocol processors
    NoConn, NoProc,   \* Option::None for each of them
    ChannelCapacity,  \* of ConnectionChannel (2 in the code)
    ReturnCapacity,   \* of the "returned connections" channel (2 in the code)
    RouteNew,         \* what the routing closure may answer for a new connection
    RouteReused       \* ... and for one handed back by a processor

ASSUME ServerAssumption ==
    /\ NoConn \notin Conns
    /\ NoProc \notin Procs
    /\ Procs # {}
    /\ ChannelCapacity \in Nat \ {0}
    /\ ReturnCapacity \in Nat \ {0}
    /\ RouteNew \subseteq Procs \cup {NoProc}
    /\ RouteReused \subseteq Procs \cup {NoProc}

VARIABLES
    listener,      \* the network event loop: "accepting", "feeding", "stopped"
    incoming,      \* the connection the network event loop is feeding
    newConns,      \* channel of accepted connections
    provider,      \* the ServerConnectionHandler, with its own sender, is alive
    signalled,     \* the one-shot shutdown signal was sent to the listener
    router,        \* routing task: "selecting", "sending", "dropping", "ended"
    inHand,        \* the connection the routing task took
    queue,         \* queue[p]: the ConnectionChannel of processor p
    loop,          \* loop[p]: "receiving", "arriving", "terminating", "ended"
    arriving,      \* arriving[p]: the connection in the PeerArrived callback of p
    retConns,      \* channel of connections handed back by the tasks
    stage,         \* stage[c]: what is being done with c
    assigned,      \* assigned[c]: processor c was last routed to
    closed,        \* SocketConnection::closed
    connects,      \* number of ConnectionEvent::Connected issued for c
    disconnects,   \* number of ConnectionEvent::Disconnected issued for c
    completion,    \* completion[p]: "termination is complete" signal of p was sent
    waiter         \* the termination waiter: "waiting", "done"

listenerVars == <<listener, incoming, provider, signalled>>
routerVars   == <<router, inHand>>
loopVars     == <<loop, arriving, completion, waiter>>
channels     == <<newConns, queue, retConns>>
connVars     == <<stage, assigned, closed, connects, disconnects>>
vars == <<listenerVars, routerVars, loopVars, channels, connVars>>

Stages == {"unopened", "feeding", "new", "routing", "queued", "arriving",
           "dialog", "returning", "returned", "disconnected", "lost"}

\* The stages in which the connection object no longer (or not yet) exists
Unowned == {"unopened", "disconnected", "lost"}

\* The types of the variables, also while the service is being set up (ServerSetup)
Types ==
    /\ listener \in {"unbound", "accepting", "feeding", "stopped"}
    /\ incoming \in Conns \cup {NoConn}
    /\ newConns \in Seq(Conns)
    /\ provider \in BOOLEAN
    /\ signalled \in BOOLEAN
    /\ router \in {"unstarted", "selecting", "sending", "dropping", "ended"}
    /\ inHand \in Conns \cup {NoConn}
    /\ queue \in [Procs -> Seq(Conns)]
    /\ loop \in [Procs -> {"unspawned", "receiving", "arriving", "terminating", "ended"}]
    /\ arriving \in [Procs -> Conns \cup {NoConn}]
    /\ retConns \in Seq(Conns)
    /\ stage \in [Conns -> Stages]
    /\ assigned \in [Conns -> Procs \cup {NoProc}]
    /\ closed \in [Conns -> BOOLEAN]
    /\ connects \in [Conns -> Nat]
    /\ disconnects \in [Conns -> Nat]
    /\ completion \in [Procs -> BOOLEAN]
    /\ waiter \in {"untaken", "waiting", "done"}

TypeOK ==
    /\ Types
    /\ listener # "unbound" /\ router # "unstarted" /\ waiter # "untaken"
    /\ \A p \in Procs : loop[p] # "unspawned"

Init ==
    /\ listener = "accepting"
    /\ incoming = NoConn
    /\ newConns = <<>>
    /\ provider = TRUE
    /\ signalled = FALSE
    /\ router = "selecting"
    /\ inHand = NoConn
    /\ queue = [p \in Procs |-> <<>>]
    /\ loop = [p \in Procs |-> "receiving"]
    /\ arriving = [p \in Procs |-> NoConn]
    /\ retConns = <<>>
    /\ stage = [c \in Conns |-> "unopened"]
    /\ assigned = [c \in Conns |-> NoProc]
    /\ closed = [c \in Conns |-> FALSE]
    /\ connects = [c \in Conns |-> 0]
    /\ disconnects = [c \in Conns |-> 0]
    /\ completion = [p \in Procs |-> FALSE]
    /\ waiter = "waiting"

-----------------------------------------------------------------------------
(* The network event loop *)

\* `listener.accept()' wins the select; an accept error only loops
Accept(c) ==
    /\ listener = "accepting"
    /\ stage[c] = "unopened"
    /\ listener' = "feeding"
    /\ incoming' = c
    /\ stage' = [stage EXCEPT ![c] = "feeding"]
    /\ UNCHANGED <<provider, signalled, routerVars, loopVars, channels,
                   assigned, closed, connects, disconnects>>

\* Mutant: feeds without having accepted
FeedUnaccepted ==
    /\ Len(newConns) < ChannelCapacity
    /\ newConns' = Append(newConns, incoming)
    /\ listener' = "accepting"
    /\ incoming' = NoConn
    /\ UNCHANGED <<provider, signalled, routerVars, loopVars, queue, retConns,
                   connVars>>

\* `sender.send(connection).await', which does not race the shutdown signal
Feed ==
    /\ listener = "feeding"
    /\ Len(newConns) < ChannelCapacity
    /\ newConns' = Append(newConns, incoming)
    /\ stage' = [stage EXCEPT ![incoming] = "new"]
    /\ listener' = "accepting"
    /\ incoming' = NoConn
    /\ UNCHANGED <<provider, signalled, routerVars, loopVars, queue, retConns,
                   assigned, closed, connects, disconnects>>

\* the shutdown signal wins the select: the listener's sender is dropped with it
StopListening ==
    /\ listener = "accepting"
    /\ signalled
    /\ listener' = "stopped"
    /\ UNCHANGED <<incoming, provider, signalled, routerVars, loopVars,
                   channels, connVars>>

\* Mutant: signals, but keeps a sender of the channel
TerminateKeepingSender ==
    /\ provider
    /\ ~signalled
    /\ signalled' = TRUE
    /\ UNCHANGED <<listener, incoming, provider, routerVars, loopVars, channels,
                   connVars>>

\* terminate(): signals the listener and drops the provider's own sender
Terminate ==
    /\ provider
    /\ signalled' = TRUE
    /\ provider' = FALSE
    /\ UNCHANGED <<listener, incoming, routerVars, loopVars, channels, connVars>>

-----------------------------------------------------------------------------
(* The connection routing task *)

\* Mutant: does not wait for the listener to drop its sender
NewConnsEndedEarly == newConns = <<>> /\ ~provider

\* recv() on the new connections answers None: buffer empty, every sender dropped
NewConnsEnded == newConns = <<>> /\ ~provider /\ listener = "stopped"

\* Mutant: reuses connections that were reported closed
ReturnedVerdictsOfAll(c) == RouteReused

\* What may come of a connection that was handed back: the closure is not even
\* asked about one that was reported closed
ReturnedVerdicts(c) == IF closed[c] THEN {NoProc} ELSE RouteReused

\* The closure's verdict on connection c: p is one of the processors, or NoProc
RouteTo(c, p) ==
    /\ inHand' = c
    /\ assigned' = [assigned EXCEPT ![c] = p]
    /\ router' = IF p = NoProc THEN "dropping" ELSE "sending"
    /\ stage' = [stage EXCEPT ![c] = "routing"]

TakeNew ==
    /\ router = "selecting"
    /\ newConns # <<>>
    /\ LET c == Head(newConns) IN
        /\ newConns' = Tail(newConns)
        /\ connects' = [connects EXCEPT ![c] = @ + 1]
        /\ \E p \in RouteNew : RouteTo(c, p)
    /\ UNCHANGED <<listenerVars, loopVars, queue, retConns, closed, disconnects>>

\* Mutant: issues Connected for handed back connections too
TakeReturnedAsNew ==
    /\ router = "selecting"
    /\ retConns # <<>>
    /\ LET c == Head(retConns) IN
        /\ retConns' = Tail(retConns)
        /\ connects' = [connects EXCEPT ![c] = @ + 1]
        /\ \E p \in ReturnedVerdicts(c) : RouteTo(c, p)
    /\ UNCHANGED <<listenerVars, loopVars, newConns, queue, closed, disconnects>>

TakeReturned ==
    /\ router = "selecting"
    /\ retConns # <<>>
    /\ LET c == Head(retConns) IN
        /\ retConns' = Tail(retConns)
        /\ \E p \in ReturnedVerdicts(c) : RouteTo(c, p)
    /\ UNCHANGED <<listenerVars, loopVars, newConns, queue, closed, connects,
                   disconnects>>

\* `sender.send(connection).await': waits for room in the processor's channel
Route ==
    /\ router = "sending"
    /\ LET p == assigned[inHand] IN
        /\ Len(queue[p]) < ChannelCapacity
        /\ queue' = [queue EXCEPT ![p] = Append(@, inHand)]
    /\ stage' = [stage EXCEPT ![inHand] = "queued"]
    /\ router' = "selecting"
    /\ inHand' = NoConn
    /\ UNCHANGED <<listenerVars, loopVars, newConns, retConns, assigned, closed,
                   connects, disconnects>>

\* issues Disconnected, shuts the socket down and drops the connection
Disconnect ==
    /\ router = "dropping"
    /\ disconnects' = [disconnects EXCEPT ![inHand] = @ + 1]
    /\ stage' = [stage EXCEPT ![inHand] = "disconnected"]
    /\ router' = "selecting"
    /\ inHand' = NoConn
    /\ UNCHANGED <<listenerVars, loopVars, channels, assigned, closed, connects>>

\* The task breaks out of its loop: the receiver of handed back connections is
\* dropped with what it still holds, and so is the routing closure, which owns
\* the senders of every processor's channel
EndRouting ==
    /\ router = "selecting"
    /\ NewConnsEnded
    /\ router' = "ended"
    /\ retConns' = <<>>
    /\ stage' = [c \in Conns |-> IF stage[c] = "returned" THEN "lost" ELSE stage[c]]
    /\ UNCHANGED <<listenerVars, inHand, loopVars, newConns, queue, assigned,
                   closed, connects, disconnects>>

-----------------------------------------------------------------------------
(* The connection loop of a processor *)

\* Mutant: looks at the connection without removing it from the channel
ArrivePeeking(p) ==
    /\ loop[p] = "receiving"
    /\ queue[p] # <<>>
    /\ loop' = [loop EXCEPT ![p] = "arriving"]
    /\ arriving' = [arriving EXCEPT ![p] = Head(queue[p])]
    /\ stage' = [stage EXCEPT ![Head(queue[p])] = "arriving"]
    /\ UNCHANGED <<listenerVars, routerVars, completion, waiter, channels,
                   assigned, closed, connects, disconnects>>

\* a connection is received and its PeerArrived callback is awaited
Arrive(p) ==
    /\ loop[p] = "receiving"
    /\ queue[p] # <<>>
    /\ queue' = [queue EXCEPT ![p] = Tail(@)]
    /\ loop' = [loop EXCEPT ![p] = "arriving"]
    /\ arriving' = [arriving EXCEPT ![p] = Head(queue[p])]
    /\ stage' = [stage EXCEPT ![Head(queue[p])] = "arriving"]
    /\ UNCHANGED <<listenerVars, routerVars, completion, waiter, newConns,
                   retConns, assigned, closed, connects, disconnects>>

\* the peer address cannot be determined: the connection is silently dropped
RefuseUnknownPeer(p) ==
    /\ loop[p] = "receiving"
    /\ queue[p] # <<>>
    /\ queue' = [queue EXCEPT ![p] = Tail(@)]
    /\ stage' = [stage EXCEPT ![Head(queue[p])] = "lost"]
    /\ UNCHANGED <<listenerVars, routerVars, loopVars, newConns, retConns,
                   assigned, closed, connects, disconnects>>

\* the callback returned: the dialog goes on in a task of its own
SpawnDialog(p) ==
    /\ loop[p] = "arriving"
    /\ stage' = [stage EXCEPT ![arriving[p]] = "dialog"]
    /\ loop' = [loop EXCEPT ![p] = "receiving"]
    /\ arriving' = [arriving EXCEPT ![p] = NoConn]
    /\ UNCHANGED <<listenerVars, routerVars, completion, waiter, channels,
                   assigned, closed, connects, disconnects>>

\* Mutant: ends with the routing task, whatever is still in the queue
QueueAbandoned(p) == router = "ended"

\* recv() on the queue of p answers None: the routing closure owned its senders
QueueEnded(p) == queue[p] = <<>> /\ router = "ended"

\* LocalServiceTermination is issued to the user callback
EndLoop(p) ==
    /\ loop[p] = "receiving"
    /\ QueueEnded(p)
    /\ loop' = [loop EXCEPT ![p] = "terminating"]
    /\ UNCHANGED <<listenerVars, routerVars, arriving, completion, waiter,
                   channels, connVars>>

\* the callback returned: the one-shot "termination is complete" is sent
SignalCompletion(p) ==
    /\ loop[p] = "terminating"
    /\ loop' = [loop EXCEPT ![p] = "ended"]
    /\ completion' = [completion EXCEPT ![p] = TRUE]
    /\ UNCHANGED <<listenerVars, routerVars, arriving, waiter, channels, connVars>>

-----------------------------------------------------------------------------
(* The task of a connection being served *)

\* dialog_loop() answers Ok; `isClosed' tells if it reported the socket closed
FinishDialog(c, isClosed) ==
    /\ stage[c] = "dialog"
    /\ stage' = [stage EXCEPT ![c] = "returning"]
    /\ closed' = [closed EXCEPT ![c] = @ \/ isClosed]
    /\ UNCHANGED <<listenerVars, routerVars, loopVars, channels, assigned,
                   connects, disconnects>>

\* dialog_loop() answers Err (socket options, first slot, final socket flush)
FailDialog(c) ==
    /\ stage[c] = "dialog"
    /\ stage' = [stage EXCEPT ![c] = "lost"]
    /\ UNCHANGED <<listenerVars, routerVars, loopVars, channels, assigned,
                   closed, connects, disconnects>>

\* Mutant: does not bother to hand closed connections back
HandBackIfOpen(c) ==
    /\ stage[c] = "returning"
    /\ ~closed[c]
    /\ router # "ended"
    /\ Len(retConns) < ReturnCapacity
    /\ retConns' = Append(retConns, c)
    /\ stage' = [stage EXCEPT ![c] = "returned"]
    /\ UNCHANGED <<listenerVars, routerVars, loopVars, newConns, queue, assigned,
                   closed, connects, disconnects>>

\* `connection_sink.send(connection).await'
HandBack(c) ==
    /\ stage[c] = "returning"
    /\ router # "ended"
    /\ Len(retConns) < ReturnCapacity
    /\ retConns' = Append(retConns, c)
    /\ stage' = [stage EXCEPT ![c] = "returned"]
    /\ UNCHANGED <<listenerVars, routerVars, loopVars, newConns, queue, assigned,
                   closed, connects, disconnects>>

\* the receiver is gone: "It will now be forcibly closed"
HandBackFails(c) ==
    /\ stage[c] = "returning"
    /\ router = "ended"
    /\ stage' = [stage EXCEPT ![c] = "lost"]
    /\ UNCHANGED <<listenerVars, routerVars, loopVars, channels, assigned,
                   closed, connects, disconnects>>

-----------------------------------------------------------------------------
\* the termination waiter has received the signal of every processor
WaiterReturns ==
    /\ waiter = "waiting"
    /\ \A p \in Procs : completion[p]
    /\ waiter' = "done"
    /\ UNCHANGED <<listenerVars, routerVars, loop, arriving, completion, channels,
                   connVars>>

\* Every task has ended and every connection is gone: the only state to stop in
Stopped ==
    /\ waiter = "done"
    /\ \A c \in Conns : stage[c] \in Unowned
    /\ UNCHANGED vars

Listener == (\E c \in Conns : Accept(c)) \/ Feed \/ StopListening
Router == TakeNew \/ TakeReturned \/ Route \/ Disconnect \/ EndRouting
Loop(p) ==
    \/ Arrive(p)
    \/ RefuseUnknownPeer(p)
    \/ SpawnDialog(p)
    \/ EndLoop(p)
    \/ SignalCompletion(p)
Task(c) ==
    \/ \E isClosed \in BOOLEAN : FinishDialog(c, isClosed)
    \/ FailDialog(c)
    \/ HandBack(c)
    \/ HandBackFails(c)

Next ==
    \/ Listener
    \/ Terminate
    \/ Router
    \/ \E p \in Procs : Loop(p)
    \/ \E c \in Conns : Task(c)
    \/ WaiterReturns
    \/ Stopped

Spec == Init /\ [][Next]_vars

-----------------------------------------------------------------------------
(* Safety *)

Custodians == {"listener", "newConns", "router", "retConns", "tasks"} \X {NoProc}
                \cup {"queue", "loop"} \X Procs

\* The connections the given part of the server holds
Custody(k) ==
    CASE k[1] = "listener" -> {incoming} \ {NoConn}
      [] k[1] = "newConns" -> ToSet(newConns)
      [] k[1] = "router"   -> {inHand} \ {NoConn}
      [] k[1] = "retConns" -> ToSet(retConns)
      [] k[1] = "tasks"    -> {c \in Conns : stage[c] \in {"dialog", "returning"}}
      [] k[1] = "queue"    -> ToSet(queue[k[2]])
      [] k[1] = "loop"     -> {arriving[k[2]]} \ {NoConn}

\* A connection object is moved, never shared nor leaked: while it exists it is
\* in the hands of exactly one task or channel (and there only once), and in
\* none once it was disconnected or dropped.
ExclusiveCustody ==
    /\ \A j, k \in Custodians : j # k => Custody(j) \cap Custody(k) = {}
    /\ IsInjective(newConns) /\ IsInjective(retConns)
    /\ \A p \in Procs : IsInjective(queue[p])
    /\ \A c \in Conns : (\E k \in Custodians : c \in Custody(k)) <=> stage[c] \notin Unowned

\* A connection a dialog reported closed never reaches a processor again: it is
\* only on its way to be disconnected (or dropped).
ClosedIsNotServedAgain ==
    \A c \in Conns : closed[c] =>
        /\ stage[c] \notin {"queued", "arriving", "dialog"}
        /\ inHand = c => router = "dropping"

\* Connected is issued once, before any processor gets the connection, and
\* Disconnected at most once, after it and only when the connection is over.
EventsPaired ==
    \A c \in Conns :
        /\ connects[c] = IF stage[c] \in {"unopened", "feeding", "new"} THEN 0 ELSE 1
        /\ disconnects[c] = IF stage[c] = "disconnected" THEN 1 ELSE 0

\* The two `send' error branches the code calls a BUG are out of reach: the
\* listener never feeds a routing task that is gone, nor does the routing task
\* ever send to a processor whose loop is over.
ReceiversOutliveSenders ==
    /\ router = "ended" => listener = "stopped"
    /\ router = "sending" => loop[assigned[inHand]] \in {"receiving", "arriving"}

\* When a processor issues LocalServiceTermination -- hence before the waiter
\* returns -- no connection is left behind in a channel nobody reads any more,
\* and none can come.
TerminationIsFinal ==
    /\ \A p \in Procs : loop[p] \in {"terminating", "ended"} =>
        /\ listener = "stopped" /\ router = "ended"
        /\ newConns = <<>> /\ retConns = <<>> /\ queue[p] = <<>>
    /\ waiter = "done" => \A c \in Conns :
            stage[c] \in Unowned \cup {"dialog", "returning"}

-----------------------------------------------------------------------------
(* The inductive invariant: what makes the properties above hold together *)

\* A task holds a connection exactly in the states that deal with one
Registers ==
    /\ listener = "feeding" <=> incoming # NoConn
    /\ router \in {"sending", "dropping"} <=> inHand # NoConn
    /\ router = "sending" => assigned[inHand] \in Procs
    /\ \A p \in Procs : loop[p] = "arriving" <=> arriving[p] # NoConn

\* What is being done with a connection tells where it is, and conversely
Placement ==
    \A c \in Conns :
        /\ stage[c] = "feeding" <=> incoming = c
        /\ stage[c] = "new" <=> c \in ToSet(newConns)
        /\ stage[c] = "routing" <=> inHand = c
        /\ stage[c] = "returned" <=> c \in ToSet(retConns)
        /\ stage[c] \in {"queued", "arriving"} => assigned[c] \in Procs
        /\ \A p \in Procs :
            /\ (stage[c] = "queued" /\ assigned[c] = p) <=> c \in ToSet(queue[p])
            /\ (stage[c] = "arriving" /\ assigned[c] = p) <=> arriving[p] = c

NoDuplicates ==
    /\ IsInjective(newConns)
    /\ IsInjective(retConns)
    /\ \A p \in Procs : IsInjective(queue[p])

\* Only a dialog reports a socket closed, so fresh connections are open
ClosedPlacement ==
    /\ ClosedIsNotServedAgain
    /\ \A c \in Conns : closed[c] => stage[c] \notin {"unopened", "feeding", "new"}

\* The order in which the parts of the server end
ShutdownOrder ==
    /\ router = "ended" => /\ listener = "stopped" /\ ~provider
                            /\ newConns = <<>> /\ retConns = <<>>
    /\ \A p \in Procs :
        /\ loop[p] \in {"terminating", "ended"} => router = "ended" /\ queue[p] = <<>>
        /\ completion[p] => loop[p] = "ended"
    /\ waiter = "done" => \A p \in Procs : completion[p]

\* EventsPaired, of a server that may lose connections before they are announced
\* (ServerSetup)
EventsOrdered ==
    \A c \in Conns :
        /\ connects[c] \in IF stage[c] \in {"unopened", "feeding", "new"} THEN {0}
                           ELSE IF stage[c] = "lost" THEN {0, 1} ELSE {1}
        /\ disconnects[c] = IF stage[c] = "disconnected" THEN 1 ELSE 0

\* What holds of the connections, however the service is set up
Consistent ==
    /\ Types
    /\ Registers
    /\ Placement
    /\ NoDuplicates
    /\ EventsOrdered
    /\ ClosedPlacement

IInv ==
    /\ TypeOK
    /\ Consistent
    /\ EventsPaired
    /\ ShutdownOrder

-----------------------------------------------------------------------------
(* Refinement *)

Phase == [c \in Conns |->
            CASE stage[c] = "unopened" -> "unopened"
              [] stage[c] = "dialog" -> "served"
              [] stage[c] \in {"disconnected", "lost"} -> "gone"
              [] OTHER -> "held"]
Dead == {c \in Conns : closed[c]}
Announced == {c \in Conns : connects[c] > 0}
Reported == {c \in Conns : disconnects[c] > 0}

Life == INSTANCE ConnectionLife WITH
    phase <- Phase, dead <- Dead, announced <- Announced, reported <- Reported

\* The server keeps the promise of ConnectionLife
KeepsPromise == Life!Spec

-----------------------------------------------------------------------------
(* Liveness *)

\* Every accepted connection gets its dialog or is given up, however many
\* connections bounce between processors and whether or not the server stops.
AcceptedIsServed ==
    \A c \in Conns : stage[c] = "feeding" ~> stage[c] \in {"dialog", "disconnected", "lost"}

\* Once a dialog hands back a closed connection, Disconnected follows -- unless
\* the server is being terminated.
ClosedIsReported ==
    \A c \in Conns : (closed[c] /\ stage[c] = "returning") ~> (disconnects[c] = 1 \/ signalled)
=============================================================================
