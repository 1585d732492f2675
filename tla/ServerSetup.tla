----------------------------- MODULE ServerSetup -----------------------------
(***************************************************************************)
(* The composite socket server from the point of view of the program that  *)
(* owns it: processors are spawned one by one, each giving a connection    *)
(* channel to be routed to; the service is started -- which may fail, or   *)
(* be tried again -- with a routing closure that owns some of these        *)
(* channels; the termination waiter is taken and the server terminated, or *)
(* dropped, at any time.  Whatever the order of the calls, what they leave *)
(* running is the service of ServerService.                                *)
(***************************************************************************)
EXTENDS ServerService

VARIABLES
    exists,     \* the CompositeSocketServer was neither terminated nor dropped
    kept,       \* the processors whose ConnectionChannel the program still has
    routes,     \* those whose ConnectionChannel the routing closure owns
    awaited     \* the processors the termination waiter was taken with

setupVars == <<exists, kept, routes, awaited>>
allVars == <<vars, setupVars>>

Spawned == {p \in Procs : loop[p] # "unspawned"}

\* CompositeSocketServer::new()
New ==
    /\ listener = "unbound" /\ incoming = NoConn
    /\ provider = FALSE /\ signalled = FALSE
    /\ router = "unstarted" /\ inHand = NoConn
    /\ loop = [p \in Procs |-> "unspawned"]
    /\ arriving = [p \in Procs |-> NoConn]
    /\ newConns = <<>> /\ retConns = <<>> /\ queue = [p \in Procs |-> <<>>]
    /\ stage = [c \in Conns |-> "unopened"]
    /\ assigned = [c \in Conns |-> NoProc]
    /\ closed = [c \in Conns |-> FALSE]
    /\ connects = [c \in Conns |-> 0] /\ disconnects = [c \in Conns |-> 0]
    /\ completion = [p \in Procs |-> FALSE]
    /\ waiter = "untaken"
    /\ exists = TRUE /\ kept = {} /\ routes = {} /\ awaited = {}

-----------------------------------------------------------------------------
(* The calls of the program *)

\* ConnectionChannel::new(): its sending half is given to the program
OpenChannel(p) == kept' = kept \cup {p}

\* Mutant: accepts processors the waiter does not know of
SpawnUnawaited(p) ==
    /\ exists
    /\ loop[p] = "unspawned"
    /\ loop' = [loop EXCEPT ![p] = "receiving"]
    /\ OpenChannel(p)
    /\ UNCHANGED <<listenerVars, routerVars, arriving, completion, waiter, channels,
                   connVars, exists, routes, awaited>>

\* Panics once the waiter took the receivers of the "termination is complete" signals
SpawnProcessor(p) ==
    /\ exists /\ waiter = "untaken"
    /\ loop[p] = "unspawned"
    /\ loop' = [loop EXCEPT ![p] = "receiving"]
    /\ OpenChannel(p)
    /\ UNCHANGED <<listenerVars, routerVars, arriving, completion, waiter, channels,
                   connVars, exists, routes, awaited>>

\* The closure moves some of the channels in
Start(owned) ==
    /\ exists /\ router = "unstarted"
    /\ owned \subseteq kept
    /\ listener' = "accepting" /\ provider' = TRUE
    /\ router' = "selecting"
    /\ routes' = owned /\ kept' = kept \ owned
    /\ UNCHANGED <<incoming, signalled, inHand, loopVars, channels, connVars, exists,
                   awaited>>

\* The address is taken -- by this same server, if it was started -- and the closure
\* is dropped with the channels it owns
StartFails(owned) ==
    /\ exists
    /\ owned \subseteq kept /\ owned # {}
    /\ kept' = kept \ owned
    /\ UNCHANGED <<vars, exists, routes, awaited>>

DropChannel(p) ==
    /\ p \in kept
    /\ kept' = kept \ {p}
    /\ UNCHANGED <<vars, exists, routes, awaited>>

TakeWaiter ==
    /\ exists /\ waiter = "untaken"
    /\ waiter' = "waiting"
    /\ awaited' = Spawned
    /\ UNCHANGED <<listenerVars, routerVars, loop, arriving, completion, channels,
                   connVars, exists, kept, routes>>

\* terminate() consumes the server, also when it answers that it was not started.
\* Dropping the server has the same effect: the listener takes the drop of its
\* signaler for a signal.
EndService ==
    /\ exists
    /\ exists' = FALSE
    /\ IF provider THEN Terminate ELSE UNCHANGED vars
    /\ UNCHANGED <<kept, routes, awaited>>

-----------------------------------------------------------------------------
(* The service *)

\* Every sender of the queue of p was dropped
Unfed(p) == p \notin kept /\ (p \in routes => router = "ended")

\* The closure can only answer with a channel it owns
RoutesOwned == \A c \in Conns : assigned'[c] \in routes \cup {NoProc}

TakeNewOwned == TakeNew /\ RoutesOwned
TakeReturnedOwned == TakeReturned /\ RoutesOwned
FeedRouter == Feed /\ router # "ended"

\* `BUG!': the listener breaks out of its loop
FeedNobody ==
    /\ listener = "feeding" /\ router = "ended"
    /\ listener' = "stopped"
    /\ incoming' = NoConn
    /\ stage' = [stage EXCEPT ![incoming] = "lost"]
    /\ UNCHANGED <<provider, signalled, routerVars, loopVars, channels, assigned,
                   closed, connects, disconnects>>

\* recv() on the returned connections answers None: no processor can return any.
\* New connections are left unread.
EndRoutingUnused ==
    /\ router = "selecting"
    /\ ~exists /\ retConns = <<>>
    /\ \A p \in Spawned : loop[p] = "ended"
    /\ \A c \in Conns : stage[c] \notin {"dialog", "returning"}
    /\ router' = "ended"
    /\ newConns' = <<>>
    /\ stage' = [c \in Conns |-> IF stage[c] = "new" THEN "lost" ELSE stage[c]]
    /\ UNCHANGED <<listenerVars, inHand, loopVars, queue, retConns, assigned, closed,
                   connects, disconnects>>

\* Mutant: ends with the closure, whatever is still in the queue
EndLoopAbandoning(p) ==
    /\ loop[p] = "receiving" /\ Unfed(p)
    /\ loop' = [loop EXCEPT ![p] = "terminating"]
    /\ UNCHANGED <<listenerVars, routerVars, arriving, completion, waiter, channels,
                   connVars>>

EndUnfedLoop(p) ==
    /\ loop[p] = "receiving"
    /\ queue[p] = <<>> /\ Unfed(p)
    /\ loop' = [loop EXCEPT ![p] = "terminating"]
    /\ UNCHANGED <<listenerVars, routerVars, arriving, completion, waiter, channels,
                   connVars>>

AwaitedEnded ==
    /\ waiter = "waiting"
    /\ \A p \in awaited : completion[p]
    /\ waiter' = "done"
    /\ UNCHANGED <<listenerVars, routerVars, loop, arriving, completion, channels,
                   connVars>>

Over ==
    /\ ~exists /\ kept = {}
    /\ waiter # "waiting"
    /\ \A p \in Spawned : loop[p] = "ended"
    /\ \A c \in Conns : stage[c] \in Unowned
    /\ UNCHANGED allVars

Program ==
    \/ \E p \in Procs : SpawnProcessor(p) \/ DropChannel(p)
    \/ \E owned \in SUBSET kept : Start(owned) \/ StartFails(owned)
    \/ TakeWaiter
    \/ EndService

Service ==
    \/ \E c \in Conns : Accept(c) \/ Task(c)
    \/ FeedRouter \/ FeedNobody \/ StopListening
    \/ TakeNewOwned \/ TakeReturnedOwned \/ Route \/ Disconnect \/ EndRouting
    \/ EndRoutingUnused
    \/ \E p \in Procs :
        Arrive(p) \/ RefuseUnknownPeer(p) \/ SpawnDialog(p) \/ EndUnfedLoop(p)
            \/ SignalCompletion(p)
    \/ AwaitedEnded

SetupNext == Program \/ (Service /\ UNCHANGED setupVars) \/ Over

(***************************************************************************)
(* Tokio schedules every ready task: weak fairness of each task's steps.   *)
(* tokio::select! picks among ready branches at random, and senders of a   *)
(* full channel are queued in order: strong fairness for these.  Nothing   *)
(* obliges remote parties to connect, dialogs to end or the program to     *)
(* call anything; user callbacks are assumed to return.                    *)
(***************************************************************************)
SetupFairness ==
    /\ WF_vars(FeedRouter) /\ WF_vars(FeedNobody) /\ SF_vars(StopListening)
    /\ SF_vars(TakeNewOwned) /\ SF_vars(TakeReturnedOwned)
    /\ SF_vars(EndRouting \/ EndRoutingUnused)
    /\ WF_vars(Route) /\ WF_vars(Disconnect)
    /\ \A p \in Procs :
        /\ WF_vars(Arrive(p) \/ RefuseUnknownPeer(p)) /\ WF_vars(SpawnDialog(p))
        /\ WF_vars(EndUnfedLoop(p)) /\ WF_vars(SignalCompletion(p))
    /\ \A c \in Conns : SF_vars(HandBack(c)) /\ WF_vars(HandBackFails(c))
    /\ WF_vars(AwaitedEnded)

SetupSpec == New /\ [][SetupNext]_allVars /\ SetupFairness

-----------------------------------------------------------------------------

\* The waiter answers for the whole server: when it returns no processor is left
\* that could still serve connections, nor can one be spawned any more
\* (termination_waiter(), and the expect("BUG!") of spawn_processor()).
WaiterAnswersForAll == waiter = "done" => \A p \in Spawned : loop[p] = "ended"

-----------------------------------------------------------------------------
(* The inductive invariant, to which Consistent of ServerService belongs *)

\* The waiter knows of every processor, and of those that completed
WaiterInformed ==
    /\ waiter # "untaken" => awaited = Spawned
    /\ waiter = "done" => \A p \in awaited : completion[p]
    /\ \A p \in Procs : completion[p] => loop[p] = "ended"

\* Connections are only routed to processors that still wait for them
RoutesServed ==
    /\ router = "unstarted" => listener = "unbound" /\ routes = {}
    /\ kept \cup routes \subseteq Spawned
    /\ \A c \in Conns : assigned[c] \in routes \cup {NoProc}
    /\ \A p \in Procs : loop[p] \in {"terminating", "ended"} =>
        Unfed(p) /\ queue[p] = <<>>

SetupIInv ==
    /\ Consistent
    /\ WaiterInformed
    /\ RoutesServed

-----------------------------------------------------------------------------
\* A server that is over lets its waiter return, whether it was terminated, dropped,
\* never started or failed to start, and however many of its connections are still
\* queued for a full channel -- provided nobody kept a channel to feed a processor by
\* (what ConnectionChannel::clone_sender() warns of).
WaiterReturnsInTheEnd == (waiter = "waiting" /\ ~exists /\ kept = {}) ~> waiter = "done"
=============================================================================
