--------------------------- MODULE ClientService ---------------------------
(***************************************************************************)
(* The composite socket client while and after it is started: its only     *)
(* connection, the "connection routing task", the task of each spawned     *)
(* processor -- which serves the connection once --, the processor's       *)
(* stream executor and the shutdown listener that go with it, the          *)
(* `connected' flag they all share, and the termination protocol: a        *)
(* broadcast to the listeners, one report per processor back to the        *)
(* termination waiter.                                                     *)
(***************************************************************************)
EXTENDS Naturals, FiniteSets

CONSTANTS
    Procs,       \* spawned protocol processors
    NoProc,      \* Option::None of what the routing closure answers
    RouteNew,    \* what the routing closure may answer for the new connection
    RouteReused  \* ... and for one handed back by a processor

ASSUME ClientAssumption ==
    /\ IsFiniteSet(Procs) /\ Procs # {}
    /\ NoProc \notin Procs
    /\ RouteNew \subseteq Procs \cup {NoProc}
    /\ RouteReused \subseteq Procs \cup {NoProc}

VARIABLES
    router,      \* "connecting" (start), then the routing task: "opened",
                 \* "receiving", "sending", "dropping", "ended"
    conn,        \* who has the connection: "none" yet, "router", "queue",
                 \* "task", "returned", or it is "disconnected" or "lost"
    target,      \* the processor it was last routed to
    closed,      \* SocketConnection::closed
    connects,    \* number of ConnectionEvent::Connected issued
    disconnects, \* number of ConnectionEvent::Disconnected issued
    task,        \* task[p]: "waiting", "arriving", "dialog", "closing",
                 \* "returning", "leaving", "ended"
    hook,        \* hook["executor"][p], hook["listener"][p]: what is left to do
                 \* at the end of the stream, and when the client terminates
    peerClosed,  \* peerClosed[p]: the outgoing channel of p's Peer was closed
    connected,   \* CompositeSocketClient::connected
    terminated,  \* terminate() was called, and the client consumed
    notice,      \* notice[p]: p's subscription to the termination broadcast
    reporter,    \* reporter[p]: p's termination report was not yet taken
    reports,     \* reports in the "termination is complete" channel
    latch,       \* reports the termination waiter still waits for
    waiter       \* who has the receiver of the reports: "kept" by the client,
                 \* "taken" by a future nobody polls yet, "awaited"; or the
                 \* waiter returned "ok" or "err", or the receiver was "dropped"

routerVars == <<router, target, connects, disconnects>>
taskVars   == <<task, peerClosed>>
hookVars   == <<hook, connected, reporter>>
endVars    == <<terminated, notice>>
waitVars   == <<reports, latch, waiter>>
vars == <<conn, closed, routerVars, taskVars, hookVars, endVars, waitVars>>

Roles == {"executor", "listener"}

\* The receiver of the reports is still there
Listening == {"kept", "taken", "awaited"}

TypeOK ==
    /\ router \in {"connecting", "opened", "receiving", "sending", "dropping", "ended"}
    /\ conn \in {"none", "router", "queue", "task", "returned", "disconnected", "lost"}
    /\ target \in Procs \cup {NoProc}
    /\ closed \in BOOLEAN
    /\ connects \in Nat /\ disconnects \in Nat
    /\ task \in [Procs -> {"waiting", "arriving", "dialog", "closing",
                           "returning", "leaving", "ended"}]
    /\ hook \in [Roles -> [Procs -> {"off", "armed", "ending", "callback",
                                     "reporting", "flushing", "done"}]]
    /\ peerClosed \in [Procs -> BOOLEAN]
    /\ connected \in BOOLEAN
    /\ terminated \in BOOLEAN
    /\ notice \in [Procs -> {"none", "subscribed", "sent"}]
    /\ reporter \in [Procs -> BOOLEAN]
    /\ reports \in 0 .. 1
    /\ latch \in Nat
    /\ waiter \in Listening \cup {"ok", "err", "dropped"}

\* Every processor was spawned, and start_multi_protocol() called; latch is what
\* a waiter taken from now on counts
Init ==
    /\ router = "connecting"
    /\ conn = "none"
    /\ target = NoProc
    /\ closed = FALSE
    /\ connects = 0 /\ disconnects = 0
    /\ task = [p \in Procs |-> "waiting"]
    /\ hook = [r \in Roles |-> [p \in Procs |-> "off"]]
    /\ peerClosed = [p \in Procs |-> FALSE]
    /\ connected = FALSE
    /\ terminated = FALSE
    /\ notice = [p \in Procs |-> "none"]
    /\ reporter = [p \in Procs |-> TRUE]
    /\ reports = 0
    /\ latch = Cardinality(Procs)
    /\ waiter = "kept"

-----------------------------------------------------------------------------
(* Start, and the connection routing task *)

Connect ==
    /\ router = "connecting"
    /\ router' = "opened"
    /\ conn' = "router"
    /\ UNCHANGED <<closed, target, connects, disconnects, taskVars, hookVars,
                   endVars, waitVars>>

\* connect_retryable(), see ConnectRetries, gave up: the routing closure is dropped
ConnectFails ==
    /\ router = "connecting"
    /\ router' = "ended"
    /\ UNCHANGED <<conn, closed, target, connects, disconnects, taskVars, hookVars,
                   endVars, waitVars>>

\* The closure's verdict: p is one of the processors, or NoProc
RouteTo(p) ==
    /\ target' = p
    /\ router' = IF p = NoProc THEN "dropping" ELSE "sending"
    /\ conn' = "router"

\* the just opened connection, once
RouteFresh ==
    /\ router = "opened"
    /\ connects' = connects + 1
    /\ \E p \in RouteNew : RouteTo(p)
    /\ UNCHANGED <<closed, disconnects, taskVars, hookVars, endVars, waitVars>>

\* Mutant: reuses a connection that was reported closed
ReturnedVerdictsOfAll == RouteReused

\* Mutant: a closed connection gets no verdict at all
ReturnedVerdictsHoldingClosed == IF closed THEN {} ELSE RouteReused

\* What may come of the connection when it is handed back
ReturnedVerdicts == IF closed THEN {NoProc} ELSE RouteReused

TakeReturned ==
    /\ router = "receiving"
    /\ conn = "returned"
    /\ \E p \in ReturnedVerdicts : RouteTo(p)
    /\ UNCHANGED <<closed, connects, disconnects, taskVars, hookVars, endVars, waitVars>>

\* Mutant: breaks after routing
SendAndBreak ==
    /\ router = "sending"
    /\ task[target] # "ended"
    /\ conn' = "queue"
    /\ router' = "ended"
    /\ UNCHANGED <<closed, target, connects, disconnects, taskVars, hookVars,
                   endVars, waitVars>>

Send ==
    /\ router = "sending"
    /\ task[target] # "ended"
    /\ conn' = "queue"
    /\ router' = "receiving"
    /\ UNCHANGED <<closed, target, connects, disconnects, taskVars, hookVars,
                   endVars, waitVars>>

\* the processor was used before and its receiver is gone: the routing task
\* drops the connection and breaks
SendFails ==
    /\ router = "sending"
    /\ task[target] = "ended"
    /\ conn' = "lost"
    /\ router' = "ended"
    /\ UNCHANGED <<closed, target, connects, disconnects, taskVars, hookVars,
                   endVars, waitVars>>

\* issues Disconnected, shuts the socket down and breaks
Disconnect ==
    /\ router = "dropping"
    /\ disconnects' = disconnects + 1
    /\ conn' = "disconnected"
    /\ router' = "ended"
    /\ UNCHANGED <<closed, target, connects, taskVars, hookVars, endVars, waitVars>>

\* recv() answers None: the client and every processor task dropped their sinks
EndRouting ==
    /\ router = "receiving"
    /\ conn # "returned"
    /\ terminated
    /\ \A p \in Procs : task[p] = "ended"
    /\ router' = "ended"
    /\ UNCHANGED <<conn, closed, target, connects, disconnects, taskVars, hookVars,
                   endVars, waitVars>>

-----------------------------------------------------------------------------
(* The task of a processor, and its dialog *)

\* Mutant: PeerArrived does not set `connected'
ArriveUntracked(p) ==
    /\ task[p] = "waiting"
    /\ conn = "queue" /\ target = p
    /\ conn' = "task"
    /\ task' = [task EXCEPT ![p] = "arriving"]
    /\ notice' = [notice EXCEPT ![p] = "subscribed"]
    /\ UNCHANGED <<closed, routerVars, peerClosed, hookVars, terminated, waitVars>>

\* the connection is received, the termination broadcast subscribed and the
\* PeerArrived callback issued
Arrive(p) ==
    /\ task[p] = "waiting"
    /\ conn = "queue" /\ target = p
    /\ conn' = "task"
    /\ task' = [task EXCEPT ![p] = "arriving"]
    /\ notice' = [notice EXCEPT ![p] = "subscribed"]
    /\ connected' = TRUE
    /\ UNCHANGED <<closed, routerVars, peerClosed, hook, reporter, terminated, waitVars>>

\* the address of the peer cannot be determined
RefuseUnknownPeer(p) ==
    /\ task[p] = "waiting"
    /\ conn = "queue" /\ target = p
    /\ conn' = "lost"
    /\ task' = [task EXCEPT ![p] = "ended"]
    /\ UNCHANGED <<closed, routerVars, peerClosed, hookVars, endVars, waitVars>>

\* the callback returned: the executor and the shutdown listener are spawned
StartDialog(p) ==
    /\ task[p] = "arriving"
    /\ task' = [task EXCEPT ![p] = "dialog"]
    /\ hook' = [r \in Roles |-> [hook[r] EXCEPT ![p] = "armed"]]
    /\ UNCHANGED <<conn, closed, routerVars, peerClosed, connected, reporter,
                   endVars, waitVars>>

\* The dialog is over, by the remote (isClosed) or because the peer's outgoing
\* stream ended; the channel to the processor is then closed
BreakDialog(p, isClosed) ==
    /\ task[p] = "dialog"
    /\ task' = [task EXCEPT ![p] = "closing"]
    /\ closed' = (closed \/ isClosed)
    /\ hook' = [hook EXCEPT !["executor"][p] = IF @ = "armed" THEN "ending" ELSE @]
    /\ UNCHANGED <<conn, routerVars, peerClosed, connected, reporter, endVars, waitVars>>

\* ... and the task goes on, cancelling the outgoing channel, when the stream ended or the flush timeout elapsed
CloseProcessor(p) ==
    /\ task[p] = "closing"
    /\ task' = [task EXCEPT ![p] = "returning"]
    /\ peerClosed' = [peerClosed EXCEPT ![p] = TRUE]
    /\ UNCHANGED <<conn, closed, routerVars, hookVars, endVars, waitVars>>

\* an error before the dialog started, or in the final socket flush: the
\* connection is dropped (and the channel to the processor may be left open)
FailDialog(p) ==
    /\ task[p] \in {"dialog", "closing"}
    /\ task' = [task EXCEPT ![p] = "ended"]
    /\ peerClosed' = [peerClosed EXCEPT ![p] = @ \/ task[p] = "closing"]
    /\ conn' = "lost"
    /\ UNCHANGED <<closed, routerVars, hookVars, endVars, waitVars>>

HandBack(p) ==
    /\ task[p] = "returning"
    /\ conn' = "returned"
    /\ task' = [task EXCEPT ![p] = "leaving"]
    /\ UNCHANGED <<closed, routerVars, peerClosed, hookVars, endVars, waitVars>>

\* The task ends, and with it the receiver of its channel and what it holds
EndTask(p) ==
    /\ task[p] = "leaving"
    /\ task' = [task EXCEPT ![p] = "ended"]
    /\ conn' = IF conn = "queue" /\ target = p THEN "lost" ELSE conn
    /\ UNCHANGED <<closed, routerVars, peerClosed, hookVars, endVars, waitVars>>

\* recv() answers None: the routing closure owned the senders
EndUnused(p) ==
    /\ task[p] = "waiting"
    /\ router = "ended"
    /\ task' = [task EXCEPT ![p] = "ended"]
    /\ UNCHANGED <<conn, closed, routerVars, peerClosed, hookVars, endVars, waitVars>>

-----------------------------------------------------------------------------
(* The executor of the processor's stream and the shutdown listener *)

\* The processor's stream is over -- because its channel was closed, or by its
\* own logic: PeerLeft is issued, and `connected' reset first of all
PeerLeft(p) ==
    /\ hook["executor"][p] \in {"armed", "ending"}
    /\ hook' = [hook EXCEPT !["executor"][p] = "callback"]
    /\ connected' = FALSE
    /\ UNCHANGED <<conn, closed, routerVars, taskVars, reporter, endVars, waitVars>>

\* Every sender of the termination broadcast was dropped: the client's own and
\* the clones of the processors that never subscribed
BroadcastClosed == terminated /\ \A p \in Procs : task[p] # "waiting"

\* Mutant: the listener does not issue LocalServiceTermination
HearTerminationQuietly(p) ==
    /\ hook["listener"][p] = "armed"
    /\ notice[p] = "sent" \/ BroadcastClosed
    /\ hook' = [hook EXCEPT !["listener"][p] = "flushing"]
    /\ UNCHANGED <<conn, closed, routerVars, taskVars, connected, reporter,
                   endVars, waitVars>>

\* The broadcast was received, or its senders are gone: LocalServiceTermination
HearTermination(p) ==
    /\ hook["listener"][p] = "armed"
    /\ notice[p] = "sent" \/ BroadcastClosed
    /\ hook' = [hook EXCEPT !["listener"][p] = "callback"]
    /\ UNCHANGED <<conn, closed, routerVars, taskVars, connected, reporter,
                   endVars, waitVars>>

\* Mutant: the report's sender is copied, not taken
TakeReporterCopy(r, p) ==
    /\ hook[r][p] = "callback"
    /\ hook' = [hook EXCEPT ![r][p] = IF reporter[p] THEN "reporting" ELSE "flushing"]
    /\ UNCHANGED <<conn, closed, routerVars, taskVars, connected, reporter, endVars,
                   waitVars>>

\* Mutant: the second of both waits for a sender that is gone
TakeReporterWaiting(r, p) ==
    /\ hook[r][p] = "callback" /\ reporter[p]
    /\ hook' = [hook EXCEPT ![r][p] = "reporting"]
    /\ reporter' = [reporter EXCEPT ![p] = FALSE]
    /\ UNCHANGED <<conn, closed, routerVars, taskVars, connected, endVars, waitVars>>

\* report_service_termination(): the first of both takes the report's sender
TakeReporter(r, p) ==
    /\ hook[r][p] = "callback"
    /\ hook' = [hook EXCEPT ![r][p] = IF reporter[p] THEN "reporting" ELSE "flushing"]
    /\ reporter' = [reporter EXCEPT ![p] = FALSE]
    /\ UNCHANGED <<conn, closed, routerVars, taskVars, connected, endVars, waitVars>>

\* Mutant: does not wait for room in the channel
ReportAtOnce(r, p) ==
    /\ hook[r][p] = "reporting"
    /\ waiter \in Listening
    /\ reports' = reports + 1
    /\ hook' = [hook EXCEPT ![r][p] = "flushing"]
    /\ UNCHANGED <<conn, closed, routerVars, taskVars, connected, reporter, endVars,
                   latch, waiter>>

\* The channel has room for one report, whether or not anybody reads it
Report(r, p) ==
    /\ hook[r][p] = "reporting"
    /\ waiter \in Listening
    /\ reports = 0
    /\ reports' = 1
    /\ hook' = [hook EXCEPT ![r][p] = "flushing"]
    /\ UNCHANGED <<conn, closed, routerVars, taskVars, connected, reporter, endVars,
                   latch, waiter>>

\* The receiver is gone: "Socket Client BUG", and the callback goes on
ReportFails(r, p) ==
    /\ hook[r][p] = "reporting"
    /\ waiter \notin Listening
    /\ hook' = [hook EXCEPT ![r][p] = "flushing"]
    /\ UNCHANGED <<conn, closed, routerVars, taskVars, connected, reporter, endVars,
                   waitVars>>

\* Mutants: only one of both closes the peer
ClosePeerAtStreamEnd(r, p) ==
    /\ hook[r][p] = "flushing"
    /\ hook' = [hook EXCEPT ![r][p] = "done"]
    /\ peerClosed' = [peerClosed EXCEPT ![p] = @ \/ r = "executor"]
    /\ UNCHANGED <<conn, closed, routerVars, task, connected, reporter, endVars, waitVars>>

ClosePeerAtTermination(r, p) ==
    /\ hook[r][p] = "flushing"
    /\ hook' = [hook EXCEPT ![r][p] = "done"]
    /\ peerClosed' = [peerClosed EXCEPT ![p] = @ \/ r = "listener"]
    /\ UNCHANGED <<conn, closed, routerVars, task, connected, reporter, endVars, waitVars>>

\* peer.flush_and_close()
ClosePeer(r, p) ==
    /\ hook[r][p] = "flushing"
    /\ hook' = [hook EXCEPT ![r][p] = "done"]
    /\ peerClosed' = [peerClosed EXCEPT ![p] = TRUE]
    /\ UNCHANGED <<conn, closed, routerVars, task, connected, reporter, endVars, waitVars>>

-----------------------------------------------------------------------------
(* Termination *)

\* The receiver of the reports goes, with what it did not read and what it counted
DropReceiver ==
    /\ waiter' = "dropped"
    /\ reports' = 0
    /\ latch' = 0

\* terminate() consumes the client, which start_multi_protocol() borrows: what it
\* still keeps is dropped
Terminate ==
    /\ router # "connecting"
    /\ ~terminated
    /\ terminated' = TRUE
    /\ notice' = [p \in Procs |-> IF notice[p] = "subscribed" THEN "sent" ELSE notice[p]]
    /\ IF waiter = "kept" THEN DropReceiver ELSE UNCHANGED waitVars
    /\ UNCHANGED <<conn, closed, routerVars, taskVars, hookVars>>

\* The program calls termination_waiter(), before the start or after it, or never
TakeWaiter ==
    /\ waiter = "kept" /\ ~terminated
    /\ waiter' = "taken"
    /\ UNCHANGED <<conn, closed, routerVars, taskVars, hookVars, endVars, reports, latch>>

\* ... awaits the future it got, or never does
AwaitWaiter ==
    /\ waiter = "taken"
    /\ waiter' = "awaited"
    /\ UNCHANGED <<conn, closed, routerVars, taskVars, hookVars, endVars, reports, latch>>

\* ... and may drop it, as a timeout does
DropWaiter ==
    /\ waiter \in {"taken", "awaited"}
    /\ DropReceiver
    /\ UNCHANGED <<conn, closed, routerVars, taskVars, hookVars, endVars>>

\* Mutant: returns one report early
WaiterCountsFewer ==
    /\ waiter = "awaited"
    /\ reports = 1
    /\ reports' = 0
    /\ latch' = latch - 1
    /\ waiter' = IF latch <= 2 THEN "ok" ELSE "awaited"
    /\ UNCHANGED <<conn, closed, routerVars, taskVars, hookVars, endVars>>

WaiterCounts ==
    /\ waiter = "awaited"
    /\ reports = 1
    /\ reports' = 0
    /\ latch' = latch - 1
    /\ waiter' = IF latch = 1 THEN "ok" ELSE "awaited"
    /\ UNCHANGED <<conn, closed, routerVars, taskVars, hookVars, endVars>>

\* Somebody may still send the report of p
MayReport(p) ==
    \/ \E r \in Roles : hook[r][p] = "reporting"
    \/ /\ reporter[p]
       /\ \/ task[p] \in {"waiting", "arriving"}
          \/ \E r \in Roles : hook[r][p] \in {"armed", "ending", "callback"}

\* "It is no longer possible to tell when the client will be terminated"
WaiterGivesUp ==
    /\ waiter = "awaited"
    /\ reports = 0
    /\ terminated /\ \A p \in Procs : ~MayReport(p)
    /\ waiter' = "err"
    /\ UNCHANGED <<conn, closed, routerVars, taskVars, hookVars, endVars, reports, latch>>

-----------------------------------------------------------------------------
\* A client that was terminated may only stop when nothing is left of it
Stopped ==
    /\ terminated
    /\ conn \in {"none", "disconnected", "lost"}
    /\ UNCHANGED vars

Start == Connect \/ ConnectFails
Router == RouteFresh \/ TakeReturned \/ Send \/ SendFails \/ Disconnect \/ EndRouting
Task(p) ==
    \/ Arrive(p) \/ RefuseUnknownPeer(p) \/ StartDialog(p)
    \/ \E isClosed \in BOOLEAN : BreakDialog(p, isClosed)
    \/ CloseProcessor(p) \/ FailDialog(p) \/ HandBack(p) \/ EndTask(p) \/ EndUnused(p)
Hook(r, p) ==
    TakeReporter(r, p) \/ Report(r, p) \/ ReportFails(r, p) \/ ClosePeer(r, p)

\* Everything but the connection attempt
Started ==
    \/ Router
    \/ \E p \in Procs :
        \/ Task(p) \/ PeerLeft(p) \/ HearTermination(p)
        \/ \E r \in Roles : Hook(r, p)
    \/ Terminate
    \/ TakeWaiter \/ AwaitWaiter \/ DropWaiter \/ WaiterCounts \/ WaiterGivesUp
    \/ Stopped

Next == Start \/ Started

Spec == Init /\ [][Next]_vars

(***************************************************************************)
(* Every task that can go on does.  The dialog must notice that its peer's *)
(* outgoing stream ended (its writes are assumed to complete), and the     *)
(* executor that its channel was closed; user callbacks return.  Nothing   *)
(* makes the remote party leave, a stream end by itself, nor the program   *)
(* call terminate(), take the waiter or await it: the waiter is only fair  *)
(* while it is awaited.  Connecting either succeeds or is given up.        *)
(***************************************************************************)
TaskGoesOn(p) ==
    \/ Arrive(p) \/ RefuseUnknownPeer(p) \/ StartDialog(p)
    \/ peerClosed[p] /\ \E isClosed \in BOOLEAN : BreakDialog(p, isClosed)
    \/ CloseProcessor(p) \/ HandBack(p) \/ EndTask(p) \/ EndUnused(p)

ExecutorGoesOn(p) ==
    (hook["executor"][p] = "ending" /\ PeerLeft(p)) \/ Hook("executor", p)
ListenerGoesOn(p) == HearTermination(p) \/ Hook("listener", p)

Fairness ==
    /\ WF_vars(Start \/ Router)
    /\ \A p \in Procs : /\ WF_vars(TaskGoesOn(p))
                         /\ WF_vars(ExecutorGoesOn(p))
                         /\ WF_vars(ListenerGoesOn(p))
    /\ WF_vars(WaiterCounts \/ WaiterGivesUp)

FairSpec == Spec /\ Fairness
-----------------------------------------------------------------------------
(* Safety *)

\* The reports p is about to send
Reporting == {h \in Roles \X Procs : hook[h[1]][h[2]] = "reporting"}

\* PeerLeft and LocalServiceTermination race to report the end of a processor,
\* yet each processor reports once: as long as the receiver is there, what a
\* waiter has to wait for is exactly what is in the channel, being sent, or not
\* taken yet; and no report finds the receiver gone ("Socket Client BUG" in the
\* code) because the waiter returned -- only because it was dropped.
EveryReportCounts ==
    /\ waiter \in Listening => latch = reports + Cardinality(Reporting)
                                         + Cardinality({p \in Procs : reporter[p]})
    /\ waiter \notin Listening => reports = 0
    /\ waiter \in {"ok", "err"} => Reporting = {}

\* When the waiter returns Ok, every processor has issued its last event.
OkMeansAllReported ==
    waiter = "ok" => \A p \in Procs : \E r \in Roles : hook[r][p] \in {"flushing", "done"}

\* A connection in the hands of a processor can be handed back: the routing
\* task still waits for it, and the channel (of one) has room.
ReturnNeverFails ==
    (\E p \in Procs : task[p] \in {"arriving", "dialog", "closing", "returning"}) =>
        conn = "task" /\ router = "receiving"

\* What the comments of `connected' and is_connected() say: while a dialog is
\* going on and its stream did not end, the client is connected.
ConnectedInDialog ==
    \A p \in Procs : (task[p] = "dialog" /\ hook["executor"][p] = "armed") => connected

-----------------------------------------------------------------------------
(* Inductive invariant: the parts whose conjunction every step preserves *)

Active == {p \in Procs : task[p] \in {"arriving", "dialog", "closing", "returning"}}

\* Who has the connection tells what the routing task and the processors are doing,
\* and conversely
Custody ==
    /\ router = "connecting" => conn = "none" /\ \A p \in Procs : task[p] = "waiting"
    /\ conn = "none" <=> router = "connecting" \/ (router = "ended" /\ connects = 0)
    /\ conn = "router" <=> router \in {"opened", "sending", "dropping"}
    /\ router = "sending" => target \in Procs
    /\ conn \in {"queue", "task", "returned"} => router = "receiving"
    /\ conn = "queue" => target \in Procs /\ task[target] \in {"waiting", "leaving"}
    /\ conn = "task" => target \in Active
    /\ Active # {} => conn = "task" /\ Active = {target}

\* Connected is issued before the connection is routed, Disconnected when it is over;
\* a closed connection is on its way back, or over
EventsInOrder ==
    /\ connects = IF router = "opened" \/ conn = "none" THEN 0 ELSE 1
    /\ disconnects = IF conn = "disconnected" THEN 1 ELSE 0
    /\ closed => /\ conn \notin {"none", "queue"} /\ router \notin {"opened", "sending"}
                 /\ conn = "task" => task[target] \notin {"arriving", "dialog"}

\* The hooks of a processor are armed with its dialog, and its report is taken by one of them
HooksFollowTask ==
    \A p \in Procs :
        /\ task[p] \in {"waiting", "arriving"} => \A r \in Roles : hook[r][p] = "off"
        /\ ~reporter[p] => \E r \in Roles : hook[r][p] \in {"reporting", "flushing", "done"}

\* Nobody reports to a waiter that returned
WaiterLeavesNobody ==
    /\ waiter = "ok" => \A p \in Procs : ~reporter[p]
    /\ waiter = "err" => \A p \in Procs : ~MayReport(p)

IInv ==
    /\ TypeOK
    /\ Custody
    /\ EventsInOrder
    /\ HooksFollowTask
    /\ EveryReportCounts
    /\ WaiterLeavesNobody

-----------------------------------------------------------------------------
(* Refinement: the client is a service with a single connection *)

Connection == {"the connection"}
Phase == [c \in Connection |->
            CASE conn = "none" -> "unopened"
              [] conn \in {"disconnected", "lost"} -> "gone"
              [] conn = "task" /\ task[target] = "dialog" -> "served"
              [] OTHER -> "held"]
Dead == {c \in Connection : closed}
Announced == {c \in Connection : connects > 0}
Reported == {c \in Connection : disconnects > 0}

Life == INSTANCE ConnectionLife WITH
    Conns <- Connection,
    phase <- Phase, dead <- Dead, announced <- Announced, reported <- Reported

\* The client keeps the promise of ConnectionLife
KeepsPromise == Life!Spec

-----------------------------------------------------------------------------
(* Liveness *)

\* The channel of one report is full, and the program does not await the waiter:
\* for as long as that lasts the next report blocks the callback that sends it
Unread == reports = 1 /\ waiter \in {"kept", "taken"}

\* The end of a processor's stream ends its dialog, which hands the connection
\* over: PeerLeft closes the peer, and with it the stream the dialog reads --
\* unless PeerLeft is left reporting to a program that does not read reports.
StreamEndEndsDialog ==
    <>[](\A p \in Procs :
            \/ hook["executor"][p] \in {"off", "armed"}
            \/ task[p] = "ended"
            \/ hook["executor"][p] = "reporting" /\ Unread)

\* Every event's callback runs to its end: the lock on the report's sender
\* blocks neither PeerLeft nor LocalServiceTermination for good, whatever the
\* order they come in, and the channel of one report does so only while the
\* program keeps the waiter without awaiting it.
EventsComplete ==
    <>[](\A r \in Roles, p \in Procs :
            \/ hook[r][p] \in {"off", "armed", "done"}
            \/ hook[r][p] = "reporting" /\ Unread)

\* Disconnected follows when a closed connection is handed back -- also while
\* the client is being terminated.
ClosedIsReported == (closed /\ conn = "returned") ~> disconnects = 1

\* terminate() ends the connection.
TerminationIsHeard == terminated ~> conn \in {"none", "disconnected", "lost"}

\* terminate() makes a termination waiter that is awaited return.
TerminationCompletes == (terminated /\ waiter = "awaited") ~> waiter # "awaited"
============================================================================
