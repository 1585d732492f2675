--------------------------- MODULE DialogSession ---------------------------
(***************************************************************************)
(* One dialog between the local processor and a remote peer, from the      *)
(* spawning of the processor to the moment the connection is handed back:  *)
(* dialog_loop() reads messages and relays them to the processor's         *)
(* channel, and writes what the processor left in the peer's channel.      *)
(* Both channels are bounded, one task serves both directions, and the     *)
(* processor answers from its own task (to_responsive_stream()).  Messages *)
(* are numbers, in the order the remote sent them; how bytes become        *)
(* messages is left to the framing of each kind of dialog.                 *)
(***************************************************************************)
EXTENDS Naturals, Sequences, SequencesExt

CONSTANTS
    Messages,       \* how many messages the remote may send
    Unknown,        \* those that cannot be deserialized
    ReceiverSize,   \* capacity of the processor's channel
    SenderSize,     \* capacity of the peer's channel
    SocketRoom      \* what the socket takes while the remote does not read

ASSUME SessionAssumption ==
    /\ Messages \in Nat
    /\ Unknown \subseteq 1..Messages
    /\ ReceiverSize \in Nat \ {0}
    /\ SenderSize \in Nat \ {0}
    /\ SocketRoom \in Nat \ {0}

VARIABLES
    strategy,   \* the retrying strategy of the configuration
    informs,    \* does processor_error_message() give a message to send?
    sent,       \* messages the remote sent
    remoteOpen, \* the remote did not leave
    socket,     \* messages written that the remote did not read yet
    dialog,     \* program counter of dialog_loop()
    read,       \* messages read from the socket
    handled,    \* ... and relayed, refused or found unknown
    abort,      \* the error the peer is being informed of ends the dialog
    closed,     \* SocketConnection::closed
    inbox,      \* the processor's channel
    inboxOpen,  \* its stream was not told to end
    processor,  \* program counter of the task that executes the processor's stream
    outbox,     \* the peer's channel
    outOpen,    \* its stream was not told to end
    peerState,  \* Peer::state
    connState,  \* SocketConnection::state
    \* history
    taken,      \* messages the processor consumed, in order
    aborted,    \* an answer was refused, and the strategy says to abort
    due,        \* the processor set a state before its peer was closed
    forced      \* some wait timed out, or a channel was cancelled

remoteVars == <<sent, remoteOpen>>
inVars == <<inbox, inboxOpen>>
outVars == <<outbox, outOpen>>
stateVars == <<peerState, connState, due>>
config == <<strategy, informs>>
vars == <<config, remoteVars, socket, dialog, read, handled, abort, closed, inVars,
          processor, outVars, stateVars, taken, aborted, forced>>

Strategies == {"DoNotRetry", "EndCommunications", "Retry"}
Over == {"returned", "failed"}

TypeOK ==
    /\ strategy \in Strategies /\ informs \in BOOLEAN
    /\ sent \in 0..Messages /\ read \in 0..sent /\ handled \in 0..read
    /\ socket \in 0..SocketRoom
    /\ remoteOpen \in BOOLEAN /\ abort \in BOOLEAN /\ closed \in BOOLEAN
    /\ inboxOpen \in BOOLEAN /\ outOpen \in BOOLEAN
    /\ aborted \in BOOLEAN /\ due \in BOOLEAN /\ forced \in BOOLEAN
    /\ dialog \in {"starting", "select", "writing", "relaying", "informing",
                   "closing", "ending", "flushing"} \cup Over
    /\ processor \in {"consuming", "answering", "aborting", "leaving", "flushing", "done"}
    /\ inbox \in Seq(1..Messages) /\ Len(inbox) <= ReceiverSize
    /\ outbox \in Seq({"answer", "error"}) /\ Len(outbox) <= SenderSize
    /\ peerState \in {"inherited", "set", "taken"}
    /\ connState \in {"inherited", "set"}
    /\ taken \in Seq(1..Messages)

\* The peer gets a copy of the connection's state
Init ==
    /\ strategy \in Strategies
    /\ informs \in BOOLEAN
    /\ sent = 0 /\ read = 0 /\ handled = 0 /\ socket = 0
    /\ remoteOpen = TRUE
    /\ dialog = "starting"
    /\ abort = FALSE /\ closed = FALSE
    /\ inbox = <<>> /\ inboxOpen = TRUE
    /\ outbox = <<>> /\ outOpen = TRUE
    /\ processor = "consuming"
    /\ peerState = "inherited" /\ connState = "inherited"
    /\ taken = <<>>
    /\ aborted = FALSE /\ due = FALSE /\ forced = FALSE

-----------------------------------------------------------------------------
(* The remote peer: it may stop reading, or leave, whenever it wants *)

RemoteSends ==
    /\ remoteOpen /\ sent < Messages
    /\ sent' = sent + 1
    /\ UNCHANGED <<config, remoteOpen, socket, dialog, read, handled, abort, closed,
                   inVars, processor, outVars, stateVars, taken, aborted, forced>>

RemoteReads ==
    /\ remoteOpen /\ socket > 0
    /\ socket' = socket - 1
    /\ UNCHANGED <<config, remoteVars, dialog, read, handled, abort, closed,
                   inVars, processor, outVars, stateVars, taken, aborted, forced>>

RemoteLeaves ==
    /\ remoteOpen
    /\ remoteOpen' = FALSE
    /\ UNCHANGED <<config, sent, socket, dialog, read, handled, abort, closed,
                   inVars, processor, outVars, stateVars, taken, aborted, forced>>

Remote == RemoteSends \/ RemoteReads \/ RemoteLeaves

-----------------------------------------------------------------------------
(* dialog_loop() *)

\* A step of the dialog that only moves on to another one
Goto(from, to) ==
    /\ dialog = from
    /\ dialog' = to
    /\ UNCHANGED <<config, remoteVars, socket, read, handled, abort, inVars, processor,
                   outVars, stateVars, taken, aborted, forced>>

Start == Goto("starting", "select") /\ UNCHANGED closed

\* A socket option is refused: an error is answered and nothing is closed
StartFails == Goto("starting", "failed") /\ UNCHANGED closed

\* break 'connection, with or without report_closed()
Break(from) == Goto(from, "closing") /\ UNCHANGED closed
BreakClosed(from) == Goto(from, "closing") /\ closed' = TRUE

\* select!, biased: what there is to send goes first
TakeOutgoing ==
    /\ dialog = "select" /\ outbox # <<>>
    /\ outbox' = Tail(outbox)
    /\ dialog' = "writing"
    /\ UNCHANGED <<config, remoteVars, socket, read, handled, abort, closed, inVars,
                   processor, outOpen, stateVars, taken, aborted, forced>>

\* The peer's stream was told to end: it may still yield what it holds, or not
OutgoingEnded == ~outOpen /\ Break("select")

\* write_all() waits for room in the socket, and for nothing else
Write ==
    /\ dialog = "writing" /\ socket < SocketRoom
    /\ socket' = socket + 1
    /\ dialog' = "select"
    /\ UNCHANGED <<config, remoteVars, read, handled, abort, closed, inVars,
                   processor, outVars, stateVars, taken, aborted, forced>>

WriteFails == ~remoteOpen /\ BreakClosed("writing")

MayRead == dialog = "select" /\ outbox = <<>> /\ outOpen

\* Mutant: an empty read is taken for data
ReadAnything ==
    /\ MayRead
    /\ \E n \in read .. sent : read' = n
    /\ dialog' = "relaying"
    /\ UNCHANGED <<config, remoteVars, socket, handled, abort, closed, inVars,
                   processor, outVars, stateVars, taken, aborted, forced>>

\* One read may bring several messages: all of them are dealt with before the
\* next select!
Read ==
    /\ MayRead
    /\ \E n \in read + 1 .. sent : read' = n
    /\ dialog' = "relaying"
    /\ UNCHANGED <<config, remoteVars, socket, handled, abort, closed, inVars,
                   processor, outVars, stateVars, taken, aborted, forced>>

\* End of file, or an error that discards what was not read
ReadFails == MayRead /\ ~remoteOpen /\ BreakClosed("select")

Handle ==
    /\ handled' = handled + 1
    /\ dialog' = IF handled + 1 = read THEN "select" ELSE "relaying"

\* ReactiveMessagingUniSender::send()
Relay ==
    /\ dialog = "relaying"
    /\ handled + 1 \notin Unknown
    /\ Len(inbox) < ReceiverSize
    /\ inbox' = Append(inbox, handled + 1)
    /\ Handle
    /\ UNCHANGED <<config, remoteVars, socket, read, abort, closed, inboxOpen,
                   processor, outVars, stateVars, taken, aborted, forced>>

\* Mutant: the dialog is ended without report_closed()
TroubledUnreported(ends) ==
    /\ \/ /\ informs
          /\ dialog' = "informing" /\ abort' = ends
          /\ UNCHANGED handled
       \/ /\ ~informs /\ ends
          /\ dialog' = "closing"
          /\ UNCHANGED <<handled, abort>>
       \/ /\ ~informs /\ ~ends
          /\ Handle
          /\ UNCHANGED abort
    /\ UNCHANGED <<config, remoteVars, socket, read, closed, inVars, processor, outVars,
                   stateVars, taken, aborted, forced>>

\* What an error in dealing with a message leads to: the peer may be informed,
\* and the dialog may be ended
Troubled(ends) ==
    /\ \/ /\ informs
          /\ dialog' = "informing" /\ abort' = ends
          /\ UNCHANGED <<handled, closed>>
       \/ /\ ~informs /\ ends
          /\ dialog' = "closing" /\ closed' = TRUE
          /\ UNCHANGED <<handled, abort>>
       \/ /\ ~informs /\ ~ends
          /\ Handle
          /\ UNCHANGED <<abort, closed>>
    /\ UNCHANGED <<config, remoteVars, socket, read, inVars, processor, outVars,
                   stateVars, taken, aborted, forced>>

\* Ends: whether being refused ends the communications.  A strategy that
\* retries gives up in the end, as nothing says the channel will have room.
Ends == strategy # "DoNotRetry"

\* Mutant: the flag that comes with the error is ignored
RelayRefusedIgnored ==
    /\ dialog = "relaying"
    /\ handled + 1 \notin Unknown
    /\ Len(inbox) = ReceiverSize
    /\ Troubled(FALSE)

\* Mutant: retrying has no limit
RelayRetriedForever ==
    /\ dialog = "relaying"
    /\ handled + 1 \notin Unknown
    /\ Len(inbox) = ReceiverSize
    /\ strategy # "Retry"
    /\ Troubled(Ends)

RelayRefused ==
    /\ dialog = "relaying"
    /\ handled + 1 \notin Unknown
    /\ Len(inbox) = ReceiverSize
    /\ Troubled(Ends)

FindUnknown ==
    /\ dialog = "relaying"
    /\ handled + 1 \in Unknown
    /\ Troubled(FALSE)

\* peer.send_async() of the error message: nobody but the dialog itself could
\* make room for it
Inform ==
    /\ dialog = "informing"
    /\ Len(outbox) < SenderSize
    /\ outbox' = Append(outbox, "error")
    /\ abort' = FALSE
    /\ \/ /\ abort
          /\ dialog' = "closing" /\ closed' = TRUE
          /\ UNCHANGED handled
       \/ /\ ~abort
          /\ Handle
          /\ UNCHANGED closed
    /\ UNCHANGED <<config, remoteVars, socket, read, inVars, processor, outOpen,
                   stateVars, taken, aborted, forced>>

InformRefused ==
    /\ dialog = "informing"
    /\ Len(outbox) = SenderSize
    /\ abort' = FALSE
    /\ \/ /\ abort \/ Ends
          /\ dialog' = "closing" /\ closed' = TRUE
          /\ UNCHANGED handled
       \/ /\ ~abort /\ ~Ends
          /\ Handle
          /\ UNCHANGED closed
    /\ UNCHANGED <<config, remoteVars, socket, read, inVars, processor, outVars,
                   stateVars, taken, aborted, forced>>

\* processor_sender.close(timeout): it waits for the channel to be empty and then for
\* its stream to end ...
EndInput ==
    /\ dialog = "closing"
    /\ inboxOpen' = FALSE
    /\ \/ inbox = <<>> /\ UNCHANGED forced
       \/ inbox # <<>> /\ forced' = TRUE        \* timed out
    /\ dialog' = "ending"
    /\ UNCHANGED <<config, remoteVars, socket, read, handled, abort, closed, inbox,
                   processor, outVars, stateVars, taken, aborted>>

\* ... or goes on without it; then the peer is cancelled
ClosePeer ==
    /\ dialog = "ending"
    /\ outOpen' = FALSE
    /\ forced' = (forced \/ processor \in {"consuming", "answering", "aborting"})
    /\ dialog' = "flushing"
    /\ UNCHANGED <<config, remoteVars, socket, read, handled, abort, closed, inVars,
                   processor, outbox, stateVars, taken, aborted>>

FlushFails == ~remoteOpen /\ Goto("flushing", "failed") /\ UNCHANGED closed

\* Mutant: the state is only taken if its lock is free
HandBackTrying ==
    /\ dialog = "flushing"
    /\ \/ peerState' = "taken" /\ connState' = IF peerState = "taken" THEN connState ELSE peerState
       \/ UNCHANGED <<peerState, connState>>
    /\ dialog' = "returned"
    /\ UNCHANGED <<config, remoteVars, socket, read, handled, abort, closed, inVars,
                   processor, outVars, due, taken, aborted, forced>>

\* The connection takes the peer's state, if it has one, and is handed back
HandBack ==
    /\ dialog = "flushing"
    /\ peerState' = "taken"
    /\ connState' = IF peerState = "taken" THEN connState ELSE peerState
    /\ dialog' = "returned"
    /\ UNCHANGED <<config, remoteVars, socket, read, handled, abort, closed, inVars,
                   processor, outVars, due, taken, aborted, forced>>

Dialog ==
    \/ Start \/ StartFails
    \/ TakeOutgoing \/ OutgoingEnded \/ Write \/ WriteFails
    \/ Read \/ ReadFails
    \/ Relay \/ RelayRefused \/ FindUnknown \/ Inform \/ InformRefused
    \/ EndInput \/ ClosePeer \/ FlushFails \/ HandBack

-----------------------------------------------------------------------------
(* The processor: the user's stream, executed by a task of its own *)

Consume ==
    /\ processor = "consuming" /\ inbox # <<>>
    /\ taken' = Append(taken, Head(inbox))
    /\ inbox' = Tail(inbox)
    /\ processor' \in {"consuming", "answering"}
    /\ UNCHANGED <<config, remoteVars, socket, dialog, read, handled, abort, closed,
                   inboxOpen, outVars, stateVars, aborted, forced>>

\* to_responsive_stream(): peer.send()
Answer ==
    /\ processor = "answering" /\ Len(outbox) < SenderSize
    /\ outbox' = Append(outbox, "answer")
    /\ processor' = "consuming"
    /\ UNCHANGED <<config, remoteVars, socket, dialog, read, handled, abort, closed,
                   inVars, outOpen, stateVars, taken, aborted, forced>>

\* Mutant: retrying has no limit
AnswerRetriedForever ==
    /\ processor = "answering" /\ Len(outbox) = SenderSize
    /\ strategy # "Retry"
    /\ processor' = IF Ends THEN "aborting" ELSE "consuming"
    /\ aborted' = (aborted \/ Ends)
    /\ UNCHANGED <<config, remoteVars, socket, dialog, read, handled, abort, closed,
                   inVars, outVars, stateVars, taken, forced>>

AnswerRefused ==
    /\ processor = "answering" /\ Len(outbox) = SenderSize
    /\ processor' = IF Ends THEN "aborting" ELSE "consuming"
    /\ aborted' = (aborted \/ Ends)
    /\ UNCHANGED <<config, remoteVars, socket, dialog, read, handled, abort, closed,
                   inVars, outVars, stateVars, taken, forced>>

\* ... after sleeping for the flush timeout
CancelPeer ==
    /\ processor = "aborting"
    /\ outOpen' = FALSE
    /\ forced' = TRUE
    /\ processor' = "consuming"
    /\ UNCHANGED <<config, remoteVars, socket, dialog, read, handled, abort, closed,
                   inVars, outbox, stateVars, taken, aborted>>

Leave ==
    /\ processor = "consuming"
    /\ processor' = "leaving"
    /\ UNCHANGED <<config, remoteVars, socket, dialog, read, handled, abort, closed,
                   inVars, outVars, stateVars, taken, aborted, forced>>

\* The stream was told to end (as above, it may still yield what it holds), or
\* the user's stream ends by itself
StreamEnded == ~inboxOpen /\ Leave
StreamEnds == inboxOpen /\ Leave

\* The PeerLeft callback returned: flush_and_close() comes next
PeerLeft ==
    /\ processor = "leaving"
    /\ processor' = "flushing"
    /\ UNCHANGED <<config, remoteVars, socket, dialog, read, handled, abort, closed,
                   inVars, outVars, stateVars, taken, aborted, forced>>

ClosedBy(step, next) ==
    /\ processor = step
    /\ outOpen' = FALSE
    /\ processor' = next
    /\ UNCHANGED <<config, remoteVars, socket, dialog, read, handled, abort, closed,
                   inVars, outbox, stateVars, taken, aborted>>

\* Mutant: the channel is closed without being flushed
FlushAtOnce == ClosedBy("flushing", "done") /\ UNCHANGED forced

Flush == outbox = <<>> /\ ClosedBy("flushing", "done") /\ UNCHANGED forced
FlushTimesOut == outbox # <<>> /\ ClosedBy("flushing", "done") /\ forced' = TRUE

\* The state is the processor's to use: set_state() and take_state(), from its
\* stream and from the callback
SetState ==
    /\ processor \notin {"flushing", "done"}
    /\ peerState # "set"
    /\ peerState' = "set"
    /\ due' = outOpen
    /\ UNCHANGED <<config, remoteVars, socket, dialog, read, handled, abort, closed,
                   inVars, processor, outVars, connState, taken, aborted, forced>>

TakeState ==
    /\ processor \notin {"flushing", "done"}
    /\ dialog \notin Over
    /\ peerState # "taken"
    /\ peerState' = "taken"
    /\ due' = FALSE
    /\ UNCHANGED <<config, remoteVars, socket, dialog, read, handled, abort, closed,
                   inVars, processor, outVars, connState, taken, aborted, forced>>

\* What the processor's task is bound to do
Processor ==
    \/ Consume \/ Answer \/ AnswerRefused \/ CancelPeer
    \/ StreamEnded \/ PeerLeft \/ Flush \/ FlushTimesOut

\* A client's shutdown listener closes the peer as well, at any time
ShutdownListener ==
    /\ outOpen
    /\ outOpen' = FALSE
    /\ forced' = TRUE
    /\ UNCHANGED <<config, remoteVars, socket, dialog, read, handled, abort, closed,
                   inVars, processor, outbox, stateVars, taken, aborted>>

\* Nothing is left to do; a dialog that failed to start left its processor waiting
Stopped ==
    /\ dialog \in Over /\ ~remoteOpen
    /\ processor = "done" \/ (dialog = "failed" /\ inboxOpen)
    /\ UNCHANGED vars

Next ==
    \/ Remote \/ Dialog \/ Processor
    \/ StreamEnds \/ SetState \/ TakeState \/ ShutdownListener
    \/ Stopped

Spec == Init /\ [][Next]_vars

\* Both tasks are polled whenever they can go on, and timeouts elapse; the remote
\* owes nothing, and neither does the user's stream
FairSpec == Spec /\ WF_vars(Dialog) /\ WF_vars(Processor)
-----------------------------------------------------------------------------
(* Safety *)

Delivered == taken \o inbox

\* Messages reach the processor in the order they were sent and, unless the
\* strategy is to ignore refusals (DoNotRetry), without a gap: once a message was
\* refused no later one is relayed, however many were read with it.
InOrder ==
    /\ \A i, j \in DOMAIN Delivered : i < j => Delivered[i] < Delivered[j]
    /\ Ends => \A m \in Range(Delivered) : 1 .. m \subseteq Range(Delivered) \cup Unknown

\* A connection is only handed back open if all that was read from it was
\* relayed: a refusal that ends the communications reports it closed, whichever
\* of the two channels was full and whether or not the peer could be informed.
RefusalCloses ==
    dialog = "returned" /\ Ends /\ ~closed =>
        1 .. read \subseteq Range(Delivered) \cup Unknown

\* When nothing timed out, a dialog ends with the processor's channel empty and,
\* if the connection may serve again, with every answer written to it: the
\* executor flushes the peer's channel before the dialog sees it closed.
GracefulEnd ==
    dialog = "returned" /\ ~forced =>
        /\ inbox = <<>>
        /\ ~closed => "answer" \notin Range(outbox)

\* A state the processor set before its peer was closed reaches the
\* connection, for the closure that routes it next.
StateHandedOver == dialog = "returned" /\ due => connState = "set"

\* What the documentation of RetryingStrategies says of full buffers: "Drops the connection"
\* (EndCommunications), "ending the communications if success still can't be
\* achieved".  An answer that was refused leaves no open connection behind.
AbortedIsClosed == dialog = "returned" /\ aborted => closed

-----------------------------------------------------------------------------
(* Inductive invariant: the parts whose conjunction every step preserves *)

\* What was read is dealt with before anything else is done, unless the connection
\* is reported closed, which ends the dialog
Handling ==
    /\ dialog \in {"relaying", "informing"} => handled < read
    /\ dialog \notin {"relaying", "informing"} /\ ~closed => handled = read
    /\ closed => dialog \in {"closing", "ending", "flushing"} \cup Over

\* What was dealt with was delivered in order, and is all there unless refusals
\* are to be ignored; the peer is only informed of an error, and no more, of an
\* unknown message
InOrderSoFar ==
    /\ \A i \in DOMAIN Delivered : Delivered[i] <= handled
    /\ \A i, j \in DOMAIN Delivered : i < j => Delivered[i] < Delivered[j]
    /\ Ends => 1 .. handled \subseteq Range(Delivered) \cup Unknown
    /\ Ends /\ dialog = "informing" /\ ~abort => handled + 1 \in Unknown

\* Unless something timed out, the processor's channel is empty when the dialog
\* goes on to close the peer's, which only the processor could close before,
\* after the last answer was taken from it
GracefulSoFar ==
    ~forced =>
        /\ dialog \in {"ending", "flushing", "returned"} => inbox = <<>>
        /\ processor = "done" => "answer" \notin Range(outbox)
        /\ dialog \notin {"flushing"} \cup Over /\ ~outOpen => processor = "done"
        /\ dialog \in {"closing", "ending", "flushing", "returned"} /\ ~closed =>
            processor = "done"

\* The state that is due waits in the peer, and none is once the peer was closed
StateIsKept ==
    /\ dialog \in {"flushing", "returned"} => ~outOpen
    /\ due /\ dialog # "returned" => peerState = "set"
    /\ StateHandedOver

IInv ==
    /\ TypeOK
    /\ Handling
    /\ InOrderSoFar
    /\ GracefulSoFar
    /\ StateIsKept

-----------------------------------------------------------------------------
(* Liveness *)

\* A closed peer and a remote that left both end the dialog, except while it is
\* blocked writing to a remote that does not read: the processor and the
\* dialog, each waiting for room in the channel the other empties, do not wait for ever.
SessionEnds ==
    <>[](~outOpen \/ ~remoteOpen => dialog \in Over \/ (dialog = "writing" /\ remoteOpen))

\* The end of the dialog ends the processor's stream, which closes its peer.
ProcessorLeaves == <>[](dialog = "returned" => processor = "done")

\* As above: the refusal of an answer ends the communications.
AbortEnds == <>[](aborted => dialog \in Over)
=============================================================================
