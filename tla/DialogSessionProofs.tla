------------------------ MODULE DialogSessionProofs ------------------------
(***************************************************************************)
(* Machine-checked proofs about DialogSession, for any number of messages, *)
(* any of them unknown, any capacity of the channels and any room in the   *)
(* socket: each part of the inductive invariant IInv is preserved, by the  *)
(* steps of the remote, of the dialog and of the processor.                *)
(***************************************************************************)
EXTENDS DialogSession, ChannelLemmas

-----------------------------------------------------------------------------
(* Two channels in a row, as one sequence *)

\* What is received from a channel and appended to a history leaves both,
\* taken together, the same.
LEMMA ReceiveKeepsHistory ==
    ASSUME NEW S, NEW t \in Seq(S), NEW s \in Seq(S), s # <<>>
    PROVE  Append(t, Head(s)) \o Tail(s) = t \o s
<1> DEFINE h == Head(s)
           r == Tail(s)
<1>1. h \in S /\ r \in Seq(S) /\ <<h>> \in Seq(S)
  BY HeadTailProperties
<1>2. Append(t, h) = t \o <<h>>
  BY <1>1, AppendIsConcat
<1>3. <<h>> \o r = s
  <2>1. /\ Len(r) = Len(s) - 1 /\ h = s[1]
        /\ \A i \in 1 .. Len(s) - 1 : r[i] = s[i + 1]
        /\ Len(s) \in Nat \ {0}
    BY HeadTailProperties, EmptySeq
  <2>2. /\ <<h>> \o r \in Seq(S) /\ Len(<<h>> \o r) = Len(s)
        /\ \A i \in 1 .. Len(s) : (<<h>> \o r)[i] = IF i <= 1 THEN h ELSE r[i - 1]
    BY <1>1, <2>1, ConcatProperties
  <2>3. \A i \in 1 .. Len(s) : (<<h>> \o r)[i] = s[i]
    BY <2>1, <2>2
  <2> QED BY <2>2, <2>3, SeqEqual
<1> HIDE DEF h, r
<1>4. (t \o <<h>>) \o r = t \o (<<h>> \o r)
  BY <1>1, ConcatAssociative
<1>5. Append(t, h) \o r = t \o s
  BY <1>2, <1>3, <1>4
<1> QED BY <1>5 DEF h, r

\* What is sent to the second channel comes last.
LEMMA SendToBoth ==
    ASSUME NEW S, NEW t \in Seq(S), NEW s \in Seq(S), NEW e \in S
    PROVE  t \o Append(s, e) = Append(t \o s, e)
BY AppendProperties, ConcatProperties

\* Sending adds one element to those a sequence holds.
LEMMA SendAdds ==
    ASSUME NEW S, NEW s \in Seq(S), NEW e \in S
    PROVE  Range(Append(s, e)) = Range(s) \cup {e}
<1>1. /\ DOMAIN s = 1 .. Len(s) /\ Len(s) \in Nat
      /\ DOMAIN Append(s, e) = 1 .. Len(s) + 1
      /\ \A i \in 1 .. Len(s) : Append(s, e)[i] = s[i]
      /\ Append(s, e)[Len(s) + 1] = e
  BY AppendProperties
<1>2. DOMAIN Append(s, e) = DOMAIN s \cup {Len(s) + 1}
  BY <1>1
<1> QED BY <1>1, <1>2 DEF Range

\* What receiving leaves of a channel was in it.
LEMMA ReceivedFrom ==
    ASSUME NEW S, NEW s \in Seq(S), s # <<>>
    PROVE  /\ Head(s) \in S /\ Tail(s) \in Seq(S) /\ Len(Tail(s)) <= Len(s)
           /\ Range(Tail(s)) \subseteq Range(s)
<1>1. /\ Head(s) \in S /\ Tail(s) \in Seq(S) /\ Len(Tail(s)) = Len(s) - 1
      /\ \A i \in 1 .. Len(s) - 1 : Tail(s)[i] = s[i + 1]
      /\ Len(s) \in Nat \ {0}
      /\ DOMAIN s = 1 .. Len(s) /\ DOMAIN Tail(s) = 1 .. Len(s) - 1
  BY HeadTailProperties, EmptySeq
<1>2. Range(Tail(s)) \subseteq Range(s)
  BY <1>1 DEF Range
<1> QED BY <1>1, <1>2

-----------------------------------------------------------------------------
(* The inductive invariant *)

\* The type invariant, by kinds of variables: each is disturbed by few of the steps
Counters ==
    /\ sent \in 0 .. Messages /\ read \in 0 .. sent /\ handled \in 0 .. read
    /\ socket \in 0 .. SocketRoom

Flags ==
    /\ informs \in BOOLEAN
    /\ remoteOpen \in BOOLEAN /\ abort \in BOOLEAN /\ closed \in BOOLEAN
    /\ inboxOpen \in BOOLEAN /\ outOpen \in BOOLEAN
    /\ aborted \in BOOLEAN /\ due \in BOOLEAN /\ forced \in BOOLEAN

Places ==
    /\ strategy \in Strategies
    /\ dialog \in {"starting", "select", "writing", "relaying", "informing",
                   "closing", "ending", "flushing"} \cup Over
    /\ processor \in {"consuming", "answering", "aborting", "leaving", "flushing", "done"}
    /\ peerState \in {"inherited", "set", "taken"}
    /\ connState \in {"inherited", "set"}

Channels ==
    /\ inbox \in Seq(1 .. Messages) /\ Len(inbox) <= ReceiverSize
    /\ outbox \in Seq({"answer", "error"}) /\ Len(outbox) <= SenderSize
    /\ taken \in Seq(1 .. Messages)

\* The parts are the whole, before and after a step.
LEMMA TypeParts ==
    /\ TypeOK <=> Counters /\ Flags /\ Places /\ Channels
    /\ TypeOK' <=> Counters' /\ Flags' /\ Places' /\ Channels'
<1>1. TypeOK <=> Counters /\ Flags /\ Places /\ Channels
  BY Zenon DEF TypeOK, Counters, Flags, Places, Channels
<1>2. TypeOK' <=> Counters' /\ Flags' /\ Places' /\ Channels'
  BY Zenon DEF TypeOK, Counters, Flags, Places, Channels
<1> QED BY <1>1, <1>2

\* A session that has just opened meets the inductive invariant.
LEMMA InitInvariant == Init => IInv
<1> SUFFICES ASSUME Init PROVE IInv
  OBVIOUS
<1>1. inbox = <<>> /\ outbox = <<>> /\ taken = <<>> /\ Delivered = <<>>
  BY ConcatEmptySeq, EmptySeq DEF Init, Delivered
<1>2. TypeOK
  <2>1. Counters
    BY SessionAssumption DEF Init, Counters, SessionAssumption
  <2>2. Flags
    BY DEF Init, Flags
  <2>3. Places
    BY DEF Init, Places
  <2>4. Channels
    BY <1>1, SessionAssumption, EmptySeq DEF Channels, SessionAssumption
  <2> QED BY <2>1, <2>2, <2>3, <2>4, TypeParts
<1>3. Handling /\ GracefulSoFar /\ StateIsKept
  BY DEF Init, Handling, GracefulSoFar, StateIsKept, StateHandedOver, Over
<1>4. InOrderSoFar
  BY <1>1 DEF Init, InOrderSoFar
<1> QED BY <1>2, <1>3, <1>4 DEF IInv

\* Neither side runs ahead of the other: no more is read than was sent, and no
\* more is dealt with than was read.
LEMMA CountersStep == TypeOK /\ Handling /\ [Next]_vars => Counters'
<1> SUFFICES ASSUME Counters, Handling, [Next]_vars PROVE Counters'
  BY TypeParts
<1> USE SessionAssumption
    DEF config, remoteVars, inVars, outVars, stateVars, Counters, SessionAssumption
<1>1. CASE RemoteSends
  BY <1>1 DEF RemoteSends
<1>2. CASE RemoteReads
  BY <1>2 DEF RemoteReads
<1>3. CASE Write
  BY <1>3 DEF Write
<1>4. CASE Read
  BY <1>4 DEF Read, MayRead
<1>5. CASE dialog \in {"relaying", "informing"} /\ Handle /\ UNCHANGED <<sent, read, socket>>
  <2>1. handled < read
    BY <1>5 DEF Handling
  <2> QED BY <1>5, <2>1 DEF Handle
<1>6. CASE UNCHANGED <<sent, read, handled, socket>>
  BY <1>6
<1>7. CASE Relay \/ RelayRefused \/ FindUnknown \/ Inform \/ InformRefused
  BY <1>5, <1>6, <1>7 DEF Relay, RelayRefused, FindUnknown, Troubled, Inform, InformRefused
<1>8. CASE Remote
  BY <1>1, <1>2, <1>6, <1>8 DEF Remote, RemoteLeaves
<1>9. CASE Dialog
  BY <1>3, <1>4, <1>6, <1>7, <1>9
     DEF Dialog, Start, StartFails, TakeOutgoing, OutgoingEnded, WriteFails, ReadFails,
         EndInput, ClosePeer, FlushFails, HandBack, Break, BreakClosed, Goto
<1>10. CASE Processor \/ StreamEnds \/ SetState \/ TakeState \/ ShutdownListener
  BY <1>6, <1>10
     DEF Processor, Consume, Answer, AnswerRefused, CancelPeer, StreamEnded, StreamEnds, Leave,
         PeerLeft, Flush, FlushTimesOut, ClosedBy, SetState, TakeState, ShutdownListener
<1>11. CASE UNCHANGED vars \/ Stopped
  BY <1>6, <1>11 DEF vars, Stopped
<1> QED BY <1>8, <1>9, <1>10, <1>11 DEF Next

\* No step leaves a flag that is not a Boolean.
LEMMA FlagsStep == TypeOK /\ [Next]_vars => Flags'
<1> SUFFICES ASSUME Flags, [Next]_vars PROVE Flags'
  BY TypeParts
<1> USE DEF config, remoteVars, inVars, outVars, stateVars, Flags
<1>1. CASE Remote
  BY <1>1 DEF Remote, RemoteSends, RemoteReads, RemoteLeaves
<1>2. CASE Start \/ StartFails \/ OutgoingEnded \/ WriteFails \/ ReadFails \/ FlushFails
  BY <1>2, ZenonT(40) DEF Start, StartFails, OutgoingEnded, WriteFails, ReadFails, FlushFails,
              Break, BreakClosed, Goto
<1>3. CASE TakeOutgoing \/ Write \/ Read \/ Relay \/ HandBack
  BY <1>3 DEF TakeOutgoing, Write, Read, Relay, HandBack
<1>4. ASSUME NEW ends \in BOOLEAN, Troubled(ends) PROVE Flags'
  BY <1>4 DEF Troubled
<1>5. CASE RelayRefused \/ FindUnknown
  <2>1. Ends \in BOOLEAN
    BY DEF Ends
  <2> QED BY <1>4, <1>5, <2>1 DEF RelayRefused, FindUnknown
<1>6. CASE Inform \/ InformRefused
  BY <1>6 DEF Inform, InformRefused
<1>7. CASE EndInput
  BY <1>7 DEF EndInput
<1>8. CASE ClosePeer
  BY <1>8 DEF ClosePeer
<1>9. CASE Consume \/ Answer \/ StreamEnded \/ StreamEnds \/ PeerLeft
  BY <1>9 DEF Consume, Answer, StreamEnded, StreamEnds, Leave, PeerLeft
<1>10. CASE AnswerRefused
  BY <1>10 DEF AnswerRefused, Ends
<1>11. CASE CancelPeer \/ Flush \/ FlushTimesOut \/ ShutdownListener
  BY <1>11 DEF CancelPeer, Flush, FlushTimesOut, ClosedBy, ShutdownListener
<1>12. CASE SetState \/ TakeState
  BY <1>12 DEF SetState, TakeState
<1>13. CASE UNCHANGED vars \/ Stopped
  BY <1>13 DEF vars, Stopped
<1> QED BY <1>1, <1>2, <1>3, <1>5, <1>6, <1>7, <1>8, <1>9, <1>10, <1>11, <1>12, <1>13
        DEF Next, Dialog, Processor

\* No step takes the dialog, the processor or the state out of its stages.
LEMMA PlacesStep == TypeOK /\ [Next]_vars => Places'
<1> SUFFICES ASSUME Places, [Next]_vars PROVE Places'
  BY TypeParts
<1> USE DEF config, remoteVars, inVars, outVars, stateVars, Places, Strategies, Over
<1>1. CASE Remote
  BY <1>1 DEF Remote, RemoteSends, RemoteReads, RemoteLeaves
<1>2. CASE Start \/ StartFails \/ OutgoingEnded \/ WriteFails \/ ReadFails \/ FlushFails
  BY <1>2 DEF Start, StartFails, OutgoingEnded, WriteFails, ReadFails, FlushFails,
              Break, BreakClosed, Goto
<1>3. CASE TakeOutgoing \/ Write \/ Read \/ Relay
  BY <1>3 DEF TakeOutgoing, Write, Read, Relay, Handle
<1>4. CASE RelayRefused \/ FindUnknown
  BY <1>4 DEF RelayRefused, FindUnknown, Troubled, Handle
<1>5. CASE Inform \/ InformRefused
  BY <1>5 DEF Inform, InformRefused, Handle
<1>6. CASE EndInput \/ ClosePeer
  BY <1>6 DEF EndInput, ClosePeer
<1>7. CASE HandBack
  BY <1>7 DEF HandBack
<1>8. CASE Consume \/ Answer \/ AnswerRefused \/ CancelPeer
  BY <1>8 DEF Consume, Answer, AnswerRefused, CancelPeer
<1>9. CASE StreamEnded \/ StreamEnds \/ PeerLeft
  BY <1>9 DEF StreamEnded, StreamEnds, Leave, PeerLeft
<1>10. CASE Flush \/ FlushTimesOut \/ ShutdownListener
  BY <1>10 DEF Flush, FlushTimesOut, ClosedBy, ShutdownListener
<1>11. CASE SetState \/ TakeState
  BY <1>11 DEF SetState, TakeState
<1>12. CASE UNCHANGED vars \/ Stopped
  BY <1>12 DEF vars, Stopped
<1> QED BY <1>1, <1>2, <1>3, <1>4, <1>5, <1>6, <1>7, <1>8, <1>9, <1>10, <1>11, <1>12
        DEF Next, Dialog, Processor

\* A full channel refuses what is sent to it.
LEMMA ChannelsStep == TypeOK /\ Handling /\ [Next]_vars => Channels'
<1> SUFFICES ASSUME Counters, Channels, Handling, [Next]_vars PROVE Channels'
  BY TypeParts
<1> USE SessionAssumption
    DEF config, remoteVars, inVars, outVars, stateVars, Channels, SessionAssumption
<1>1. CASE TakeOutgoing
  BY <1>1, ReceivedFrom DEF TakeOutgoing
<1>2. CASE Relay
  <2>1. handled + 1 \in 1 .. Messages
    BY <1>2 DEF Relay, Handling, Counters
  <2> QED BY <1>2, <2>1, AppendProperties DEF Relay
<1>3. CASE Inform
  BY <1>3, AppendProperties DEF Inform
<1>4. CASE Consume
  <2>1. inbox' \in Seq(1 .. Messages) /\ Len(inbox') <= ReceiverSize
    BY <1>4, ReceivedFrom DEF Consume
  <2>2. taken' \in Seq(1 .. Messages)
    BY <1>4, ReceivedFrom, AppendProperties DEF Consume
  <2> QED BY <1>4, <2>1, <2>2 DEF Consume
<1>5. CASE Answer
  BY <1>5, AppendProperties DEF Answer
<1>6. CASE UNCHANGED <<inbox, outbox, taken>>
  BY <1>6
<1>7. CASE Remote
  BY <1>6, <1>7 DEF Remote, RemoteSends, RemoteReads, RemoteLeaves
<1>8. CASE Dialog
  BY <1>1, <1>2, <1>3, <1>6, <1>8
     DEF Dialog, Start, StartFails, OutgoingEnded, Write, WriteFails, Read, ReadFails,
         RelayRefused, FindUnknown, Troubled, InformRefused,
         EndInput, ClosePeer, FlushFails, HandBack, Break, BreakClosed, Goto
<1>9. CASE Processor \/ StreamEnds \/ SetState \/ TakeState \/ ShutdownListener
  BY <1>4, <1>5, <1>6, <1>9
     DEF Processor, AnswerRefused, CancelPeer, StreamEnded, StreamEnds, Leave,
         PeerLeft, Flush, FlushTimesOut, ClosedBy, SetState, TakeState, ShutdownListener
<1>10. CASE UNCHANGED vars \/ Stopped
  BY <1>6, <1>10 DEF vars, Stopped
<1> QED BY <1>7, <1>8, <1>9, <1>10 DEF Next

\* All that was read is dealt with before the next read, or the connection is
\* reported closed.
LEMMA HandlingStep == TypeOK /\ Handling /\ [Next]_vars => Handling'
<1> SUFFICES ASSUME Counters, Handling, [Next]_vars PROVE Handling'
  BY TypeParts
<1> USE SessionAssumption
    DEF config, remoteVars, inVars, outVars, stateVars, Counters, Handling, Over,
        SessionAssumption
<1>1. CASE UNCHANGED <<dialog, read, handled, closed>>
  BY <1>1
<1>2. CASE Start \/ StartFails \/ OutgoingEnded \/ WriteFails \/ ReadFails \/ FlushFails
  BY <1>2 DEF Start, StartFails, OutgoingEnded, WriteFails, ReadFails, FlushFails,
              Break, BreakClosed, Goto, MayRead
<1>3. CASE TakeOutgoing \/ Write \/ EndInput \/ ClosePeer \/ HandBack
  BY <1>3 DEF TakeOutgoing, Write, EndInput, ClosePeer, HandBack
<1>4. CASE Read
  BY <1>4 DEF Read, MayRead
<1>5. CASE dialog \in {"relaying", "informing"} /\ Handle /\ UNCHANGED <<read, closed>>
  BY <1>5 DEF Handle
<1>6. CASE /\ dialog \in {"relaying", "informing"}
           /\ dialog' = "closing" /\ closed' /\ UNCHANGED <<read, handled>>
  BY <1>6
<1>7. CASE /\ dialog = "relaying" /\ dialog' = "informing"
           /\ UNCHANGED <<read, handled, closed>>
  BY <1>7
<1>8. CASE Relay \/ RelayRefused \/ FindUnknown \/ Inform \/ InformRefused
  BY <1>5, <1>6, <1>7, <1>8
     DEF Relay, RelayRefused, FindUnknown, Troubled, Inform, InformRefused
<1>9. CASE Remote
  BY <1>1, <1>9 DEF Remote, RemoteSends, RemoteReads, RemoteLeaves
<1>10. CASE Dialog
  BY <1>2, <1>3, <1>4, <1>8, <1>10 DEF Dialog
<1>11. CASE Processor \/ StreamEnds \/ SetState \/ TakeState \/ ShutdownListener
  BY <1>1, <1>11
     DEF Processor, Consume, Answer, AnswerRefused, CancelPeer, StreamEnded, StreamEnds, Leave,
         PeerLeft, Flush, FlushTimesOut, ClosedBy, SetState, TakeState, ShutdownListener
<1>12. CASE UNCHANGED vars \/ Stopped
  BY <1>1, <1>12 DEF vars, Stopped
<1> QED BY <1>9, <1>10, <1>11, <1>12 DEF Next

-----------------------------------------------------------------------------
(* Order *)

\* Appending to what was delivered the message that comes next
LEMMA DeliverNext ==
    ASSUME NEW s \in Seq(1 .. Messages), NEW n \in Nat, n + 1 \in 1 .. Messages,
           \A i \in DOMAIN s : s[i] <= n,
           \A i, j \in DOMAIN s : i < j => s[i] < s[j]
    PROVE  /\ \A i \in DOMAIN Append(s, n + 1) : Append(s, n + 1)[i] <= n + 1
           /\ \A i, j \in DOMAIN Append(s, n + 1) :
                i < j => Append(s, n + 1)[i] < Append(s, n + 1)[j]
<1> DEFINE a == Append(s, n + 1)
<1>1. /\ DOMAIN a = 1 .. Len(s) + 1 /\ DOMAIN s = 1 .. Len(s) /\ Len(s) \in Nat
      /\ \A i \in 1 .. Len(s) : a[i] = s[i] /\ s[i] \in Nat
      /\ a[Len(s) + 1] = n + 1
  BY SessionAssumption, AppendProperties DEF SessionAssumption
<1> HIDE DEF a
<1>2. \A i \in DOMAIN a : a[i] <= n + 1
  BY <1>1
<1>3. ASSUME NEW i \in DOMAIN a, NEW j \in DOMAIN a, i < j PROVE a[i] < a[j]
  <2>1. i \in 1 .. Len(s)
    BY <1>1, <1>3
  <2>2. CASE j = Len(s) + 1
    BY <1>1, <2>1, <2>2
  <2>3. CASE j \in 1 .. Len(s)
    BY <1>1, <1>3, <2>1, <2>3
  <2> QED BY <1>1, <2>2, <2>3
<1> QED BY <1>2, <1>3 DEF a

\* Only a message that is relayed is delivered; consuming one does not count.
LEMMA DeliveredStep ==
    ASSUME Channels, [Next]_vars, ~Relay
    PROVE  Delivered' = Delivered
<1> USE DEF Channels, config, remoteVars, inVars, outVars, stateVars, Delivered
<1>1. CASE Consume
  BY <1>1, ReceiveKeepsHistory DEF Consume
<1>2. CASE UNCHANGED <<inbox, taken>>
  BY <1>2
<1>3. CASE Remote
  BY <1>2, <1>3 DEF Remote, RemoteSends, RemoteReads, RemoteLeaves
<1>4. CASE Dialog
  BY <1>2, <1>4
     DEF Dialog, Start, StartFails, TakeOutgoing, OutgoingEnded, Write, WriteFails, Read,
         ReadFails, RelayRefused, FindUnknown, Troubled, Inform, InformRefused,
         EndInput, ClosePeer, FlushFails, HandBack, Break, BreakClosed, Goto
<1>5. CASE Processor \/ StreamEnds \/ SetState \/ TakeState \/ ShutdownListener
  BY <1>1, <1>2, <1>5
     DEF Processor, Answer, AnswerRefused, CancelPeer, StreamEnded, StreamEnds, Leave,
         PeerLeft, Flush, FlushTimesOut, ClosedBy, SetState, TakeState, ShutdownListener
<1>6. CASE UNCHANGED vars \/ Stopped
  BY <1>2, <1>6 DEF vars, Stopped
<1> QED BY <1>3, <1>4, <1>5, <1>6 DEF Next

\* No step changes the configuration.
LEMMA ConfigStep == [Next]_vars => UNCHANGED config
<1> SUFFICES ASSUME [Next]_vars PROVE UNCHANGED config
  OBVIOUS
<1> USE DEF config
<1>1. CASE Remote
  BY <1>1 DEF Remote, RemoteSends, RemoteReads, RemoteLeaves
<1>2. CASE Dialog
  BY <1>2
     DEF Dialog, Start, StartFails, TakeOutgoing, OutgoingEnded, Write, WriteFails, Read,
         ReadFails, Relay, RelayRefused, FindUnknown, Troubled, Inform, InformRefused,
         EndInput, ClosePeer, FlushFails, HandBack, Break, BreakClosed, Goto
<1>3. CASE Processor \/ StreamEnds \/ SetState \/ TakeState \/ ShutdownListener
  BY <1>3
     DEF Processor, Consume, Answer, AnswerRefused, CancelPeer, StreamEnded, StreamEnds, Leave,
         PeerLeft, Flush, FlushTimesOut, ClosedBy, SetState, TakeState, ShutdownListener
<1>4. CASE UNCHANGED vars \/ Stopped
  BY <1>4 DEF vars, Stopped
<1> QED BY <1>1, <1>2, <1>3, <1>4 DEF Next

\* A message that is dealt with was delivered, is unknown, or was dropped by
\* a strategy that ignores refusals.
LEMMA InOrderStep == TypeOK /\ Handling /\ InOrderSoFar /\ [Next]_vars => InOrderSoFar'
<1> SUFFICES ASSUME Counters, Channels, Handling, InOrderSoFar, [Next]_vars
             PROVE  InOrderSoFar'
  BY TypeParts
<1>1. Delivered \in Seq(1 .. Messages)
  BY ConcatProperties DEF Channels, Delivered
<1>2. /\ read \in Nat /\ handled \in Nat /\ Messages \in Nat /\ handled <= read
      /\ \A m \in Range(Delivered) : m \in Nat
  BY <1>1, SessionAssumption DEF Counters, SessionAssumption, Range
<1>3. Ends' = Ends
  BY ConfigStep DEF config, Ends
<1>4. CASE Relay
  <2>1. /\ dialog = "relaying" /\ handled' = handled + 1 /\ taken' = taken
        /\ inbox' = Append(inbox, handled + 1)
        /\ dialog' # "informing"
    BY <1>4 DEF Relay, Handle
  <2>2. handled + 1 \in 1 .. Messages
    BY <1>2, <2>1, SessionAssumption DEF Handling, Counters, SessionAssumption
  <2>3. Delivered' = Append(Delivered, handled + 1)
    BY <2>1, <2>2, SendToBoth DEF Channels, Delivered
  <2>4. /\ \A i \in DOMAIN Delivered' : Delivered'[i] <= handled'
        /\ \A i, j \in DOMAIN Delivered' : i < j => Delivered'[i] < Delivered'[j]
    BY <1>1, <1>2, <2>1, <2>2, <2>3, DeliverNext DEF InOrderSoFar
  <2>5. Range(Delivered') = Range(Delivered) \cup {handled + 1}
    <3> DEFINE M == 1 .. Messages
    <3>1. Delivered \in Seq(M) /\ handled + 1 \in M
      BY <1>1, <2>2
    <3> HIDE DEF M
    <3>2. Range(Append(Delivered, handled + 1)) = Range(Delivered) \cup {handled + 1}
      BY <3>1, SendAdds
    <3> QED BY <2>3, <3>2, Zenon
  <2>6. Ends => 1 .. handled' \subseteq Range(Delivered') \cup Unknown
    BY <1>2, <2>1, <2>5 DEF InOrderSoFar
  <2> QED BY <1>3, <2>1, <2>4, <2>6 DEF InOrderSoFar
<1>5. CASE ~Relay
  <2>1. Delivered' = Delivered
    BY <1>5, DeliveredStep
  <2>2. CASE UNCHANGED handled /\ (dialog' = "informing" => UNCHANGED <<dialog, abort>>)
    BY <1>3, <2>1, <2>2 DEF InOrderSoFar
  <2>3. CASE /\ UNCHANGED handled /\ dialog' = "informing"
             /\ Ends => abort' \/ handled + 1 \in Unknown
    BY <1>3, <2>1, <2>3 DEF InOrderSoFar
  <2>4. CASE Handle /\ (Ends => handled + 1 \in Unknown)
    <3>1. handled' = handled + 1 /\ dialog' # "informing"
      BY <2>4 DEF Handle
    <3>2. Ends => 1 .. handled' \subseteq Range(Delivered) \cup Unknown
      BY <1>2, <2>4, <3>1 DEF InOrderSoFar
    <3>3. \A i \in DOMAIN Delivered : Delivered[i] <= handled'
      BY <1>1, <1>2, <3>1, SessionAssumption DEF InOrderSoFar, SessionAssumption
    <3> QED BY <1>3, <2>1, <3>1, <3>2, <3>3 DEF InOrderSoFar
  <2>5. CASE RelayRefused
    BY <2>2, <2>3, <2>4, <2>5 DEF RelayRefused, Troubled
  <2>6. CASE FindUnknown
    BY <2>2, <2>3, <2>4, <2>6 DEF FindUnknown, Troubled
  <2>7. CASE Inform \/ InformRefused
    BY <2>2, <2>4, <2>7 DEF Inform, InformRefused, InOrderSoFar
  <2>8. CASE Remote
    BY <2>2, <2>8 DEF Remote, RemoteSends, RemoteReads, RemoteLeaves, remoteVars
  <2>9. CASE Dialog
    BY <1>5, <2>2, <2>5, <2>6, <2>7, <2>9
       DEF Dialog, Start, StartFails, TakeOutgoing, OutgoingEnded, Write, WriteFails, Read,
           ReadFails, EndInput, ClosePeer, FlushFails, HandBack, Break, BreakClosed, Goto
  <2>10. CASE Processor \/ StreamEnds \/ SetState \/ TakeState \/ ShutdownListener
    BY <2>2, <2>10
       DEF Processor, Consume, Answer, AnswerRefused, CancelPeer, StreamEnded, StreamEnds, Leave,
           PeerLeft, Flush, FlushTimesOut, ClosedBy, SetState, TakeState, ShutdownListener
  <2>11. CASE UNCHANGED vars \/ Stopped
    BY <2>2, <2>11 DEF vars, Stopped
  <2> QED BY <2>8, <2>9, <2>10, <2>11 DEF Next
<1> QED BY <1>4, <1>5

-----------------------------------------------------------------------------
(* The end of a dialog *)

\* Nobody but the processor closes the peer before the dialog does, unless
\* something times out.
LEMMA GracefulStep ==
    TypeOK /\ Handling /\ GracefulSoFar /\ [Next]_vars => GracefulSoFar'
<1> SUFFICES ASSUME Channels, Places, Handling, GracefulSoFar, [Next]_vars, ~forced'
             PROVE  GracefulSoFar'
  BY TypeParts DEF GracefulSoFar
<1> USE DEF config, remoteVars, inVars, outVars, stateVars, GracefulSoFar, Over
<1>1. CASE Remote
  BY <1>1 DEF Remote, RemoteSends, RemoteReads, RemoteLeaves
<1>2. CASE Start \/ StartFails \/ OutgoingEnded \/ WriteFails \/ ReadFails \/ FlushFails
  BY <1>2 DEF Start, StartFails, OutgoingEnded, WriteFails, ReadFails, FlushFails,
              Break, BreakClosed, Goto
<1>3. CASE TakeOutgoing
  <2>1. Range(outbox') \subseteq Range(outbox)
    BY <1>3, ReceivedFrom DEF TakeOutgoing, Channels
  <2> QED BY <1>3, <2>1 DEF TakeOutgoing
<1>4. CASE Write \/ Read
  BY <1>4 DEF Write, Read, MayRead
<1>5. CASE Relay
  BY <1>5 DEF Relay, Handle
<1>6. CASE RelayRefused \/ FindUnknown
  BY <1>6 DEF RelayRefused, FindUnknown, Troubled, Handle
<1>7. CASE Inform
  <2>1. Range(outbox') = Range(outbox) \cup {"error"}
    BY <1>7, SendAdds, SMTT(25) DEF Inform, Channels
  <2> QED BY <1>7, <2>1 DEF Inform, Handle
<1>8. CASE InformRefused
  BY <1>8 DEF InformRefused, Handle
<1>9. CASE EndInput
  BY <1>9 DEF EndInput
<1>10. CASE ClosePeer
  BY <1>10 DEF ClosePeer
<1>11. CASE HandBack
  BY <1>11 DEF HandBack
<1>12. CASE Consume
  <2>1. /\ dialog \notin {"ending", "flushing", "returned"} /\ processor # "done"
        /\ processor' \in {"consuming", "answering"}
        /\ UNCHANGED <<dialog, closed, outbox, outOpen, forced>>
    BY <1>12 DEF Consume
  <2> QED BY <2>1
<1>13. CASE Answer
  BY <1>13 DEF Answer
<1>14. CASE AnswerRefused
  BY <1>14 DEF AnswerRefused
<1>15. CASE CancelPeer \/ ShutdownListener
  BY <1>15 DEF CancelPeer, ShutdownListener
<1>16. CASE StreamEnded \/ StreamEnds \/ PeerLeft
  BY <1>16 DEF StreamEnded, StreamEnds, Leave, PeerLeft
<1>17. CASE Flush
  <2>1. "answer" \notin Range(outbox')
    BY <1>17 DEF Flush, ClosedBy, Range
  <2> QED BY <1>17, <2>1 DEF Flush, ClosedBy
<1>18. CASE FlushTimesOut
  BY <1>18 DEF FlushTimesOut, ClosedBy
<1>19. CASE SetState \/ TakeState
  BY <1>19 DEF SetState, TakeState
<1>20. CASE UNCHANGED vars \/ Stopped
  BY <1>20 DEF vars, Stopped
<1> QED BY <1>1, <1>2, <1>3, <1>4, <1>5, <1>6, <1>7, <1>8, <1>9, <1>10, <1>11, <1>12, <1>13,
           <1>14, <1>15, <1>16, <1>17, <1>18, <1>19, <1>20 DEF Next, Dialog, Processor

\* A state that is due leaves the peer for the connection, and nowhere else.
LEMMA StateStep == TypeOK /\ StateIsKept /\ [Next]_vars => StateIsKept'
<1> SUFFICES ASSUME Flags, Places, StateIsKept, [Next]_vars PROVE StateIsKept'
  BY TypeParts
<1> USE DEF config, remoteVars, inVars, outVars, stateVars, StateIsKept, StateHandedOver, Over,
            Flags, Places
<1>1. CASE UNCHANGED <<dialog, stateVars>> /\ (outOpen' => outOpen)
  BY <1>1
<1>2. CASE dialog' \notin {"flushing", "returned"} /\ UNCHANGED stateVars
           /\ dialog # "returned"
  BY <1>2
<1>3. CASE Start \/ StartFails \/ OutgoingEnded \/ WriteFails \/ ReadFails \/ FlushFails
           \/ TakeOutgoing \/ Write \/ Read
  BY <1>2, <1>3 DEF Start, StartFails, OutgoingEnded, WriteFails, ReadFails, FlushFails,
              Break, BreakClosed, Goto, MayRead, TakeOutgoing, Write, Read
<1>4. CASE Relay \/ RelayRefused \/ FindUnknown \/ Inform \/ InformRefused \/ EndInput
  BY <1>2, <1>4 DEF Relay, RelayRefused, FindUnknown, Troubled, Inform, InformRefused,
                    EndInput, Handle
<1>5. CASE ClosePeer
  BY <1>5 DEF ClosePeer
<1>6. CASE HandBack
  BY <1>6 DEF HandBack
<1>7. CASE SetState
  BY <1>7 DEF SetState
<1>8. CASE TakeState
  BY <1>8 DEF TakeState
<1>9. CASE Remote
  BY <1>1, <1>9 DEF Remote, RemoteSends, RemoteReads, RemoteLeaves
<1>10. CASE Processor \/ StreamEnds \/ ShutdownListener
  BY <1>1, <1>10
     DEF Processor, Consume, Answer, AnswerRefused, CancelPeer, StreamEnded, StreamEnds, Leave,
         PeerLeft, Flush, FlushTimesOut, ClosedBy, ShutdownListener
<1>11. CASE UNCHANGED vars \/ Stopped
  BY <1>1, <1>11 DEF vars, Stopped
<1> QED BY <1>3, <1>4, <1>5, <1>6, <1>7, <1>8, <1>9, <1>10, <1>11 DEF Next, Dialog

-----------------------------------------------------------------------------
(* Theorems *)

\* The inductive invariant holds of every behaviour.
THEOREM Invariance == Spec => []IInv
<1>1. IInv /\ [Next]_vars => IInv'
  <2> SUFFICES ASSUME IInv, [Next]_vars PROVE IInv'
    OBVIOUS
  <2>1. TypeOK /\ Handling /\ InOrderSoFar /\ GracefulSoFar /\ StateIsKept
    BY DEF IInv
  <2>2. TypeOK'
    BY <2>1, CountersStep, FlagsStep, PlacesStep, ChannelsStep, TypeParts
  <2>3. Handling' /\ InOrderSoFar'
    BY <2>1, HandlingStep, InOrderStep
  <2>4. GracefulSoFar' /\ StateIsKept'
    BY <2>1, GracefulStep, StateStep
  <2> QED BY <2>2, <2>3, <2>4 DEF IInv
<1> QED BY InitInvariant, <1>1, PTL DEF Spec

\* Whatever their capacity, the two channels of a dialog never hold more, and
\* neither the socket nor the dialog runs ahead of the remote.
THEOREM TypeCorrect == Spec => []TypeOK
<1>1. IInv => TypeOK
  BY DEF IInv
<1> QED BY Invariance, <1>1, PTL

\* However the dialog and the processor interleave, the processor gets the
\* messages in the order they were sent, and no message after one that was
\* refused, unless the configuration is to ignore refusals.
THEOREM DeliveredInOrder == Spec => []InOrder
<1>1. IInv => InOrder
  <2> SUFFICES ASSUME TypeOK, InOrderSoFar PROVE InOrder
    BY DEF IInv
  <2>1. Counters /\ Channels /\ Delivered \in Seq(1 .. Messages)
    BY TypeParts, ConcatProperties DEF Channels, Delivered
  <2>2. ASSUME Ends, NEW m \in Range(Delivered)
        PROVE  1 .. m \subseteq Range(Delivered) \cup Unknown
    <3>1. m \in Nat /\ m <= handled /\ handled \in Nat
      BY <2>1, SessionAssumption DEF InOrderSoFar, Counters, SessionAssumption, Range
    <3>2. 1 .. m \subseteq 1 .. handled
      BY <3>1
    <3> QED BY <2>2, <3>2 DEF InOrderSoFar
  <2> QED BY <2>2 DEF InOrder, InOrderSoFar
<1> QED BY Invariance, <1>1, PTL

\* A connection that is handed back open left no message undelivered.
THEOREM RefusedIsClosed == Spec => []RefusalCloses
<1>1. IInv => RefusalCloses
  BY DEF IInv, Handling, InOrderSoFar, RefusalCloses
<1> QED BY Invariance, <1>1, PTL

\* Timeouts and cancellations are all that may lose what a dialog that is over
\* left in its channels.
THEOREM EndsGracefully == Spec => []GracefulEnd
<1>1. IInv => GracefulEnd
  BY DEF IInv, GracefulSoFar, GracefulEnd
<1> QED BY Invariance, <1>1, PTL

\* The state that is due is handed over.
THEOREM HandsStateOver == Spec => []StateHandedOver
<1>1. IInv => StateHandedOver
  BY DEF IInv, StateIsKept
<1> QED BY Invariance, <1>1, PTL
=============================================================================
