------------------------ MODULE ServerServiceProofs ------------------------
(***************************************************************************)
(* Machine-checked proofs about ServerService, for every set of            *)
(* connections and processors, every channel capacity and every routing    *)
(* closure.  Each action preserves the inductive invariant IInv (a lemma   *)
(* per action); the safety properties follow from it.  Then about          *)
(* ServerSetup: whatever the order of the program's calls, the connections *)
(* stay consistent, no processor ends while somebody may still route to    *)
(* it, and the waiter answers for all of them.                             *)
(***************************************************************************)
EXTENDS ServerSetup, ChannelLemmas

\* A started server without connections meets the inductive invariant.
LEMMA InitInvariant == Init => IInv
<1> SUFFICES ASSUME Init PROVE IInv
  OBVIOUS
<1>0. <<>> \in Seq(Conns)
  BY EmptySeq
<1>1. Types /\ TypeOK
  BY <1>0 DEF Init, Types, TypeOK, Stages
<1>2. Registers /\ NoDuplicates
  BY EmptyChannel DEF Init, Registers, NoDuplicates
<1>3. Placement
  BY EmptyChannel, ServerAssumption DEF Init, Placement, ServerAssumption
<1>4. EventsPaired /\ EventsOrdered /\ ClosedPlacement /\ ShutdownOrder
  BY DEF Init, EventsPaired, EventsOrdered, ClosedPlacement, ClosedIsNotServedAgain, ShutdownOrder
<1> QED BY <1>1, <1>2, <1>3, <1>4 DEF IInv, Consistent

-----------------------------------------------------------------------------
(* Each action keeps the connections consistent *)

\* Accepting a connection keeps every owner and counter consistent.
LEMMA AcceptInvariant ==
    ASSUME Consistent, NEW c \in Conns, Accept(c)
    PROVE  Consistent'
<1> USE DEF listenerVars, routerVars, loopVars, channels, connVars
<1>1. Types'
  BY DEF Consistent, Accept, Types, Stages
<1>2. Registers'
  BY ServerAssumption DEF Consistent, Accept, Registers, ServerAssumption
<1>3. NoDuplicates'
  BY DEF Consistent, Accept, NoDuplicates
<1>4. Placement'
  BY ServerAssumption DEF Consistent, Accept, Placement, Types, Registers, ServerAssumption
<1>5. EventsOrdered'
  BY DEF Consistent, Accept, EventsOrdered
<1>6. ClosedPlacement'
  BY DEF Consistent, Accept, ClosedPlacement, ClosedIsNotServedAgain
<1> QED BY <1>1, <1>2, <1>3, <1>4, <1>5, <1>6 DEF Consistent

\* Feeding the accepted connection to the router keeps them consistent.
LEMMA FeedInvariant ==
    ASSUME Consistent, Feed
    PROVE  Consistent'
<1> USE DEF listenerVars, routerVars, loopVars, channels, connVars
<1>a. PICK c \in Conns : c = incoming /\ stage[c] = "feeding" /\ c \notin ToSet(newConns)
  BY ServerAssumption DEF Consistent, Feed, Types, Registers, Placement
<1>b. newConns \in Seq(Conns) /\ IsInjective(newConns) /\ newConns' = Append(newConns, c)
  BY <1>a DEF Consistent, Feed, Types, NoDuplicates
<1>c. /\ newConns' \in Seq(Conns) /\ newConns' # <<>>
      /\ ToSet(newConns') = ToSet(newConns) \cup {c}
      /\ IsInjective(newConns')
  BY <1>a, <1>b, SendToChannel
<1>1. Types'
  BY <1>a, <1>b, <1>c DEF Consistent, Feed, Types, Stages
<1>2. Registers'
  BY DEF Consistent, Feed, Registers
<1>3. NoDuplicates'
  BY <1>a, <1>b, <1>c DEF Consistent, Feed, NoDuplicates
<1>4. Placement'
  BY <1>a, <1>b, <1>c, ServerAssumption DEF Consistent, Feed, Placement, Types,
      ServerAssumption
<1>5. EventsOrdered'
  BY <1>a, <1>b, <1>c DEF Consistent, Feed, EventsOrdered
<1>6. ClosedPlacement'
  BY <1>a, <1>b, <1>c DEF Consistent, Feed, ClosedPlacement, ClosedIsNotServedAgain
<1> QED BY <1>1, <1>2, <1>3, <1>4, <1>5, <1>6 DEF Consistent

\* The end of the listener keeps them consistent.
LEMMA StopListeningInvariant ==
    ASSUME Consistent, StopListening
    PROVE  Consistent'
<1> USE DEF listenerVars, routerVars, loopVars, channels, connVars
<1>1. Types'
  BY DEF Consistent, StopListening, Types, Stages
<1>2. Registers'
  BY DEF Consistent, StopListening, Registers
<1>3. NoDuplicates'
  BY DEF Consistent, StopListening, NoDuplicates
<1>4. Placement'
  BY DEF Consistent, StopListening, Placement
<1>5. EventsOrdered'
  BY DEF Consistent, StopListening, EventsOrdered
<1>6. ClosedPlacement'
  BY DEF Consistent, StopListening, ClosedPlacement, ClosedIsNotServedAgain
<1> QED BY <1>1, <1>2, <1>3, <1>4, <1>5, <1>6 DEF Consistent

\* A call of terminate() keeps them consistent.
LEMMA TerminateInvariant ==
    ASSUME Consistent, Terminate
    PROVE  Consistent'
<1> USE DEF listenerVars, routerVars, loopVars, channels, connVars
<1>1. Types'
  BY DEF Consistent, Terminate, Types
<1>2. Registers'
  BY DEF Consistent, Terminate, Registers
<1>3. NoDuplicates'
  BY DEF Consistent, Terminate, NoDuplicates
<1>4. Placement'
  BY DEF Consistent, Terminate, Placement
<1>5. EventsOrdered'
  BY DEF Consistent, Terminate, EventsOrdered
<1>6. ClosedPlacement'
  BY DEF Consistent, Terminate, ClosedPlacement, ClosedIsNotServedAgain
<1> QED BY <1>1, <1>2, <1>3, <1>4, <1>5, <1>6 DEF Consistent

\* Taking a new connection keeps them consistent.
LEMMA TakeNewInvariant ==
    ASSUME Consistent, TakeNew
    PROVE  Consistent'
<1> USE DEF listenerVars, routerVars, loopVars, channels, connVars
<1>a. newConns \in Seq(Conns) /\ newConns # <<>> /\ IsInjective(newConns)
  BY DEF Consistent, TakeNew, Types, NoDuplicates
<1>b. PICK c \in Conns : c = Head(newConns) /\ stage[c] = "new"
  BY <1>a, ReceiveFromChannel DEF Consistent, Placement
<1>c. newConns' = Tail(newConns) /\ stage' = [stage EXCEPT ![c] = "routing"]
  BY <1>b DEF TakeNew, RouteTo
<1>d. /\ newConns' \in Seq(Conns) /\ IsInjective(newConns')
      /\ ToSet(newConns') = ToSet(newConns) \ {c}
  BY <1>a, <1>b, <1>c, ReceiveFromChannel
<1>e. PICK p \in RouteNew : RouteTo(c, p)
  BY <1>b DEF TakeNew
<1>1. Types'
  BY ServerAssumption, SMTT(25) DEF Consistent, TakeNew, RouteTo, Types, Stages, Registers,
      ServerAssumption
<1>2. Registers'
  BY ServerAssumption DEF Consistent, TakeNew, RouteTo, Registers, Types, ServerAssumption
<1>3. NoDuplicates'
  BY <1>a, <1>b, <1>c, <1>d, <1>e DEF Consistent, TakeNew, RouteTo, NoDuplicates
<1>4. Placement'
  BY <1>a, <1>b, <1>c, <1>d, <1>e, ServerAssumption, SMTT(25) DEF Consistent, TakeNew, RouteTo,
      Placement, Types, Registers, ServerAssumption
<1>5. EventsOrdered'
  BY <1>a, <1>b, <1>c, <1>d, <1>e DEF Consistent, TakeNew, RouteTo, EventsOrdered, Types
<1>6. ClosedPlacement'
  BY <1>a, <1>b, <1>c, <1>d, <1>e DEF Consistent, TakeNew, RouteTo, ClosedPlacement,
      ClosedIsNotServedAgain
<1> QED BY <1>1, <1>2, <1>3, <1>4, <1>5, <1>6 DEF Consistent

\* Taking a connection a dialog handed back keeps them consistent.
LEMMA TakeReturnedInvariant ==
    ASSUME Consistent, TakeReturned
    PROVE  Consistent'
<1> USE DEF listenerVars, routerVars, loopVars, channels, connVars
<1>a. retConns \in Seq(Conns) /\ retConns # <<>> /\ IsInjective(retConns)
  BY DEF Consistent, TakeReturned, Types, NoDuplicates
<1>b. PICK c \in Conns : c = Head(retConns) /\ stage[c] = "returned"
  BY <1>a, ReceiveFromChannel DEF Consistent, Placement
<1>c. retConns' = Tail(retConns) /\ stage' = [stage EXCEPT ![c] = "routing"]
  BY <1>b DEF TakeReturned, RouteTo
<1>d. /\ retConns' \in Seq(Conns) /\ IsInjective(retConns')
      /\ ToSet(retConns') = ToSet(retConns) \ {c}
  BY <1>a, <1>b, <1>c, ReceiveFromChannel
<1>e. PICK p \in ReturnedVerdicts(c) : RouteTo(c, p)
  BY <1>b DEF TakeReturned
<1>1. Types'
  BY ServerAssumption DEF Consistent, TakeReturned, RouteTo, ReturnedVerdicts, Types,
      Stages, Registers, ServerAssumption
<1>2. Registers'
  BY ServerAssumption DEF Consistent, TakeReturned, RouteTo, ReturnedVerdicts, Registers,
      Types, ServerAssumption
<1>3. NoDuplicates'
  BY <1>a, <1>b, <1>c, <1>d, <1>e DEF Consistent, TakeReturned, RouteTo, ReturnedVerdicts,
      NoDuplicates
<1>4. Placement'
  BY <1>a, <1>b, <1>c, <1>d, <1>e, ServerAssumption DEF Consistent, TakeReturned, RouteTo,
      ReturnedVerdicts, Placement, Types, Registers, ServerAssumption
<1>5. EventsOrdered'
  BY <1>a, <1>b, <1>c, <1>d, <1>e DEF Consistent, TakeReturned, RouteTo, ReturnedVerdicts,
      EventsOrdered
<1>6. ClosedPlacement'
  BY DEF Consistent, TakeReturned, RouteTo, ReturnedVerdicts, ClosedPlacement,
      ClosedIsNotServedAgain
<1> QED BY <1>1, <1>2, <1>3, <1>4, <1>5, <1>6 DEF Consistent

\* Sending a connection to its processor keeps them consistent.
LEMMA RouteInvariant ==
    ASSUME Consistent, Route
    PROVE  Consistent'
<1> USE DEF listenerVars, routerVars, loopVars, channels, connVars
<1>a. PICK c \in Conns : c = inHand /\ stage[c] = "routing" /\ assigned[c] \in Procs
  BY ServerAssumption DEF Consistent, Route, Types, Registers, Placement
<1>b. PICK p \in Procs : p = assigned[c] /\ c \notin ToSet(queue[p])
  BY <1>a DEF Consistent, Placement
<1>c. queue \in [Procs -> Seq(Conns)] /\ queue' = [queue EXCEPT ![p] = Append(@, c)]
  BY <1>a, <1>b DEF Consistent, Route, Types
<1>d. PICK s \in Seq(Conns) : s = queue[p] /\ IsInjective(s) /\ c \notin ToSet(s)
  BY <1>b, <1>c DEF Consistent, NoDuplicates
<1>e. queue'[p] = Append(s, c)
  BY <1>c, <1>d
<1>g. /\ queue'[p] \in Seq(Conns) /\ queue'[p] # <<>> /\ IsInjective(queue'[p])
      /\ ToSet(queue'[p]) = ToSet(queue[p]) \cup {c}
  BY <1>d, <1>e, SendToChannel
<1>h. \A q \in Procs \ {p} : queue'[q] = queue[q]
  BY <1>c
<1>f. stage' = [stage EXCEPT ![c] = "queued"]
  BY <1>a DEF Route
<1>1. Types'
  BY <1>a, <1>b, <1>c, <1>d, <1>e, <1>g, <1>h, <1>f, SMTT(25) DEF Consistent, Route, Types, Stages
<1>2. Registers'
  BY DEF Consistent, Route, Registers
<1>3. NoDuplicates'
  BY <1>a, <1>b, <1>c, <1>d, <1>e, <1>g, <1>h, <1>f DEF Consistent, Route, NoDuplicates
<1>4. Placement'
  <2>1. assigned' = assigned /\ inHand' = NoConn
    BY DEF Route
  <2>2. ASSUME NEW d \in Conns, NEW q \in Procs
        PROVE  /\ (stage[d] = "queued" /\ assigned[d] = q)' <=> (d \in ToSet(queue[q]))'
               /\ (stage[d] = "arriving" /\ assigned[d] = q)' <=> (arriving[q] = d)'
    BY <1>a, <1>b, <1>f, <1>g, <1>h, <2>1 DEF Consistent, Route, Types, Placement
  <2>3. ASSUME NEW d \in Conns
        PROVE  /\ (stage[d] = "routing" <=> inHand = d)'
               /\ (stage[d] \in {"queued", "arriving"} => assigned[d] \in Procs)'
    BY <1>a, <1>f, <2>1, ServerAssumption DEF Consistent, Types, Placement, ServerAssumption
  <2> QED BY <1>a, <1>f, <2>1, <2>2, <2>3 DEF Consistent, Route, Types, Placement
<1>5. EventsOrdered'
  BY <1>a, <1>b, <1>c, <1>d, <1>e, <1>g, <1>h, <1>f DEF Consistent, Route, EventsOrdered
<1>6. ClosedPlacement'
  BY ServerAssumption DEF Consistent, Route, ClosedPlacement, ClosedIsNotServedAgain,
      ServerAssumption
<1> QED BY <1>1, <1>2, <1>3, <1>4, <1>5, <1>6 DEF Consistent

\* Shutting down a connection no processor is to serve keeps them consistent.
LEMMA DisconnectInvariant ==
    ASSUME Consistent, Disconnect
    PROVE  Consistent'
<1> USE DEF listenerVars, routerVars, loopVars, channels, connVars
<1>a. PICK c \in Conns : c = inHand /\ stage[c] = "routing"
  BY ServerAssumption DEF Consistent, Disconnect, Types, Registers, Placement
<1>1. Types'
  BY <1>a DEF Consistent, Disconnect, Types, Stages
<1>2. Registers'
  BY DEF Consistent, Disconnect, Registers
<1>3. NoDuplicates'
  BY DEF Consistent, Disconnect, NoDuplicates
<1>4. Placement'
  BY ServerAssumption DEF Consistent, Disconnect, Placement, Types, ServerAssumption
<1>5. EventsOrdered'
  BY <1>a DEF Consistent, Disconnect, EventsOrdered, Types
<1>6. ClosedPlacement'
  BY ServerAssumption DEF Consistent, Disconnect, ClosedPlacement, ClosedIsNotServedAgain,
      ServerAssumption
<1> QED BY <1>1, <1>2, <1>3, <1>4, <1>5, <1>6 DEF Consistent

\* The end of the routing task keeps them consistent.
LEMMA EndRoutingInvariant ==
    ASSUME Consistent, EndRouting
    PROVE  Consistent'
<1> USE DEF listenerVars, routerVars, loopVars, channels, connVars
<1>a. ToSet(retConns') = {} /\ IsInjective(retConns') /\ retConns' \in Seq(Conns)
  BY EmptyChannel, EmptySeq DEF EndRouting
<1>1. Types'
  BY DEF Consistent, EndRouting, NewConnsEnded, Types, Stages
<1>2. Registers'
  BY DEF Consistent, EndRouting, NewConnsEnded, Registers
<1>3. NoDuplicates'
  BY DEF Consistent, EndRouting, NewConnsEnded, NoDuplicates
<1>4. Placement'
  BY <1>a DEF Consistent, EndRouting, NewConnsEnded, Placement
<1>5. EventsOrdered'
  BY DEF Consistent, EndRouting, NewConnsEnded, EventsOrdered
<1>6. ClosedPlacement'
  BY DEF Consistent, EndRouting, NewConnsEnded, ClosedPlacement, ClosedIsNotServedAgain
<1> QED BY <1>1, <1>2, <1>3, <1>4, <1>5, <1>6 DEF Consistent

\* A connection taken by a processor's loop keeps them consistent.
LEMMA ArriveInvariant ==
    ASSUME Consistent, NEW p \in Procs, Arrive(p)
    PROVE  Consistent'
<1> USE DEF listenerVars, routerVars, loopVars, channels, connVars
<1>a. queue \in [Procs -> Seq(Conns)] /\ queue[p] # <<>> /\ IsInjective(queue[p])
  BY DEF Consistent, Arrive, Types, NoDuplicates
<1>b. PICK c \in Conns : c = Head(queue[p]) /\ stage[c] = "queued" /\ assigned[c] = p
  BY <1>a, ReceiveFromChannel DEF Consistent, Placement
<1>c. /\ Tail(queue[p]) \in Seq(Conns) /\ IsInjective(Tail(queue[p]))
      /\ ToSet(Tail(queue[p])) = ToSet(queue[p]) \ {c}
  BY <1>a, <1>b, ReceiveFromChannel
<1>d. /\ queue'[p] \in Seq(Conns) /\ IsInjective(queue'[p])
      /\ ToSet(queue'[p]) = ToSet(queue[p]) \ {c}
      /\ \A q \in Procs \ {p} : queue'[q] = queue[q]
  BY <1>a, <1>c DEF Arrive
<1>1. Types'
  BY DEF Consistent, Arrive, Types, Stages, Registers
<1>2. Registers'
  BY ServerAssumption DEF Consistent, Arrive, Registers, Types, ServerAssumption
<1>3. NoDuplicates'
  BY <1>a, <1>b, <1>c, <1>d DEF Consistent, Arrive, NoDuplicates
<1>4. Placement'
  <2>1. stage' = [stage EXCEPT ![c] = "arriving"] /\ assigned' = assigned
    BY <1>b DEF Arrive
  <2>2. arriving' = [arriving EXCEPT ![p] = c] /\ arriving[p] = NoConn
    BY <1>b DEF Consistent, Registers, Arrive
  <2>3. ASSUME NEW d \in Conns, NEW q \in Procs
        PROVE  /\ (stage[d] = "queued" /\ assigned[d] = q)' <=> (d \in ToSet(queue[q]))'
               /\ (stage[d] = "arriving" /\ assigned[d] = q)' <=> (arriving[q] = d)'
    BY <1>b, <1>d, <2>1, <2>2, ServerAssumption DEF Consistent, Types, Placement, ServerAssumption
  <2> QED BY <1>b, <2>1, <2>3, SMTT(25) DEF Consistent, Arrive, Types, Placement
<1>5. EventsOrdered'
  BY <1>a, <1>b, <1>c, <1>d DEF Consistent, Arrive, EventsOrdered
<1>6. ClosedPlacement'
  BY <1>a, <1>b, <1>c, <1>d DEF Consistent, Arrive, ClosedPlacement, ClosedIsNotServedAgain
<1> QED BY <1>1, <1>2, <1>3, <1>4, <1>5, <1>6 DEF Consistent

\* A connection whose peer address cannot be read keeps them consistent.
LEMMA RefuseUnknownPeerInvariant ==
    ASSUME Consistent, NEW p \in Procs, RefuseUnknownPeer(p)
    PROVE  Consistent'
<1> USE DEF listenerVars, routerVars, loopVars, channels, connVars
<1>a. queue \in [Procs -> Seq(Conns)] /\ queue[p] # <<>> /\ IsInjective(queue[p])
  BY DEF Consistent, RefuseUnknownPeer, Types, NoDuplicates
<1>b. PICK c \in Conns : c = Head(queue[p]) /\ stage[c] = "queued" /\ assigned[c] = p
  BY <1>a, ReceiveFromChannel DEF Consistent, Placement
<1>c. /\ Tail(queue[p]) \in Seq(Conns) /\ IsInjective(Tail(queue[p]))
      /\ ToSet(Tail(queue[p])) = ToSet(queue[p]) \ {c}
  BY <1>a, <1>b, ReceiveFromChannel
<1>d. /\ queue'[p] \in Seq(Conns) /\ IsInjective(queue'[p])
      /\ ToSet(queue'[p]) = ToSet(queue[p]) \ {c}
      /\ \A q \in Procs \ {p} : queue'[q] = queue[q]
  BY <1>a, <1>c DEF RefuseUnknownPeer
<1>1. Types'
  BY SMTT(25) DEF Consistent, RefuseUnknownPeer, Types, Stages, Registers
<1>2. Registers'
  BY DEF Consistent, RefuseUnknownPeer, Registers
<1>3. NoDuplicates'
  BY <1>a, <1>b, <1>c, <1>d DEF Consistent, RefuseUnknownPeer, NoDuplicates
<1>4. Placement'
  BY <1>a, <1>b, <1>c, <1>d DEF Consistent, RefuseUnknownPeer, Placement, Types, Registers
<1>5. EventsOrdered'
  BY <1>a, <1>b, <1>c, <1>d DEF Consistent, RefuseUnknownPeer, EventsOrdered
<1>6. ClosedPlacement'
  BY DEF Consistent, RefuseUnknownPeer, ClosedPlacement, ClosedIsNotServedAgain
<1> QED BY <1>1, <1>2, <1>3, <1>4, <1>5, <1>6 DEF Consistent

\* Spawning the dialog of a connection keeps them consistent.
LEMMA SpawnDialogInvariant ==
    ASSUME Consistent, NEW p \in Procs, SpawnDialog(p)
    PROVE  Consistent'
<1> USE DEF listenerVars, routerVars, loopVars, channels, connVars
<1>a. PICK c \in Conns : c = arriving[p] /\ stage[c] = "arriving" /\ assigned[c] = p
  BY ServerAssumption DEF Consistent, SpawnDialog, Types, Registers, Placement
<1>1. Types'
  BY <1>a DEF Consistent, SpawnDialog, Types, Stages
<1>2. Registers'
  BY DEF Consistent, SpawnDialog, Registers, Types
<1>3. NoDuplicates'
  BY DEF Consistent, SpawnDialog, NoDuplicates
<1>4. Placement'
  BY ServerAssumption, SMTT(25) DEF Consistent, SpawnDialog, Placement, Types, ServerAssumption
<1>5. EventsOrdered'
  BY <1>a DEF Consistent, SpawnDialog, EventsOrdered
<1>6. ClosedPlacement'
  BY <1>a DEF Consistent, SpawnDialog, ClosedPlacement, ClosedIsNotServedAgain
<1> QED BY <1>1, <1>2, <1>3, <1>4, <1>5, <1>6 DEF Consistent

\* The end of a processor's loop keeps them consistent.
LEMMA EndLoopInvariant ==
    ASSUME Consistent, NEW p \in Procs, EndLoop(p)
    PROVE  Consistent'
<1> USE DEF listenerVars, routerVars, loopVars, channels, connVars
<1>1. Types'
  BY DEF Consistent, EndLoop, QueueEnded, Types, Stages
<1>2. Registers'
  BY DEF Consistent, EndLoop, QueueEnded, Registers
<1>3. NoDuplicates'
  BY DEF Consistent, EndLoop, QueueEnded, NoDuplicates
<1>4. Placement'
  BY DEF Consistent, EndLoop, QueueEnded, Placement
<1>5. EventsOrdered'
  BY DEF Consistent, EndLoop, QueueEnded, EventsOrdered
<1>6. ClosedPlacement'
  BY DEF Consistent, EndLoop, QueueEnded, ClosedPlacement, ClosedIsNotServedAgain
<1> QED BY <1>1, <1>2, <1>3, <1>4, <1>5, <1>6 DEF Consistent

\* Signalling the end of a loop keeps them consistent.
LEMMA SignalCompletionInvariant ==
    ASSUME Consistent, NEW p \in Procs, SignalCompletion(p)
    PROVE  Consistent'
<1> USE DEF listenerVars, routerVars, loopVars, channels, connVars
<1>1. Types'
  BY DEF Consistent, SignalCompletion, Types, Stages
<1>2. Registers'
  BY DEF Consistent, SignalCompletion, Registers
<1>3. NoDuplicates'
  BY DEF Consistent, SignalCompletion, NoDuplicates
<1>4. Placement'
  BY DEF Consistent, SignalCompletion, Placement
<1>5. EventsOrdered'
  BY DEF Consistent, SignalCompletion, EventsOrdered
<1>6. ClosedPlacement'
  BY DEF Consistent, SignalCompletion, ClosedPlacement, ClosedIsNotServedAgain
<1> QED BY <1>1, <1>2, <1>3, <1>4, <1>5, <1>6 DEF Consistent

\* The end of a dialog keeps them consistent.
LEMMA FinishDialogInvariant ==
    ASSUME Consistent, NEW c \in Conns, NEW isClosed \in BOOLEAN, FinishDialog(c, isClosed)
    PROVE  Consistent'
<1> USE DEF listenerVars, routerVars, loopVars, channels, connVars
<1>1. Types'
  BY DEF Consistent, FinishDialog, Types, Stages
<1>2. Registers'
  BY DEF Consistent, FinishDialog, Registers
<1>3. NoDuplicates'
  BY DEF Consistent, FinishDialog, NoDuplicates
<1>4. Placement'
  BY DEF Consistent, FinishDialog, Placement
<1>5. EventsOrdered'
  BY DEF Consistent, FinishDialog, EventsOrdered
<1>6. ClosedPlacement'
  BY DEF Consistent, FinishDialog, ClosedPlacement, ClosedIsNotServedAgain, Types, Placement
<1> QED BY <1>1, <1>2, <1>3, <1>4, <1>5, <1>6 DEF Consistent

\* A dialog that ends in an error keeps them consistent.
LEMMA FailDialogInvariant ==
    ASSUME Consistent, NEW c \in Conns, FailDialog(c)
    PROVE  Consistent'
<1> USE DEF listenerVars, routerVars, loopVars, channels, connVars
<1>1. Types'
  BY DEF Consistent, FailDialog, Types, Stages
<1>2. Registers'
  BY DEF Consistent, FailDialog, Registers
<1>3. NoDuplicates'
  BY DEF Consistent, FailDialog, NoDuplicates
<1>4. Placement'
  BY DEF Consistent, FailDialog, Placement
<1>5. EventsOrdered'
  BY DEF Consistent, FailDialog, EventsOrdered
<1>6. ClosedPlacement'
  BY DEF Consistent, FailDialog, ClosedPlacement, ClosedIsNotServedAgain
<1> QED BY <1>1, <1>2, <1>3, <1>4, <1>5, <1>6 DEF Consistent

\* A dialog that hands its connection back keeps them consistent.
LEMMA HandBackInvariant ==
    ASSUME Consistent, NEW c \in Conns, HandBack(c)
    PROVE  Consistent'
<1> USE DEF listenerVars, routerVars, loopVars, channels, connVars
<1>a. c \notin ToSet(retConns)
  BY DEF Consistent, HandBack, Placement
<1>b. retConns \in Seq(Conns) /\ IsInjective(retConns) /\ retConns' = Append(retConns, c)
  BY DEF Consistent, HandBack, Types, NoDuplicates
<1>c. /\ retConns' \in Seq(Conns) /\ retConns' # <<>>
      /\ ToSet(retConns') = ToSet(retConns) \cup {c}
      /\ IsInjective(retConns')
  BY <1>a, <1>b, SendToChannel
<1>1. Types'
  BY DEF Consistent, HandBack, Types, Stages
<1>2. Registers'
  BY DEF Consistent, HandBack, Registers
<1>3. NoDuplicates'
  BY <1>a, <1>b, <1>c DEF Consistent, HandBack, NoDuplicates
<1>4. Placement'
  BY <1>a, <1>b, <1>c DEF Consistent, HandBack, Placement, Types
<1>5. EventsOrdered'
  BY DEF Consistent, HandBack, EventsOrdered
<1>6. ClosedPlacement'
  BY DEF Consistent, HandBack, ClosedPlacement, ClosedIsNotServedAgain
<1> QED BY <1>1, <1>2, <1>3, <1>4, <1>5, <1>6 DEF Consistent

\* A hand-back to a router that is gone keeps them consistent.
LEMMA HandBackFailsInvariant ==
    ASSUME Consistent, NEW c \in Conns, HandBackFails(c)
    PROVE  Consistent'
<1> USE DEF listenerVars, routerVars, loopVars, channels, connVars
<1>1. Types'
  BY DEF Consistent, HandBackFails, Types, Stages
<1>2. Registers'
  BY DEF Consistent, HandBackFails, Registers
<1>3. NoDuplicates'
  BY DEF Consistent, HandBackFails, NoDuplicates
<1>4. Placement'
  BY DEF Consistent, HandBackFails, Placement
<1>5. EventsOrdered'
  BY DEF Consistent, HandBackFails, EventsOrdered
<1>6. ClosedPlacement'
  BY DEF Consistent, HandBackFails, ClosedPlacement, ClosedIsNotServedAgain
<1> QED BY <1>1, <1>2, <1>3, <1>4, <1>5, <1>6 DEF Consistent

\* The return of the waiter keeps them consistent.
LEMMA WaiterReturnsInvariant ==
    ASSUME Consistent, WaiterReturns
    PROVE  Consistent'
<1> USE DEF listenerVars, routerVars, loopVars, channels, connVars
<1>1. Types'
  BY DEF Consistent, WaiterReturns, Types, Stages
<1>2. Registers'
  BY DEF Consistent, WaiterReturns, Registers
<1>3. NoDuplicates'
  BY DEF Consistent, WaiterReturns, NoDuplicates
<1>4. Placement'
  BY DEF Consistent, WaiterReturns, Placement
<1>5. EventsOrdered'
  BY DEF Consistent, WaiterReturns, EventsOrdered
<1>6. ClosedPlacement'
  BY DEF Consistent, WaiterReturns, ClosedPlacement, ClosedIsNotServedAgain
<1> QED BY <1>1, <1>2, <1>3, <1>4, <1>5, <1>6 DEF Consistent
\* Every step of the server keeps every owner and counter consistent.
LEMMA ConsistentStep == Consistent /\ [Next]_vars => Consistent'
<1> SUFFICES ASSUME Consistent, [Next]_vars PROVE Consistent'
  OBVIOUS
<1>1. CASE Listener
  BY <1>1, AcceptInvariant, FeedInvariant, StopListeningInvariant DEF Listener
<1>2. CASE Terminate
  BY <1>2, TerminateInvariant
<1>3. CASE Router
  BY <1>3, TakeNewInvariant, TakeReturnedInvariant, RouteInvariant, DisconnectInvariant,
     EndRoutingInvariant DEF Router
<1>4. ASSUME NEW p \in Procs, Loop(p) PROVE Consistent'
  BY <1>4, ArriveInvariant, RefuseUnknownPeerInvariant, SpawnDialogInvariant,
     EndLoopInvariant, SignalCompletionInvariant DEF Loop
<1>5. ASSUME NEW c \in Conns, Task(c) PROVE Consistent'
  BY <1>5, FinishDialogInvariant, FailDialogInvariant, HandBackInvariant,
     HandBackFailsInvariant DEF Task
<1>6. CASE WaiterReturns
  BY <1>6, WaiterReturnsInvariant
<1>7. CASE UNCHANGED vars
  BY <1>7 DEF vars, listenerVars, routerVars, loopVars, channels, connVars, Consistent,
     Types, Registers, Placement, NoDuplicates, EventsOrdered, ClosedPlacement,
     ClosedIsNotServedAgain
<1> QED BY <1>1, <1>2, <1>3, <1>4, <1>5, <1>6, <1>7 DEF Next, Stopped

-----------------------------------------------------------------------------
(* The rest of the invariant: what a service that was set up adds to it *)

\* What is lost was announced: the listener and the routing task do not end
\* before every accepted connection was taken.
LEMMA LostWasAnnounced ==
    ASSUME IInv, [Next]_vars, NEW c \in Conns, stage'[c] = "lost"
    PROVE  connects'[c] = 1
<1> USE DEF listenerVars, routerVars, loopVars, channels, connVars
<1>t. Types /\ Registers /\ Placement
  BY DEF IInv, Consistent
<1>1. ASSUME stage[c] \notin {"unopened", "feeding", "new"}, connects'[c] = connects[c]
      PROVE  connects'[c] = 1
  BY <1>1 DEF IInv, EventsPaired
<1>2. CASE Listener
  <2>1. stage[c] = "lost" /\ connects' = connects
    BY <1>2, <1>t, ServerAssumption
    DEF Listener, Accept, Feed, StopListening, Types, Registers, ServerAssumption
  <2> QED BY <1>1, <2>1
<1>3. CASE Terminate \/ WaiterReturns \/ UNCHANGED vars
  BY <1>1, <1>3 DEF Terminate, WaiterReturns, vars
<1>4. CASE TakeNew \/ TakeReturned
  <2>1. PICK d \in Conns : stage' = [stage EXCEPT ![d] = "routing"]
                           /\ \A e \in Conns : e # d => connects'[e] = connects[e]
    <3>1. CASE TakeNew
      <4>1. Head(newConns) \in Conns
        BY <1>t, <3>1, ReceiveFromChannel DEF TakeNew, IInv, Consistent, NoDuplicates, Types
      <4> QED BY <1>t, <3>1, <4>1 DEF TakeNew, RouteTo, Types
    <3>2. CASE TakeReturned
      <4>1. Head(retConns) \in Conns
        BY <1>t, <3>2, ReceiveFromChannel DEF TakeReturned, IInv, Consistent, NoDuplicates, Types
      <4> QED BY <1>t, <3>2, <4>1 DEF TakeReturned, RouteTo, Types
    <3> QED BY <1>4, <3>1, <3>2
  <2>2. stage[c] = "lost" /\ connects'[c] = connects[c]
    BY <1>t, <2>1 DEF Types
  <2> QED BY <1>1, <2>2
<1>5. CASE Route \/ Disconnect
  <2>1. stage[c] = "lost" /\ connects' = connects
    BY <1>5, <1>t, ServerAssumption DEF Route, Disconnect, Types, Registers, ServerAssumption
  <2> QED BY <1>1, <2>1
<1>6. CASE EndRouting
  <2>1. stage[c] \in {"lost", "returned"} /\ connects' = connects
    BY <1>6, <1>t DEF EndRouting, Types
  <2> QED BY <1>1, <2>1
<1>7. ASSUME NEW p \in Procs, Loop(p) PROVE connects'[c] = 1
  <2>1. queue[p] # <<>> => Head(queue[p]) \in Conns /\ stage[Head(queue[p])] = "queued"
    BY <1>t, ReceiveFromChannel DEF IInv, Consistent, NoDuplicates, Types, Placement
  <2>2. stage[c] \in {"lost", "queued"} /\ connects' = connects
    <3>1. CASE Arrive(p) \/ RefuseUnknownPeer(p)
      BY <1>t, <2>1, <3>1 DEF Arrive, RefuseUnknownPeer, Types
    <3>2. CASE SpawnDialog(p)
      <4>1. arriving[p] \in Conns
        BY <1>t, <3>2, ServerAssumption DEF SpawnDialog, Types, Registers, ServerAssumption
      <4> QED BY <1>t, <3>2, <4>1 DEF SpawnDialog, Types
    <3>3. CASE EndLoop(p) \/ SignalCompletion(p)
      BY <3>3 DEF EndLoop, SignalCompletion
    <3> QED BY <1>7, <3>1, <3>2, <3>3 DEF Loop
  <2> QED BY <1>1, <2>2
<1>8. ASSUME NEW d \in Conns, Task(d) PROVE connects'[c] = 1
  <2>1. stage[c] \in {"lost", "dialog", "returning"} /\ connects' = connects
    BY <1>8, <1>t DEF Task, FinishDialog, FailDialog, HandBack, HandBackFails, Types
  <2> QED BY <1>1, <2>1
<1> QED BY <1>2, <1>3, <1>4, <1>5, <1>6, <1>7, <1>8 DEF Next, Router, Stopped

\* The parts of the server end in order: the listener, the routing task, the
\* processors' loops and the waiter.
LEMMA EndsInOrder ==
    ASSUME IInv, [Next]_vars
    PROVE  /\ ShutdownOrder'
           /\ listener' # "unbound" /\ router' # "unstarted" /\ waiter' # "untaken"
           /\ \A p \in Procs : loop'[p] # "unspawned"
<1> USE DEF listenerVars, routerVars, loopVars, channels, connVars, IInv, ShutdownOrder, TypeOK
<1>1. CASE Listener
  BY <1>1 DEF Listener, Accept, Feed, StopListening
<1>2. CASE Terminate \/ WaiterReturns \/ UNCHANGED vars
  BY <1>2 DEF Terminate, WaiterReturns, vars
<1>3. CASE TakeNew \/ TakeReturned
  BY <1>3 DEF TakeNew, TakeReturned, RouteTo
<1>4. CASE Route
  BY <1>4 DEF Route
<1>5. CASE Disconnect \/ EndRouting
  BY <1>5 DEF Disconnect, EndRouting, NewConnsEnded
<1>6. ASSUME NEW p \in Procs, Arrive(p) \/ RefuseUnknownPeer(p) \/ SpawnDialog(p)
      PROVE  /\ ShutdownOrder'
             /\ listener' # "unbound" /\ router' # "unstarted" /\ waiter' # "untaken"
             /\ \A q \in Procs : loop'[q] # "unspawned"
  <2>1. CASE Arrive(p)
    BY <2>1 DEF Arrive, Types
  <2>2. CASE RefuseUnknownPeer(p)
    BY <2>2 DEF RefuseUnknownPeer, Types
  <2>3. CASE SpawnDialog(p)
    BY <2>3 DEF SpawnDialog, Types
  <2> QED BY <1>6, <2>1, <2>2, <2>3
<1>7. ASSUME NEW p \in Procs, EndLoop(p) \/ SignalCompletion(p)
      PROVE  /\ ShutdownOrder'
             /\ listener' # "unbound" /\ router' # "unstarted" /\ waiter' # "untaken"
             /\ \A q \in Procs : loop'[q] # "unspawned"
  <2>1. CASE EndLoop(p)
    BY <2>1 DEF EndLoop, QueueEnded, Types
  <2>2. CASE SignalCompletion(p)
    BY <2>2 DEF SignalCompletion, Types
  <2> QED BY <1>7, <2>1, <2>2
<1>8. ASSUME NEW c \in Conns, Task(c)
      PROVE  /\ ShutdownOrder'
             /\ listener' # "unbound" /\ router' # "unstarted" /\ waiter' # "untaken"
             /\ \A q \in Procs : loop'[q] # "unspawned"
  BY <1>8 DEF Task, FinishDialog, FailDialog, HandBack, HandBackFails
<1> QED BY <1>1, <1>2, <1>3, <1>4, <1>5, <1>6, <1>7, <1>8 DEF Next, Router, Loop, Stopped

\* Every step of the server keeps the inductive invariant.
LEMMA NextInvariant == IInv /\ [Next]_vars => IInv'
<1> SUFFICES ASSUME IInv, [Next]_vars PROVE IInv'
  OBVIOUS
<1>1. Consistent'
  BY ConsistentStep DEF IInv
<1>2. EventsPaired'
  BY <1>1, LostWasAnnounced DEF Consistent, EventsOrdered, EventsPaired, Types
<1>3. TypeOK' /\ ShutdownOrder'
  BY <1>1, EndsInOrder DEF Consistent, TypeOK
<1> QED BY <1>1, <1>2, <1>3 DEF IInv

\* The inductive invariant holds in every reachable state of a server.
THEOREM Invariance == Spec => []IInv
BY InitInvariant, NextInvariant, PTL DEF Spec

-----------------------------------------------------------------------------
\* Every variable always has its type; in particular channels only ever hold
\* connections, and none of the held None's is ever sent to one.
THEOREM TypeCorrect == Spec => []TypeOK
<1>1. IInv => TypeOK
  BY DEF IInv
<1> QED BY <1>1, Invariance, PTL

\* Who holds a connection says what is being done with it.
LEMMA CustodyMeans ==
    ASSUME Consistent, NEW k \in Custodians, NEW c \in Custody(k)
    PROVE  /\ c \in Conns
           /\ \/ k = <<"listener", NoProc>> /\ stage[c] = "feeding"
              \/ k = <<"newConns", NoProc>> /\ stage[c] = "new"
              \/ k = <<"router", NoProc>> /\ stage[c] = "routing"
              \/ k = <<"retConns", NoProc>> /\ stage[c] = "returned"
              \/ k = <<"tasks", NoProc>> /\ stage[c] \in {"dialog", "returning"}
              \/ k = <<"queue", assigned[c]>> /\ stage[c] = "queued"
              \/ k = <<"loop", assigned[c]>> /\ stage[c] = "arriving"
<1> USE DEF Consistent, Types, Placement
<1>1. CASE k \in {"listener", "newConns", "router", "retConns", "tasks"} \X {NoProc}
  <2>1. ToSet(newConns) \subseteq Conns /\ ToSet(retConns) \subseteq Conns
    BY ChannelElements
  <2> QED BY <1>1, <2>1 DEF Custody
<1>2. CASE k \in {"queue", "loop"} \X Procs
  <2>1. PICK p \in Procs : k = <<"queue", p>> \/ k = <<"loop", p>>
    BY <1>2
  <2>2. ToSet(queue[p]) \subseteq Conns
    BY ChannelElements
  <2> QED BY <2>1, <2>2 DEF Custody
<1> QED BY <1>1, <1>2 DEF Custodians

\* A connection that exists is in somebody's hands.
LEMMA CustodyExists ==
    ASSUME Consistent, NEW c \in Conns, stage[c] \notin Unowned
    PROVE  \E k \in Custodians : c \in Custody(k)
<1> USE DEF Consistent, Types, Placement, Custodians
<1>1. CASE stage[c] = "feeding"
  <2>1. c \in Custody(<<"listener", NoProc>>)
    BY <1>1, ServerAssumption DEF Custody, ServerAssumption
  <2> QED BY <2>1
<1>2. CASE stage[c] = "new"
  <2>1. c \in Custody(<<"newConns", NoProc>>)
    BY <1>2 DEF Custody
  <2> QED BY <2>1
<1>3. CASE stage[c] = "routing"
  <2>1. c \in Custody(<<"router", NoProc>>)
    BY <1>3, ServerAssumption DEF Custody, ServerAssumption
  <2> QED BY <2>1
<1>4. CASE stage[c] = "returned"
  <2>1. c \in Custody(<<"retConns", NoProc>>)
    BY <1>4 DEF Custody
  <2> QED BY <2>1
<1>5. CASE stage[c] \in {"dialog", "returning"}
  <2>1. c \in Custody(<<"tasks", NoProc>>)
    BY <1>5 DEF Custody
  <2> QED BY <2>1
<1>6. CASE stage[c] = "queued"
  <2>1. assigned[c] \in Procs /\ c \in Custody(<<"queue", assigned[c]>>)
    BY <1>6 DEF Custody
  <2> QED BY <2>1
<1>7. CASE stage[c] = "arriving"
  <2>1. assigned[c] \in Procs /\ c \in Custody(<<"loop", assigned[c]>>)
    BY <1>7, ServerAssumption DEF Custody, ServerAssumption
  <2> QED BY <2>1
<1> QED BY <1>1, <1>2, <1>3, <1>4, <1>5, <1>6, <1>7 DEF Stages, Unowned

\* Who holds what is unambiguous in every consistent state.
LEMMA ConsistentCustody == Consistent => ExclusiveCustody
<1> SUFFICES ASSUME Consistent PROVE ExclusiveCustody
  OBVIOUS
<1>1. ASSUME NEW j \in Custodians, NEW k \in Custodians, NEW c \in Custody(j) \cap Custody(k)
      PROVE  j = k
  BY <1>1, CustodyMeans
<1>2. ASSUME NEW c \in Conns, NEW k \in Custodians, c \in Custody(k)
      PROVE  stage[c] \notin Unowned
  BY <1>2, CustodyMeans DEF Unowned
<1>3. ASSUME NEW c \in Conns, stage[c] \notin Unowned
      PROVE  \E k \in Custodians : c \in Custody(k)
  BY <1>3, CustodyExists
<1> QED BY <1>1, <1>2, <1>3 DEF ExclusiveCustody, Consistent, NoDuplicates

\* Connections are moved between the parts of the server: never in two hands,
\* never twice in a channel, never leaked while they exist.
THEOREM Custodial == Spec => []ExclusiveCustody
<1>1. IInv => ExclusiveCustody
  BY ConsistentCustody DEF IInv
<1> QED BY <1>1, Invariance, PTL

\* A processor never gets a connection that a dialog reported closed.
THEOREM ClosedStaysAway == Spec => []ClosedIsNotServedAgain
<1>1. IInv => ClosedIsNotServedAgain
  BY DEF IInv, Consistent, ClosedPlacement
<1> QED BY <1>1, Invariance, PTL

\* Connected once and first, Disconnected at most once and last.
THEOREM EventPairing == Spec => []EventsPaired
<1>1. IInv => EventsPaired
  BY DEF IInv
<1> QED BY <1>1, Invariance, PTL

\* The error branches labelled BUG in the listener and in the routing task
\* cannot be taken.
THEOREM NoBugBranch == Spec => []ReceiversOutliveSenders
<1>1. IInv => ReceiversOutliveSenders
  BY DEF IInv, Consistent, Types, TypeOK, Registers, ShutdownOrder, ReceiversOutliveSenders
<1> QED BY <1>1, Invariance, PTL

\* No connection is left in a channel once its reader announced termination.
THEOREM Termination == Spec => []TerminationIsFinal
<1>1. ASSUME IInv PROVE TerminationIsFinal
  <2>1. ASSUME NEW p \in Procs, loop[p] \in {"terminating", "ended"}
        PROVE  /\ listener = "stopped" /\ router = "ended"
               /\ newConns = <<>> /\ retConns = <<>> /\ queue[p] = <<>>
    BY <1>1, <2>1 DEF IInv, ShutdownOrder
  <2>2. ASSUME waiter = "done", NEW c \in Conns
        PROVE  stage[c] \in Unowned \cup {"dialog", "returning"}
    <3>1. /\ \A p \in Procs : loop[p] = "ended" /\ queue[p] = <<>>
          /\ listener = "stopped" /\ router = "ended"
          /\ newConns = <<>> /\ retConns = <<>>
      BY <1>1, <2>2, ServerAssumption DEF IInv, ShutdownOrder, ServerAssumption
    <3>2. incoming = NoConn /\ inHand = NoConn /\ \A p \in Procs : arriving[p] = NoConn
      BY <1>1, <3>1 DEF IInv, Consistent, Registers
    <3>3. stage[c] \in Stages
      BY <1>1 DEF IInv, Consistent, Types
    <3>4. stage[c] \notin {"feeding", "routing", "arriving", "new", "returned", "queued"}
      BY <1>1, <3>1, <3>2, EmptyChannel, ServerAssumption
      DEF IInv, Consistent, Placement, ServerAssumption
    <3> QED BY <3>3, <3>4 DEF Stages, Unowned
  <2> QED BY <2>1, <2>2 DEF TerminationIsFinal
<1> QED BY <1>1, Invariance, PTL

-----------------------------------------------------------------------------
(* The server implements ConnectionLife *)

\* A server without connections starts every connection's abstract life.
LEMMA LifeInit == Init => Life!Init
BY DEF Init, Life!Init, Phase, Dead, Announced, Reported

\* How a change of stage shows in the phase of a connection
LEMMA PhaseChange ==
    ASSUME Consistent, NEW c \in Conns, NEW s \in Stages, stage' = [stage EXCEPT ![c] = s]
    PROVE  Phase' = [Phase EXCEPT ![c] = CASE s = "unopened" -> "unopened"
                                           [] s = "dialog" -> "served"
                                           [] s \in {"disconnected", "lost"} -> "gone"
                                           [] OTHER -> "held"]
BY DEF Consistent, Types, Phase

\* Connections dropped together, whatever the reason
LEMMA DropIsLifeDrop ==
    ASSUME Consistent, NEW S \in SUBSET Conns,
           \A c \in S : stage[c] \notin Unowned,
           stage' = [c \in Conns |-> IF c \in S THEN "lost" ELSE stage[c]],
           UNCHANGED <<closed, connects, disconnects>>
    PROVE  Life!Next
<1>1. Phase' = [c \in Conns |-> IF c \in S THEN "gone" ELSE Phase[c]]
  BY DEF Phase
<1>2. \A c \in S : Phase[c] \in {"held", "served"}
  BY DEF Phase, Consistent, Types, Stages, Unowned
<1>3. Life!Drop(S)
  BY <1>1, <1>2 DEF Life!Drop, Dead, Announced, Reported
<1> QED BY <1>3 DEF Life!Next

\* Losing one connection that is owned is a drop in the abstract life.
LEMMA DropOneIsLifeDrop ==
    ASSUME Consistent, NEW c \in Conns, stage[c] \notin Unowned,
           stage' = [stage EXCEPT ![c] = "lost"],
           UNCHANGED <<closed, connects, disconnects>>
    PROVE  Life!Next
<1>1. stage' = [d \in Conns |-> IF d \in {c} THEN "lost" ELSE stage[d]]
  BY DEF Consistent, Types
<1> QED BY <1>1, DropIsLifeDrop

\* Steps that only move a connection around inside the service
LEMMA MoveIsLifeStutter ==
    ASSUME Consistent, NEW c \in Conns, NEW s \in Stages,
           stage[c] \notin Unowned \cup {"dialog"}, s \notin Unowned \cup {"dialog"},
           stage' = [stage EXCEPT ![c] = s],
           UNCHANGED <<closed, connects, disconnects>>
    PROVE  UNCHANGED Life!vars
<1>1. Phase' = Phase
  BY DEF Phase, Consistent, Types, Stages, Unowned
<1> QED BY <1>1 DEF Life!vars, Dead, Announced, Reported

\* Every step of the server is a step of ConnectionLife, or none.
LEMMA LifeStep == Consistent /\ [Next]_vars => [Life!Next]_Life!vars
<1> SUFFICES ASSUME Consistent, [Next]_vars PROVE Life!Next \/ UNCHANGED Life!vars
  OBVIOUS
<1> USE DEF listenerVars, routerVars, loopVars, channels, connVars
<1>t. Types /\ Registers /\ Placement /\ EventsOrdered /\ ClosedPlacement
  BY DEF Consistent
<1>1. ASSUME NEW c \in Conns, Accept(c) PROVE Life!Next
  <2>1. Phase[c] = "unopened" /\ Phase' = [Phase EXCEPT ![c] = "held"]
    BY <1>1, PhaseChange DEF Accept, Phase, Stages
  <2>2. Life!Open(c)
    BY <1>1, <2>1 DEF Accept, Life!Open, Dead, Announced, Reported
  <2> QED BY <2>2 DEF Life!Next
<1>2. CASE Feed
  <2>1. PICK c \in Conns : c = incoming /\ stage[c] = "feeding"
    BY <1>2, <1>t, ServerAssumption DEF Feed, Placement, Types, Registers
  <2> QED BY <1>2, <2>1, MoveIsLifeStutter DEF Feed, Stages, Unowned
<1>3. CASE StopListening \/ Terminate \/ WaiterReturns \/ UNCHANGED vars
  BY <1>3 DEF StopListening, Terminate, WaiterReturns, vars, Life!vars, Phase, Dead,
              Announced, Reported
<1>4. CASE TakeNew
  <2>1. PICK c \in Conns : c = Head(newConns) /\ stage[c] = "new"
    BY <1>4, <1>t, ReceiveFromChannel DEF TakeNew, Consistent, NoDuplicates, Types, Placement
  <2>2. connects[c] = 0
    BY <1>t, <2>1 DEF EventsOrdered
  <2>3. /\ connects' = [connects EXCEPT ![c] = 1]
        /\ stage' = [stage EXCEPT ![c] = "routing"]
        /\ closed' = closed /\ disconnects' = disconnects
    BY <1>4, <2>1, <2>2 DEF TakeNew, RouteTo
  <2>4. Phase[c] = "held" /\ Phase' = Phase
    BY <1>t, <2>1, <2>3 DEF Phase, Types
  <2>5. c \notin Announced /\ Announced' = Announced \cup {c}
    BY <1>t, <2>2, <2>3 DEF Announced, Types
  <2>6. Life!Announce(c)
    BY <2>3, <2>4, <2>5 DEF Life!Announce, Dead, Reported
  <2> QED BY <2>6 DEF Life!Next
<1>5. CASE TakeReturned
  <2>1. PICK c \in Conns : c = Head(retConns) /\ stage[c] = "returned"
    BY <1>5, <1>t, ReceiveFromChannel DEF TakeReturned, Consistent, NoDuplicates, Types, Placement
  <2>2. stage' = [stage EXCEPT ![c] = "routing"] /\ UNCHANGED <<closed, connects, disconnects>>
    BY <1>5, <2>1 DEF TakeReturned, RouteTo
  <2> QED BY <2>1, <2>2, MoveIsLifeStutter DEF Stages, Unowned
<1>6. CASE Route
  <2>1. PICK c \in Conns : c = inHand /\ stage[c] = "routing"
    BY <1>6, <1>t, ServerAssumption DEF Route, Placement, Types, Registers
  <2> QED BY <1>6, <2>1, MoveIsLifeStutter DEF Route, Stages, Unowned
<1>7. CASE Disconnect
  <2>1. PICK c \in Conns : c = inHand /\ stage[c] = "routing"
    BY <1>7, <1>t, ServerAssumption DEF Disconnect, Placement, Types, Registers
  <2>2. connects[c] = 1 /\ disconnects[c] = 0
    BY <1>t, <2>1 DEF EventsOrdered
  <2>3. /\ stage' = [stage EXCEPT ![c] = "disconnected"]
        /\ disconnects' = [disconnects EXCEPT ![c] = 1]
        /\ closed' = closed /\ connects' = connects
    BY <1>7, <2>1, <2>2 DEF Disconnect
  <2>4. Phase[c] = "held" /\ Phase' = [Phase EXCEPT ![c] = "gone"]
    BY <2>1, <2>3, PhaseChange DEF Phase, Stages
  <2>5. c \in Announced /\ Reported' = Reported \cup {c}
    BY <1>t, <2>2, <2>3 DEF Announced, Reported, Types
  <2>6. Life!Report(c)
    BY <2>3, <2>4, <2>5 DEF Life!Report, Dead, Announced
  <2> QED BY <2>6 DEF Life!Next
<1>8. CASE EndRouting
  <2> DEFINE S == {c \in Conns : stage[c] = "returned"}
  <2>1. /\ S \in SUBSET Conns /\ \A c \in S : stage[c] \notin Unowned
        /\ stage' = [c \in Conns |-> IF c \in S THEN "lost" ELSE stage[c]]
        /\ UNCHANGED <<closed, connects, disconnects>>
    BY <1>8 DEF EndRouting, Unowned
  <2>2. PICK T \in SUBSET Conns : T = S
    BY <2>1
  <2> QED BY <2>1, <2>2, DropIsLifeDrop
<1>9. ASSUME NEW p \in Procs, Loop(p) PROVE Life!Next \/ UNCHANGED Life!vars
  <2>1. ASSUME queue[p] # <<>>
        PROVE  \E c \in Conns : c = Head(queue[p]) /\ stage[c] = "queued"
    BY <2>1, <1>t, ReceiveFromChannel DEF Consistent, NoDuplicates, Types, Placement
  <2>2. CASE Arrive(p)
    <3>1. PICK c \in Conns : c = Head(queue[p]) /\ stage[c] = "queued"
      BY <2>1, <2>2 DEF Arrive
    <3> QED BY <2>2, <3>1, MoveIsLifeStutter DEF Arrive, Stages, Unowned
  <2>3. CASE RefuseUnknownPeer(p)
    <3>1. PICK c \in Conns : c = Head(queue[p]) /\ stage[c] = "queued"
      BY <2>1, <2>3 DEF RefuseUnknownPeer
    <3> QED BY <2>3, <3>1, DropOneIsLifeDrop DEF RefuseUnknownPeer, Unowned
  <2>4. CASE SpawnDialog(p)
    <3>1. PICK c \in Conns : c = arriving[p] /\ stage[c] = "arriving"
      BY <2>4, <1>t, ServerAssumption DEF SpawnDialog, Placement, Types, Registers
    <3>2. ~closed[c] /\ connects[c] = 1
      BY <1>t, <3>1 DEF ClosedPlacement, ClosedIsNotServedAgain, EventsOrdered
    <3>3. /\ stage' = [stage EXCEPT ![c] = "dialog"]
          /\ UNCHANGED <<closed, connects, disconnects>>
      BY <2>4, <3>1 DEF SpawnDialog
    <3>4. Phase[c] = "held" /\ Phase' = [Phase EXCEPT ![c] = "served"]
      BY <3>1, <3>3, PhaseChange DEF Phase, Stages
    <3>5. c \in Announced \ Dead
      BY <3>2 DEF Announced, Dead
    <3>6. Life!Serve(c)
      BY <3>3, <3>4, <3>5 DEF Life!Serve, Dead, Announced, Reported
    <3> QED BY <3>6 DEF Life!Next
  <2>5. CASE EndLoop(p) \/ SignalCompletion(p)
    BY <2>5 DEF EndLoop, SignalCompletion, Life!vars, Phase, Dead, Announced, Reported
  <2> QED BY <1>9, <2>2, <2>3, <2>4, <2>5 DEF Loop
<1>10. ASSUME NEW c \in Conns, Task(c) PROVE Life!Next \/ UNCHANGED Life!vars
  <2>1. ASSUME NEW isClosed \in BOOLEAN, FinishDialog(c, isClosed) PROVE Life!Next
    <3>1. ~closed[c]
      BY <1>t, <2>1 DEF FinishDialog, ClosedPlacement, ClosedIsNotServedAgain
    <3>2. Phase[c] = "served" /\ Phase' = [Phase EXCEPT ![c] = "held"]
      BY <2>1, PhaseChange DEF FinishDialog, Phase, Stages
    <3>3. Dead' = IF isClosed THEN Dead \cup {c} ELSE Dead
      BY <1>t, <2>1, <3>1 DEF FinishDialog, Dead, Types
    <3>4. Life!Yield(c)
      BY <2>1, <3>2, <3>3 DEF FinishDialog, Life!Yield, Announced, Reported
    <3> QED BY <3>4 DEF Life!Next
  <2>2. CASE FailDialog(c)
    BY <2>2, DropOneIsLifeDrop DEF FailDialog, Unowned
  <2>3. CASE HandBack(c)
    BY <2>3, MoveIsLifeStutter DEF HandBack, Stages, Unowned
  <2>4. CASE HandBackFails(c)
    BY <2>4, DropOneIsLifeDrop DEF HandBackFails, Unowned
  <2> QED BY <1>10, <2>1, <2>2, <2>3, <2>4 DEF Task
<1> QED BY <1>1, <1>2, <1>3, <1>4, <1>5, <1>6, <1>7, <1>8, <1>9, <1>10
        DEF Next, Listener, Router, Stopped

\* A server keeps, for every connection, the promise of ConnectionLife.
THEOREM Promised == Spec => KeepsPromise
<1>1. IInv => Consistent
  BY DEF IInv
<1> QED BY <1>1, LifeInit, LifeStep, Invariance, PTL DEF Spec, KeepsPromise, Life!Spec

-----------------------------------------------------------------------------
(* The setup of a server: the program's calls in any order *)

\* A server nobody has started meets the invariant of the setup.
LEMMA NewInvariant == New => SetupIInv
<1> SUFFICES ASSUME New PROVE SetupIInv
  OBVIOUS
<1>0. <<>> \in Seq(Conns)
  BY EmptySeq
<1>1. Types
  BY <1>0 DEF New, Types, Stages
<1>2. Registers /\ NoDuplicates
  BY EmptyChannel DEF New, Registers, NoDuplicates
<1>3. Placement
  BY EmptyChannel, ServerAssumption DEF New, Placement, ServerAssumption
<1>4. EventsOrdered /\ ClosedPlacement
  BY DEF New, EventsOrdered, ClosedPlacement, ClosedIsNotServedAgain
<1>5. WaiterInformed /\ RoutesServed
  BY DEF New, WaiterInformed, RoutesServed, Unfed
<1> QED BY <1>1, <1>2, <1>3, <1>4, <1>5 DEF Consistent, SetupIInv

-----------------------------------------------------------------------------
(* The connections stay consistent *)

\* Spawning a processor keeps the server's owners and counters consistent.
LEMMA SpawnProcessorConsistent ==
    ASSUME SetupIInv, NEW p \in Procs, SpawnProcessor(p)
    PROVE  Consistent'
<1> USE DEF listenerVars, routerVars, loopVars, channels, connVars, SetupIInv, Consistent
<1>1. Types'
  BY DEF SpawnProcessor, Types
<1>2. Registers'
  BY DEF SpawnProcessor, Registers, Types
<1>3. Placement' /\ NoDuplicates'
  BY DEF SpawnProcessor, Placement, NoDuplicates
<1>4. EventsOrdered' /\ ClosedPlacement'
  BY DEF SpawnProcessor, EventsOrdered, ClosedPlacement, ClosedIsNotServedAgain
<1> QED BY <1>1, <1>2, <1>3, <1>4

\* A service starts with nothing in its hands.
LEMMA StartConsistent ==
    ASSUME SetupIInv, NEW owned \in SUBSET kept, Start(owned)
    PROVE  Consistent'
<1> USE DEF listenerVars, routerVars, loopVars, channels, connVars, SetupIInv, Consistent
<1>1. Types'
  BY DEF Start, Types
<1>2. Registers'
  BY DEF Start, Registers, Types, RoutesServed
<1>3. Placement' /\ NoDuplicates'
  BY DEF Start, Placement, NoDuplicates
<1>4. EventsOrdered' /\ ClosedPlacement'
  BY DEF Start, EventsOrdered, ClosedPlacement, ClosedIsNotServedAgain, Registers
<1> QED BY <1>1, <1>2, <1>3, <1>4

\* Taking the waiter, and its end on the awaited signals, keep them consistent.
LEMMA WaiterConsistent ==
    ASSUME SetupIInv, TakeWaiter \/ AwaitedEnded
    PROVE  Consistent'
<1> USE DEF listenerVars, routerVars, loopVars, channels, connVars, SetupIInv, Consistent
<1>1. Types'
  BY DEF TakeWaiter, AwaitedEnded, Types
<1>2. Registers' /\ Placement' /\ NoDuplicates'
  BY DEF TakeWaiter, AwaitedEnded, Registers, Placement, NoDuplicates
<1>3. EventsOrdered' /\ ClosedPlacement'
  BY DEF TakeWaiter, AwaitedEnded, EventsOrdered, ClosedPlacement, ClosedIsNotServedAgain
<1> QED BY <1>1, <1>2, <1>3

\* The listener that finds the router gone (`BUG!') keeps them consistent.
LEMMA FeedNobodyConsistent ==
    ASSUME SetupIInv, FeedNobody
    PROVE  Consistent'
<1> USE DEF listenerVars, routerVars, loopVars, channels, connVars, SetupIInv, Consistent
<1>a. PICK c \in Conns : c = incoming /\ stage[c] = "feeding"
  BY ServerAssumption DEF FeedNobody, Types, Registers, Placement, ServerAssumption
<1>b. stage' = [stage EXCEPT ![c] = "lost"] /\ incoming' = NoConn
  BY <1>a DEF FeedNobody
<1>1. Types'
  BY <1>b DEF FeedNobody, Types, Stages
<1>2. Registers' /\ NoDuplicates'
  BY DEF FeedNobody, Registers, NoDuplicates
<1>3. Placement'
  BY <1>a, <1>b, ServerAssumption DEF FeedNobody, Placement, Types, ServerAssumption
<1>4. EventsOrdered'
  BY <1>a, <1>b DEF FeedNobody, EventsOrdered, Types
<1>5. ClosedPlacement'
  BY <1>a, <1>b DEF FeedNobody, ClosedPlacement, ClosedIsNotServedAgain, Types
<1> QED BY <1>1, <1>2, <1>3, <1>4, <1>5

\* The routing task ends and leaves new connections unread.
LEMMA EndRoutingUnusedConsistent ==
    ASSUME SetupIInv, EndRoutingUnused
    PROVE  Consistent'
<1> USE DEF listenerVars, routerVars, loopVars, channels, connVars, SetupIInv, Consistent
<1>a. ToSet(newConns') = {} /\ IsInjective(newConns') /\ newConns' \in Seq(Conns)
  BY EmptyChannel, EmptySeq DEF EndRoutingUnused
<1>1. Types'
  BY <1>a DEF EndRoutingUnused, Types, Stages
<1>2. Registers' /\ NoDuplicates'
  BY <1>a DEF EndRoutingUnused, Registers, NoDuplicates
<1>3. Placement'
  BY <1>a DEF EndRoutingUnused, Placement, Types
<1>4. EventsOrdered'
  BY DEF EndRoutingUnused, EventsOrdered, Types
<1>5. ClosedPlacement'
  BY DEF EndRoutingUnused, ClosedPlacement, ClosedIsNotServedAgain, Types, Registers
<1> QED BY <1>1, <1>2, <1>3, <1>4, <1>5

\* The end of a loop that nothing can feed any more keeps them consistent.
LEMMA EndUnfedLoopConsistent ==
    ASSUME SetupIInv, NEW p \in Procs, EndUnfedLoop(p)
    PROVE  Consistent'
<1> USE DEF listenerVars, routerVars, loopVars, channels, connVars, SetupIInv, Consistent
<1>1. Types'
  BY DEF EndUnfedLoop, Types
<1>2. Registers'
  BY DEF EndUnfedLoop, Registers, Types
<1>3. Placement' /\ NoDuplicates'
  BY DEF EndUnfedLoop, Placement, NoDuplicates
<1>4. EventsOrdered' /\ ClosedPlacement'
  BY DEF EndUnfedLoop, EventsOrdered, ClosedPlacement, ClosedIsNotServedAgain
<1> QED BY <1>1, <1>2, <1>3, <1>4

\* The steps this module shares with ServerService
LEMMA SharedSteps ==
    ASSUME SetupNext \/ UNCHANGED allVars
    PROVE  \/ [Next]_vars
           \/ \E p \in Procs : SpawnProcessor(p) \/ EndUnfedLoop(p)
           \/ \E owned \in SUBSET kept : Start(owned)
           \/ TakeWaiter \/ FeedNobody \/ EndRoutingUnused \/ AwaitedEnded
BY DEF SetupNext, Program, DropChannel, StartFails, EndService, Service, FeedRouter,
       TakeNewOwned, TakeReturnedOwned, Over, allVars, Next, Listener, Router, Loop

\* Every step of the server with its program keeps them consistent.
LEMMA SetupConsistent ==
    ASSUME SetupIInv, SetupNext \/ UNCHANGED allVars
    PROVE  Consistent'
<1>1. Consistent
  BY DEF SetupIInv
<1> QED BY <1>1, SharedSteps, ConsistentStep, SpawnProcessorConsistent, StartConsistent,
        WaiterConsistent, FeedNobodyConsistent, EndRoutingUnusedConsistent,
        EndUnfedLoopConsistent

-----------------------------------------------------------------------------
(* What the program did is what the service relies on *)

\* How a step of the service may move a processor's loop and its queue: it is
\* never spawned, nor does it come back; and only a connection routed to it is
\* added to its queue.
LoopsGoOn ==
    /\ Spawned' = Spawned
    /\ router = "unstarted" => router' = "unstarted" /\ listener' = listener
    /\ router # "unstarted" => router' # "unstarted"
    /\ router = "ended" => router' = "ended"
    /\ \A c \in Conns : assigned'[c] \in routes \cup {NoProc}
    /\ \A p \in Procs :
        /\ loop[p] = "ended" => loop'[p] = "ended"
        /\ completion'[p] => completion[p] \/ loop'[p] = "ended"
        /\ completion[p] => completion'[p]
        /\ loop'[p] \in {"terminating", "ended"} =>
            Unfed(p) /\ queue[p] = <<>> /\ queue'[p] = <<>>

\* Every step of the service moves the loops and their queues as said above.
LEMMA ServiceSteps ==
    ASSUME SetupIInv, Service, UNCHANGED setupVars
    PROVE  LoopsGoOn
<1> USE DEF listenerVars, routerVars, loopVars, channels, connVars, setupVars, LoopsGoOn
<1>t. Types /\ Registers /\ RoutesServed
  BY DEF SetupIInv, Consistent
<1>1. ASSUME NEW c \in Conns, Accept(c) \/ Task(c) PROVE LoopsGoOn
  BY <1>t, <1>1 DEF Accept, Task, FinishDialog, FailDialog, HandBack, HandBackFails, Spawned,
                    RoutesServed
<1>2. CASE FeedRouter \/ FeedNobody \/ StopListening
  BY <1>t, <1>2 DEF FeedRouter, Feed, FeedNobody, StopListening, Spawned, RoutesServed
<1>3. CASE TakeNewOwned \/ TakeReturnedOwned
  BY <1>t, <1>3 DEF TakeNewOwned, TakeReturnedOwned, RoutesOwned, TakeNew, TakeReturned, RouteTo,
                    Spawned, RoutesServed
<1>4. CASE Route
  <2>1. inHand \in Conns /\ assigned[inHand] \in Procs
    BY <1>t, <1>4 DEF Route, Types, Registers
  <2>2. assigned[inHand] \in routes
    BY <1>t, <2>1, ServerAssumption DEF RoutesServed, ServerAssumption
  <2>3. loop[assigned[inHand]] \notin {"terminating", "ended"}
    BY <1>t, <1>4, <2>1, <2>2 DEF Route, RoutesServed, Unfed
  <2> QED BY <1>t, <1>4, <2>1, <2>3 DEF Route, Types, Spawned, RoutesServed
<1>5. CASE Disconnect \/ EndRouting \/ EndRoutingUnused
  BY <1>t, <1>5 DEF Disconnect, EndRouting, EndRoutingUnused, Spawned, RoutesServed
<1>6. ASSUME NEW p \in Procs, Arrive(p) \/ RefuseUnknownPeer(p) PROVE LoopsGoOn
  <2>1. CASE Arrive(p)
    BY <1>t, <2>1, SMTT(60) DEF Arrive, Types, Spawned, RoutesServed
  <2>2. CASE RefuseUnknownPeer(p)
    BY <1>t, <2>2, SMTT(60) DEF RefuseUnknownPeer, Types, Spawned, RoutesServed
  <2> QED BY <1>6, <2>1, <2>2
<1>7. ASSUME NEW p \in Procs, SpawnDialog(p) \/ EndUnfedLoop(p) \/ SignalCompletion(p) PROVE LoopsGoOn
  <2>1. CASE SpawnDialog(p)
    BY <1>t, <2>1 DEF SpawnDialog, Types, Spawned, RoutesServed
  <2>2. CASE EndUnfedLoop(p)
    BY <1>t, <2>2 DEF EndUnfedLoop, Types, Spawned, RoutesServed
  <2>3. CASE SignalCompletion(p)
    BY <1>t, <2>3 DEF SignalCompletion, Types, Spawned, RoutesServed
  <2> QED BY <1>7, <2>1, <2>2, <2>3
<1>8. CASE AwaitedEnded
  BY <1>t, <1>8 DEF AwaitedEnded, Spawned, RoutesServed
<1> QED BY <1>1, <1>2, <1>3, <1>4, <1>5, <1>6, <1>7, <1>8 DEF Service

\* A step of the running service keeps what was set up for waiter and routes.
LEMMA ServiceKeepsSetup ==
    ASSUME SetupIInv, Service, UNCHANGED setupVars
    PROVE  WaiterInformed' /\ RoutesServed'
<1>1. RoutesServed'
  BY ServiceSteps DEF LoopsGoOn, SetupIInv, RoutesServed, Unfed, setupVars
<1>2. waiter' = waiter \/ AwaitedEnded
  BY DEF Service, Accept, Task, FinishDialog, FailDialog, HandBack, HandBackFails, FeedRouter,
         Feed, FeedNobody, StopListening, TakeNewOwned, TakeReturnedOwned, TakeNew,
         TakeReturned, RouteTo, Route, Disconnect, EndRouting, EndRoutingUnused, Arrive,
         RefuseUnknownPeer, SpawnDialog, EndUnfedLoop, SignalCompletion, loopVars
<1>3. WaiterInformed'
  BY <1>2, ServiceSteps DEF LoopsGoOn, SetupIInv, WaiterInformed, AwaitedEnded, Spawned, setupVars
<1> QED BY <1>1, <1>3

\* A call of the owner program keeps what was set up for waiter and routes.
LEMMA ProgramKeepsSetup ==
    ASSUME SetupIInv, Program
    PROVE  WaiterInformed' /\ RoutesServed'
<1> USE DEF listenerVars, routerVars, loopVars, channels, connVars, vars, SetupIInv
<1>t. Types
  BY DEF Consistent
<1>1. ASSUME NEW p \in Procs, SpawnProcessor(p) PROVE WaiterInformed' /\ RoutesServed'
  <2>1. Spawned' = Spawned \cup {p} /\ kept' = kept \cup {p} /\ loop'[p] = "receiving"
    BY <1>t, <1>1 DEF SpawnProcessor, OpenChannel, Spawned, Types
  <2>2. WaiterInformed'
    BY <1>t, <1>1, <2>1 DEF SpawnProcessor, WaiterInformed, Types
  <2>3. RoutesServed'
    BY <1>t, <1>1, <2>1 DEF SpawnProcessor, RoutesServed, Unfed, Types
  <2> QED BY <2>2, <2>3
<1>2. ASSUME NEW owned \in SUBSET kept, Start(owned) PROVE WaiterInformed' /\ RoutesServed'
  <2>1. WaiterInformed'
    BY <1>2 DEF Start, WaiterInformed, Spawned
  <2>2. ASSUME NEW c \in Conns PROVE assigned'[c] \in routes' \cup {NoProc}
    BY <1>2 DEF Start, RoutesServed
  <2>3. RoutesServed'
    BY <1>2, <2>2 DEF Start, RoutesServed, Unfed, Spawned
  <2> QED BY <2>1, <2>3
<1>3. ASSUME \/ \E owned \in SUBSET kept : StartFails(owned)
             \/ \E p \in Procs : DropChannel(p)
      PROVE  WaiterInformed' /\ RoutesServed'
  BY <1>3 DEF StartFails, DropChannel, WaiterInformed, RoutesServed, Unfed, Spawned
<1>4. CASE TakeWaiter
  BY <1>4 DEF TakeWaiter, WaiterInformed, RoutesServed, Unfed, Spawned
<1>5. CASE EndService
  BY <1>5 DEF EndService, Terminate, WaiterInformed, RoutesServed, Unfed, Spawned
<1> QED BY <1>1, <1>2, <1>3, <1>4, <1>5 DEF Program

\* Every step of the server with its program keeps the invariant of the setup.
LEMMA SetupNextInvariant == SetupIInv /\ [SetupNext]_allVars => SetupIInv'
<1> SUFFICES ASSUME SetupIInv, SetupNext \/ UNCHANGED allVars PROVE SetupIInv'
  OBVIOUS
<1>1. Consistent'
  BY SetupConsistent
<1>2. WaiterInformed' /\ RoutesServed'
  <2>1. CASE UNCHANGED allVars
    BY <2>1 DEF allVars, vars, setupVars, listenerVars, routerVars, loopVars, channels, connVars,
                SetupIInv, WaiterInformed, RoutesServed, Unfed, Spawned
  <2> QED BY <2>1, ProgramKeepsSetup, ServiceKeepsSetup DEF SetupNext, Over
<1> QED BY <1>1, <1>2 DEF SetupIInv

\* The invariant of the setup holds in every state, whatever the program calls
\* and in whichever order.
THEOREM SetupInvariance == SetupSpec => []SetupIInv
BY NewInvariant, SetupNextInvariant, PTL DEF SetupSpec

-----------------------------------------------------------------------------
(* Safety, whatever the program calls *)

\* The waiter answers for every processor there is.
THEOREM AnswersForAll == SetupSpec => []WaiterAnswersForAll
<1>1. SetupIInv => WaiterAnswersForAll
  BY DEF SetupIInv, WaiterInformed, WaiterAnswersForAll, Spawned
<1> QED BY <1>1, SetupInvariance, PTL

\* Connections are in one pair of hands, and none is leaked, however the service
\* was set up and ended.
THEOREM SetupCustodial == SetupSpec => []ExclusiveCustody
<1>1. SetupIInv => ExclusiveCustody
  BY ConsistentCustody DEF SetupIInv
<1> QED BY <1>1, SetupInvariance, PTL

\* A processor never gets a connection that was reported closed, whatever the
\* program called and whenever.
THEOREM SetupClosedStaysAway == SetupSpec => []ClosedIsNotServedAgain
<1>1. SetupIInv => ClosedIsNotServedAgain
  BY DEF SetupIInv, Consistent, ClosedPlacement
<1> QED BY <1>1, SetupInvariance, PTL

-----------------------------------------------------------------------------
(* The server implements ConnectionLife, whatever the program calls *)

\* A server nobody has started starts every connection's abstract life.
LEMMA SetupLifeInit == New => Life!Init
BY DEF New, Life!Init, Phase, Dead, Announced, Reported

\* Every step of the server with its program is one of the abstract life, or none.
LEMMA SetupLifeStep == SetupIInv /\ [SetupNext]_allVars => [Life!Next]_Life!vars
<1> SUFFICES ASSUME SetupIInv, SetupNext \/ UNCHANGED allVars
             PROVE  Life!Next \/ UNCHANGED Life!vars
  OBVIOUS
<1> USE DEF listenerVars, routerVars, loopVars, channels, connVars
<1>t. Consistent
  BY DEF SetupIInv
<1>1. CASE [Next]_vars
  BY <1>t, <1>1, LifeStep
<1>2. ASSUME \/ \E p \in Procs : SpawnProcessor(p) \/ EndUnfedLoop(p)
             \/ \E owned \in SUBSET kept : Start(owned)
             \/ TakeWaiter \/ AwaitedEnded
      PROVE  UNCHANGED Life!vars
  BY <1>2 DEF SpawnProcessor, EndUnfedLoop, Start, TakeWaiter, AwaitedEnded,
              Life!vars, Phase, Dead, Announced, Reported
<1>3. CASE FeedNobody
  <2>1. PICK c \in Conns : c = incoming /\ stage[c] = "feeding"
    BY <1>t, <1>3, ServerAssumption
    DEF FeedNobody, Consistent, Types, Registers, Placement, ServerAssumption
  <2> QED BY <1>t, <1>3, <2>1, DropOneIsLifeDrop DEF FeedNobody, Unowned
<1>4. CASE EndRoutingUnused
  <2> DEFINE S == {c \in Conns : stage[c] = "new"}
  <2>1. /\ S \in SUBSET Conns /\ \A c \in S : stage[c] \notin Unowned
        /\ stage' = [c \in Conns |-> IF c \in S THEN "lost" ELSE stage[c]]
        /\ UNCHANGED <<closed, connects, disconnects>>
    BY <1>4 DEF EndRoutingUnused, Unowned
  <2>2. PICK T \in SUBSET Conns : T = S
    BY <2>1
  <2> QED BY <1>t, <2>1, <2>2, DropIsLifeDrop
<1> QED BY <1>1, <1>2, <1>3, <1>4, SharedSteps

\* ... and keeps its promise for every connection.
THEOREM SetupPromised == SetupSpec => KeepsPromise
BY SetupLifeInit, SetupLifeStep, SetupInvariance, PTL
DEF SetupSpec, KeepsPromise, Life!Spec
=============================================================================
