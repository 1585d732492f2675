------------------------ MODULE ClientServiceProofs ------------------------
(***************************************************************************)
(* Machine-checked proofs about ClientService, for every finite set of     *)
(* processors and every routing closure: each action preserves the         *)
(* inductive invariant IInv, from which the safety properties and the      *)
(* refinement of ConnectionLife follow.  Then about ConnectRetries, for    *)
(* every resolution of the host and every set of strategies: the attempts  *)
(* go through all addresses before one is tried again, and however the     *)
(* connection was got it is the client of ClientService.                   *)
(***************************************************************************)
EXTENDS ConnectRetries, FiniteSetTheorems, TLAPS

-----------------------------------------------------------------------------
(* Counting reports *)

Pending == {p \in Procs : reporter[p]}

\* The sets whose sizes the waiter's count is compared with are finite.
LEMMA FiniteCounts ==
    /\ IsFiniteSet(Reporting) /\ Cardinality(Reporting) \in Nat
    /\ IsFiniteSet(Pending) /\ Cardinality(Pending) \in Nat
    /\ Cardinality(Reporting) = 0 <=> Reporting = {}
    /\ Cardinality(Pending) = 0 <=> Pending = {}
<1>1. IsFiniteSet(Procs)
  BY ClientAssumption DEF ClientAssumption
<1>2. IsFiniteSet({"executor"} \cup {"listener"})
  BY FS_Singleton, FS_AddElement
<1>3. Roles = {"executor"} \cup {"listener"}
  BY DEF Roles
<1>4. IsFiniteSet(Roles \X Procs)
  BY <1>1, <1>2, <1>3, FS_Product
<1>5. IsFiniteSet(Reporting) /\ IsFiniteSet(Pending)
  BY <1>1, <1>4, FS_Subset DEF Reporting, Pending
<1> QED BY <1>5, FS_CardinalityType, FS_EmptySet

\* The count is kept by a step that touches neither the reports nor who has one.
LEMMA CountsKept ==
    ASSUME EveryReportCounts, Reporting' = Reporting,
           UNCHANGED <<reporter, reports, latch, waiter>>
    PROVE  EveryReportCounts'
BY DEF EveryReportCounts

\* The parts of the invariant about hooks and reports are kept by a step of the
\* routing task.
LEMMA HooksUntouched ==
    ASSUME IInv, UNCHANGED <<taskVars, hookVars, waitVars>>
    PROVE  HooksFollowTask' /\ EveryReportCounts' /\ WaiterLeavesNobody'
<1> USE DEF taskVars, hookVars, waitVars
<1>1. HooksFollowTask' /\ WaiterLeavesNobody'
  BY DEF IInv, HooksFollowTask, WaiterLeavesNobody, MayReport
<1>2. Reporting' = Reporting
  BY DEF Reporting
<1> QED BY <1>1, <1>2, CountsKept DEF IInv

\* Those about the connection are kept by a step of a hook or of the waiter.
LEMMA ConnectionUntouched ==
    ASSUME IInv, UNCHANGED <<conn, closed, routerVars, task>>
    PROVE  Custody' /\ EventsInOrder'
BY DEF IInv, routerVars, Custody, EventsInOrder, Active

\* A client that has started nothing meets the inductive invariant.
LEMMA InitInvariant == Init => IInv
<1> SUFFICES ASSUME Init PROVE IInv
  OBVIOUS
<1>0. IsFiniteSet(Procs) /\ Cardinality(Procs) \in Nat
  BY ClientAssumption, FS_CardinalityType DEF ClientAssumption
<1>1. TypeOK
  <2>1. hook \in [Roles -> [Procs -> {"off", "armed", "ending", "callback", "reporting",
                                     "flushing", "done"}]]
    BY DEF Init
  <2>2. latch \in Nat
    BY <1>0 DEF Init
  <2>3. peerClosed \in [Procs -> BOOLEAN] /\ reporter \in [Procs -> BOOLEAN]
    BY DEF Init
  <2>4. task \in [Procs -> {"waiting", "arriving", "dialog", "closing", "returning",
                            "leaving", "ended"}]
    BY DEF Init
  <2>5. notice \in [Procs -> {"none", "subscribed", "sent"}]
    BY DEF Init
  <2>6. reports \in 0 .. 1 /\ target \in Procs \cup {NoProc}
    BY DEF Init
  <2>7. waiter \in Listening \cup {"ok", "err", "dropped"}
    BY DEF Init, Listening
  <2> QED BY <2>1, <2>2, <2>3, <2>4, <2>5, <2>6, <2>7 DEF Init, TypeOK
<1>2. Custody /\ EventsInOrder
  BY DEF Init, Custody, EventsInOrder, Active
<1>3. HooksFollowTask /\ WaiterLeavesNobody
  BY DEF Init, HooksFollowTask, WaiterLeavesNobody
<1>4. EveryReportCounts
  <2>1. Reporting = {}
    BY DEF Init, Reporting
  <2>2. {p \in Procs : reporter[p]} = Procs
    BY DEF Init
  <2>3. Cardinality(Reporting) = 0
    BY <2>1, FS_EmptySet
  <2>4. waiter = "kept" /\ waiter \in Listening /\ reports = 0
    BY DEF Init, Listening
  <2>5. latch = reports + Cardinality(Reporting) + Cardinality({p \in Procs : reporter[p]})
    BY <1>0, <2>2, <2>3 DEF Init
  <2> QED BY <2>4, <2>5 DEF EveryReportCounts
<1> QED BY <1>1, <1>2, <1>3, <1>4 DEF IInv

-----------------------------------------------------------------------------
(* Start, and the connection routing task *)

\* Starting the client (one task per processor) keeps the invariant.
LEMMA StartInvariant ==
    ASSUME IInv, Start
    PROVE  IInv'
<1> USE DEF routerVars, taskVars, hookVars, endVars, waitVars
<1>1. CASE Connect
  <2>1. TypeOK'
    BY <1>1 DEF IInv, Connect, TypeOK
  <2>2. Custody' /\ EventsInOrder'
    BY <1>1 DEF IInv, Connect, Custody, EventsInOrder, Active
  <2> QED BY <1>1, <2>1, <2>2, HooksUntouched DEF Connect, IInv
<1>2. CASE ConnectFails
  <2>1. TypeOK'
    BY <1>2 DEF IInv, ConnectFails, TypeOK
  <2>2. Custody' /\ EventsInOrder'
    BY <1>2 DEF IInv, ConnectFails, Custody, EventsInOrder, Active
  <2> QED BY <1>2, <2>1, <2>2, HooksUntouched DEF ConnectFails, IInv
<1> QED BY <1>1, <1>2 DEF Start

\* Routing the connection just opened keeps the invariant.
LEMMA RouteFreshInvariant ==
    ASSUME IInv, RouteFresh
    PROVE  IInv'
<1> USE DEF routerVars, taskVars, hookVars, endVars, waitVars
<1>1. PICK p \in Procs \cup {NoProc} : RouteTo(p)
  BY ClientAssumption DEF RouteFresh, ClientAssumption
<1>2. TypeOK'
  BY <1>1 DEF IInv, RouteFresh, RouteTo, TypeOK
<1>3. Custody' /\ EventsInOrder'
  BY <1>1, ClientAssumption
  DEF IInv, RouteFresh, RouteTo, Custody, EventsInOrder, Active, ClientAssumption
<1> QED BY <1>2, <1>3, HooksUntouched DEF RouteFresh, IInv

\* Taking the connection a dialog handed back keeps the invariant.
LEMMA TakeReturnedInvariant ==
    ASSUME IInv, TakeReturned
    PROVE  IInv'
<1> USE DEF routerVars, taskVars, hookVars, endVars, waitVars
<1>1. PICK p \in Procs \cup {NoProc} : RouteTo(p) /\ (closed => p = NoProc)
  BY ClientAssumption DEF TakeReturned, ReturnedVerdicts, ClientAssumption
<1>2. TypeOK'
  BY <1>1 DEF IInv, TakeReturned, RouteTo, TypeOK
<1>3. Custody' /\ EventsInOrder'
  BY <1>1, ClientAssumption
  DEF IInv, TakeReturned, RouteTo, Custody, EventsInOrder, Active, ClientAssumption
<1> QED BY <1>2, <1>3, HooksUntouched DEF TakeReturned, IInv

\* Sending the connection to a processor, listening or not, keeps the invariant.
LEMMA SendInvariant ==
    ASSUME IInv, Send \/ SendFails
    PROVE  IInv'
<1> USE DEF routerVars, taskVars, hookVars, endVars, waitVars
<1>1. TypeOK'
  BY DEF IInv, Send, SendFails, TypeOK
<1>2. Custody'
  BY DEF IInv, TypeOK, Send, SendFails, Custody, EventsInOrder, Active
<1>3. EventsInOrder'
  BY DEF IInv, Send, SendFails, Custody, EventsInOrder
<1> QED BY <1>1, <1>2, <1>3, HooksUntouched DEF Send, SendFails, IInv

\* Shutting down a connection that no processor is to serve keeps the invariant.
LEMMA DisconnectInvariant ==
    ASSUME IInv, Disconnect
    PROVE  IInv'
<1> USE DEF routerVars, taskVars, hookVars, endVars, waitVars
<1>1. TypeOK'
  BY DEF IInv, Disconnect, TypeOK
<1>2. Custody' /\ EventsInOrder'
  BY DEF IInv, Disconnect, Custody, EventsInOrder, Active
<1> QED BY <1>1, <1>2, HooksUntouched DEF Disconnect, IInv

\* The end of the routing task keeps the invariant.
LEMMA EndRoutingInvariant ==
    ASSUME IInv, EndRouting
    PROVE  IInv'
<1> USE DEF routerVars, taskVars, hookVars, endVars, waitVars
<1>1. TypeOK'
  BY DEF IInv, EndRouting, TypeOK
<1>2. Custody' /\ EventsInOrder'
  BY DEF IInv, EndRouting, Custody, EventsInOrder, Active
<1> QED BY <1>1, <1>2, HooksUntouched DEF EndRouting, IInv

-----------------------------------------------------------------------------
(* The task of a processor *)

\* A step of a task that neither starts a dialog nor uses a new processor up keeps
\* what there is to report.
LEMMA ReportsUntouched ==
    ASSUME IInv, hook' = hook, UNCHANGED <<reporter, waitVars>>
    PROVE  EveryReportCounts'
<1>1. Reporting' = Reporting
  BY DEF Reporting
<1> QED BY <1>1, CountsKept DEF IInv, waitVars

\* A connection that reaches its processor's task keeps the invariant.
LEMMA ArriveInvariant ==
    ASSUME IInv, NEW p \in Procs, Arrive(p)
    PROVE  IInv'
<1> USE DEF routerVars, taskVars, hookVars, endVars, waitVars
<1>1. TypeOK'
  BY DEF IInv, Arrive, TypeOK
<1>2. Custody'
  BY ClientAssumption DEF IInv, TypeOK, Arrive, Custody, EventsInOrder, Active, ClientAssumption
<1>3. EventsInOrder'
  BY DEF IInv, TypeOK, Arrive, Custody, EventsInOrder, Active
<1>4. HooksFollowTask' /\ WaiterLeavesNobody'
  BY DEF IInv, TypeOK, Arrive, HooksFollowTask, WaiterLeavesNobody, MayReport
<1>5. EveryReportCounts'
  BY ReportsUntouched DEF Arrive
<1> QED BY <1>1, <1>2, <1>3, <1>4, <1>5 DEF IInv

\* A connection whose peer address cannot be read keeps the invariant.
LEMMA RefuseUnknownPeerInvariant ==
    ASSUME IInv, NEW p \in Procs, RefuseUnknownPeer(p)
    PROVE  IInv'
<1> USE DEF routerVars, taskVars, hookVars, endVars, waitVars
<1>1. TypeOK'
  BY DEF IInv, RefuseUnknownPeer, TypeOK
<1>2. Custody'
  BY ClientAssumption DEF IInv, TypeOK, RefuseUnknownPeer, Custody, EventsInOrder, Active, ClientAssumption
<1>3. EventsInOrder'
  BY DEF IInv, TypeOK, RefuseUnknownPeer, Custody, EventsInOrder, Active
<1>4. HooksFollowTask' /\ WaiterLeavesNobody'
  BY DEF IInv, TypeOK, RefuseUnknownPeer, HooksFollowTask, WaiterLeavesNobody, MayReport
<1>5. EveryReportCounts'
  BY ReportsUntouched DEF RefuseUnknownPeer
<1> QED BY <1>1, <1>2, <1>3, <1>4, <1>5 DEF IInv

\* Cancelling the outgoing channel of a dialog that is over keeps the invariant.
LEMMA CloseProcessorInvariant ==
    ASSUME IInv, NEW p \in Procs, CloseProcessor(p)
    PROVE  IInv'
<1> USE DEF routerVars, taskVars, hookVars, endVars, waitVars
<1>1. TypeOK'
  BY DEF IInv, CloseProcessor, TypeOK
<1>2. Custody'
  BY ClientAssumption DEF IInv, TypeOK, CloseProcessor, Custody, EventsInOrder, Active, ClientAssumption
<1>3. EventsInOrder'
  BY DEF IInv, TypeOK, CloseProcessor, Custody, EventsInOrder, Active
<1>4. HooksFollowTask' /\ WaiterLeavesNobody'
  BY DEF IInv, TypeOK, CloseProcessor, HooksFollowTask, WaiterLeavesNobody, MayReport
<1>5. EveryReportCounts'
  BY ReportsUntouched DEF CloseProcessor
<1> QED BY <1>1, <1>2, <1>3, <1>4, <1>5 DEF IInv

\* A dialog that ends in an error keeps the invariant.
LEMMA FailDialogInvariant ==
    ASSUME IInv, NEW p \in Procs, FailDialog(p)
    PROVE  IInv'
<1> USE DEF routerVars, taskVars, hookVars, endVars, waitVars
<1>1. TypeOK'
  BY DEF IInv, FailDialog, TypeOK
<1>2. Custody'
  BY ClientAssumption DEF IInv, TypeOK, FailDialog, Custody, EventsInOrder, Active, ClientAssumption
<1>3. EventsInOrder'
  BY DEF IInv, TypeOK, FailDialog, Custody, EventsInOrder, Active
<1>4. HooksFollowTask' /\ WaiterLeavesNobody'
  BY DEF IInv, TypeOK, FailDialog, HooksFollowTask, WaiterLeavesNobody, MayReport
<1>5. EveryReportCounts'
  BY ReportsUntouched DEF FailDialog
<1> QED BY <1>1, <1>2, <1>3, <1>4, <1>5 DEF IInv

\* A dialog that hands its connection back keeps the invariant.
LEMMA HandBackInvariant ==
    ASSUME IInv, NEW p \in Procs, HandBack(p)
    PROVE  IInv'
<1> USE DEF routerVars, taskVars, hookVars, endVars, waitVars
<1>1. TypeOK'
  BY DEF IInv, HandBack, TypeOK
<1>2. Custody'
  BY ClientAssumption DEF IInv, TypeOK, HandBack, Custody, EventsInOrder, Active, ClientAssumption
<1>3. EventsInOrder'
  BY DEF IInv, TypeOK, HandBack, Custody, EventsInOrder, Active
<1>4. HooksFollowTask' /\ WaiterLeavesNobody'
  BY DEF IInv, TypeOK, HandBack, HooksFollowTask, WaiterLeavesNobody, MayReport
<1>5. EveryReportCounts'
  BY ReportsUntouched DEF HandBack
<1> QED BY <1>1, <1>2, <1>3, <1>4, <1>5 DEF IInv

\* The end of a task that handed its connection back keeps the invariant.
LEMMA EndTaskInvariant ==
    ASSUME IInv, NEW p \in Procs, EndTask(p)
    PROVE  IInv'
<1> USE DEF routerVars, taskVars, hookVars, endVars, waitVars
<1>1. TypeOK'
  BY DEF IInv, EndTask, TypeOK
<1>2. Custody'
  BY ClientAssumption DEF IInv, TypeOK, EndTask, Custody, EventsInOrder, Active, ClientAssumption
<1>3. EventsInOrder'
  BY DEF IInv, TypeOK, EndTask, Custody, EventsInOrder, Active
<1>4. HooksFollowTask' /\ WaiterLeavesNobody'
  BY DEF IInv, TypeOK, EndTask, HooksFollowTask, WaiterLeavesNobody, MayReport
<1>5. EveryReportCounts'
  BY ReportsUntouched DEF EndTask
<1> QED BY <1>1, <1>2, <1>3, <1>4, <1>5 DEF IInv

\* The end of a processor's task that never had a dialog keeps the invariant.
LEMMA EndUnusedInvariant ==
    ASSUME IInv, NEW p \in Procs, EndUnused(p)
    PROVE  IInv'
<1> USE DEF routerVars, taskVars, hookVars, endVars, waitVars
<1>1. TypeOK'
  BY DEF IInv, EndUnused, TypeOK
<1>2. Custody'
  BY ClientAssumption DEF IInv, TypeOK, EndUnused, Custody, EventsInOrder, Active, ClientAssumption
<1>3. EventsInOrder'
  BY DEF IInv, TypeOK, EndUnused, Custody, EventsInOrder, Active
<1>4. HooksFollowTask' /\ WaiterLeavesNobody'
  BY DEF IInv, TypeOK, EndUnused, HooksFollowTask, WaiterLeavesNobody, MayReport
<1>5. EveryReportCounts'
  BY ReportsUntouched DEF EndUnused
<1> QED BY <1>1, <1>2, <1>3, <1>4, <1>5 DEF IInv

\* The start of a dialog, with its executor and its shutdown listener, keeps
\* the invariant.
LEMMA StartDialogInvariant ==
    ASSUME IInv, NEW p \in Procs, StartDialog(p)
    PROVE  IInv'
<1> USE DEF routerVars, taskVars, hookVars, endVars, waitVars
<1>0. hook' = [r \in Roles |-> [hook[r] EXCEPT ![p] = "armed"]]
  BY DEF StartDialog
<1>a. /\ \A r \in Roles : hook[r][p] = "off"
      /\ \A r \in Roles : hook'[r][p] = "armed"
      /\ \A r \in Roles, q \in Procs : q # p => hook'[r][q] = hook[r][q]
  BY <1>0 DEF IInv, TypeOK, StartDialog, HooksFollowTask
<1>1. TypeOK'
  BY DEF IInv, StartDialog, TypeOK
<1>2. Custody'
  BY ClientAssumption DEF IInv, TypeOK, StartDialog, Custody, Active, ClientAssumption
<1>3. EventsInOrder'
  BY DEF IInv, TypeOK, StartDialog, Custody, EventsInOrder, Active
<1>4. HooksFollowTask' /\ WaiterLeavesNobody'
  <2>1. reporter[p]
    BY <1>a DEF IInv, HooksFollowTask
  <2>2. task[p] = "arriving" /\ task' = [task EXCEPT ![p] = "dialog"] /\ UNCHANGED <<reporter, waiter>>
    BY DEF StartDialog
  <2>3. HooksFollowTask'
    BY <1>a, <2>1, <2>2 DEF IInv, TypeOK, HooksFollowTask
  <2>4. WaiterLeavesNobody'
    BY <1>a, <2>1, <2>2 DEF IInv, TypeOK, WaiterLeavesNobody, MayReport
  <2> QED BY <2>3, <2>4
<1>5. EveryReportCounts'
  <2>1. Reporting' = Reporting
    BY <1>a DEF Reporting
  <2> QED BY <2>1, CountsKept DEF IInv, StartDialog
<1> QED BY <1>1, <1>2, <1>3, <1>4, <1>5 DEF IInv

\* The end of the dialog's loop, whether the peer closed or not, keeps the
\* invariant.
LEMMA BreakDialogInvariant ==
    ASSUME IInv, NEW p \in Procs, NEW isClosed \in BOOLEAN, BreakDialog(p, isClosed)
    PROVE  IInv'
<1> USE DEF routerVars, taskVars, hookVars, endVars, waitVars
<1>0. hook' = [hook EXCEPT !["executor"][p] = IF @ = "armed" THEN "ending" ELSE @]
  BY DEF BreakDialog
<1>a. \A r \in Roles, q \in Procs :
        \/ hook'[r][q] = hook[r][q]
        \/ q = p /\ r = "executor" /\ hook[r][q] = "armed" /\ hook'[r][q] = "ending"
  BY <1>0 DEF IInv, TypeOK, Roles
<1>1. TypeOK'
  <2>1. hook' \in [Roles -> [Procs -> {"off", "armed", "ending", "callback", "reporting",
                                      "flushing", "done"}]]
    BY <1>0 DEF IInv, TypeOK, Roles
  <2> QED BY <2>1 DEF IInv, BreakDialog, TypeOK
<1>2. Custody'
  BY ClientAssumption DEF IInv, TypeOK, BreakDialog, Custody, Active, ClientAssumption
<1>3. EventsInOrder'
  BY DEF IInv, TypeOK, BreakDialog, Custody, EventsInOrder, Active
<1>4. task[p] = "dialog" /\ task' = [task EXCEPT ![p] = "closing"] /\ UNCHANGED <<reporter, waiter>>
  BY DEF BreakDialog
<1>5. HooksFollowTask' /\ WaiterLeavesNobody'
  BY <1>a, <1>4 DEF IInv, TypeOK, HooksFollowTask, WaiterLeavesNobody, MayReport
<1>6. EveryReportCounts'
  <2>1. Reporting' = Reporting
    BY <1>a DEF Reporting
  <2> QED BY <2>1, CountsKept DEF IInv, BreakDialog
<1> QED BY <1>1, <1>2, <1>3, <1>5, <1>6 DEF IInv

-----------------------------------------------------------------------------
(* The executor of the processor's stream and the shutdown listener *)

\* What a hook may have left to do
HookStages == {"off", "armed", "ending", "callback", "reporting", "flushing", "done"}

\* Moving on one hook of one processor leaves the others alone.
LEMMA HookMoves ==
    ASSUME IInv, NEW r \in Roles, NEW p \in Procs, NEW s \in HookStages,
           hook' = [hook EXCEPT ![r][p] = s]
    PROVE  /\ hook' \in [Roles -> [Procs -> HookStages]]
           /\ hook'[r][p] = s
           /\ \A k \in Roles, q \in Procs : k # r \/ q # p => hook'[k][q] = hook[k][q]
BY DEF IInv, TypeOK, HookStages

\* The rest of the invariant when a hook neither reports nor takes the report's sender.
LEMMA HookGoesOn ==
    ASSUME IInv, NEW r \in Roles, NEW p \in Procs,
           hook[r][p] \in {"armed", "ending"},
           hook' = [hook EXCEPT ![r][p] = "callback"],
           UNCHANGED <<conn, closed, routerVars, task, reporter, waitVars>>
    PROVE  /\ Custody' /\ EventsInOrder' /\ HooksFollowTask'
           /\ EveryReportCounts' /\ WaiterLeavesNobody'
<1> USE DEF waitVars
<1>0. "callback" \in HookStages
  BY DEF HookStages
<1>a. /\ hook' \in [Roles -> [Procs -> HookStages]]
      /\ hook'[r][p] = "callback"
      /\ \A k \in Roles, q \in Procs : k # r \/ q # p => hook'[k][q] = hook[k][q]
  BY <1>0, HookMoves, ZenonT(40)
<1>1. Custody' /\ EventsInOrder'
  BY ConnectionUntouched
<1>2. HooksFollowTask'
  BY <1>a DEF IInv, HooksFollowTask
<1>3. WaiterLeavesNobody'
  BY <1>a DEF IInv, WaiterLeavesNobody, MayReport
<1>4. Reporting' = Reporting
  BY <1>a DEF Reporting
<1> QED BY <1>1, <1>2, <1>3, <1>4, CountsKept DEF IInv

\* The executor that finds its stream ended keeps the invariant.
LEMMA PeerLeftInvariant ==
    ASSUME IInv, NEW p \in Procs, PeerLeft(p)
    PROVE  IInv'
<1> USE DEF routerVars, taskVars, hookVars, endVars, waitVars
<1>0. /\ "executor" \in Roles /\ "callback" \in HookStages
      /\ hook["executor"][p] \in {"armed", "ending"}
      /\ hook' = [hook EXCEPT !["executor"][p] = "callback"]
  BY DEF Roles, HookStages, PeerLeft
<1>1. TypeOK'
  <2>1. hook' \in [Roles -> [Procs -> HookStages]]
    BY <1>0, HookMoves
  <2> QED BY <2>1, ZenonT(40) DEF IInv, PeerLeft, TypeOK, HookStages
<1> QED BY <1>0, <1>1, HookGoesOn DEF PeerLeft, IInv

\* A shutdown listener that hears the termination keeps the invariant.
LEMMA HearTerminationInvariant ==
    ASSUME IInv, NEW p \in Procs, HearTermination(p)
    PROVE  IInv'
<1> USE DEF routerVars, taskVars, hookVars, endVars, waitVars
<1>0. /\ "listener" \in Roles /\ "callback" \in HookStages
      /\ hook["listener"][p] \in {"armed", "ending"}
      /\ hook' = [hook EXCEPT !["listener"][p] = "callback"]
  BY DEF Roles, HookStages, HearTermination
<1>1. TypeOK'
  <2>1. hook' \in [Roles -> [Procs -> HookStages]]
    BY <1>0, HookMoves
  <2> QED BY <2>1 DEF IInv, HearTermination, TypeOK, HookStages
<1> QED BY <1>0, <1>1, HookGoesOn DEF HearTermination, IInv

\* The report of a processor changes hands, from its sender to the hook that
\* took it: the count is the same.
LEMMA TakeReporterInvariant ==
    ASSUME IInv, NEW r \in Roles, NEW p \in Procs, TakeReporter(r, p)
    PROVE  IInv'
<1> USE DEF routerVars, taskVars, hookVars, endVars, waitVars
<1> DEFINE s == IF reporter[p] THEN "reporting" ELSE "flushing"
<1>0. /\ s \in HookStages /\ hook[r][p] = "callback"
      /\ hook' = [hook EXCEPT ![r][p] = s]
      /\ reporter' = [reporter EXCEPT ![p] = FALSE]
  BY DEF HookStages, TakeReporter
<1> HIDE DEF s
<1>a. /\ hook' \in [Roles -> [Procs -> HookStages]]
      /\ hook'[r][p] = s
      /\ \A k \in Roles, q \in Procs : k # r \/ q # p => hook'[k][q] = hook[k][q]
  BY <1>0, HookMoves, ZenonT(40)
<1>b. /\ reporter' \in [Procs -> BOOLEAN] /\ reporter'[p] = FALSE
      /\ \A q \in Procs : q # p => reporter'[q] = reporter[q]
  BY <1>0 DEF IInv, TypeOK
<1>1. TypeOK'
  BY <1>a, <1>b DEF IInv, TakeReporter, TypeOK, HookStages
<1>2. Custody' /\ EventsInOrder'
  BY ConnectionUntouched DEF TakeReporter
<1>3. HooksFollowTask'
  BY <1>0, <1>a, <1>b DEF IInv, TakeReporter, HooksFollowTask, s
<1>4. WaiterLeavesNobody'
  BY <1>0, <1>a, <1>b DEF IInv, TakeReporter, WaiterLeavesNobody, MayReport, s
<1>5. EveryReportCounts'
  <2>1. CASE reporter[p]
    <3>1. <<r, p>> \notin Reporting /\ Reporting' = Reporting \cup {<<r, p>>}
      BY <1>0, <1>a, <2>1 DEF Reporting, s
    <3>2. p \in Pending /\ Pending' = Pending \ {p}
      BY <1>b, <2>1 DEF Pending
    <3>3. Cardinality(Reporting') = Cardinality(Reporting) + 1
      BY <3>1, FiniteCounts, FS_AddElement
    <3>4. Cardinality(Pending') = Cardinality(Pending) - 1
      BY <3>2, FiniteCounts, FS_RemoveElement
    <3>5. CASE waiter \in Listening
      <4>1. latch = reports + Cardinality(Reporting) + Cardinality(Pending)
        BY <3>5 DEF IInv, EveryReportCounts, Pending
      <4>2. latch' = reports' + Cardinality(Reporting') + Cardinality(Pending')
        BY <3>3, <3>4, <4>1, FiniteCounts DEF TakeReporter, IInv, TypeOK
      <4> QED BY <3>5, <4>2 DEF TakeReporter, EveryReportCounts, Pending, Listening
    <3>6. CASE waiter \notin Listening
      <4>1. waiter = "dropped" /\ reports = 0
        BY <1>0, <2>1, <3>6
        DEF IInv, TypeOK, EveryReportCounts, WaiterLeavesNobody, MayReport
      <4> QED BY <4>1 DEF TakeReporter, EveryReportCounts, Listening
    <3> QED BY <3>5, <3>6
  <2>2. CASE ~reporter[p]
    <3>1. Reporting' = Reporting
      BY <1>0, <1>a, <2>2 DEF Reporting, s
    <3>2. reporter' = reporter
      BY <1>0, <2>2 DEF IInv, TypeOK
    <3> QED BY <3>1, <3>2, CountsKept DEF TakeReporter, IInv
  <2> QED BY <2>1, <2>2
<1> QED BY <1>1, <1>2, <1>3, <1>4, <1>5 DEF IInv

\* A disconnection report, by either of the tasks that may make it, keeps the
\* invariant.
LEMMA ReportInvariant ==
    ASSUME IInv, NEW r \in Roles, NEW p \in Procs, Report(r, p)
    PROVE  IInv'
<1> USE DEF routerVars, taskVars, hookVars, endVars, waitVars
<1>0. "flushing" \in HookStages /\ hook[r][p] = "reporting"
      /\ hook' = [hook EXCEPT ![r][p] = "flushing"]
  BY DEF HookStages, Report
<1>a. /\ hook' \in [Roles -> [Procs -> HookStages]]
      /\ hook'[r][p] = "flushing"
      /\ \A k \in Roles, q \in Procs : k # r \/ q # p => hook'[k][q] = hook[k][q]
  BY <1>0, HookMoves, ZenonT(40)
<1>1. TypeOK'
  BY <1>a DEF IInv, Report, TypeOK, HookStages
<1>2. Custody' /\ EventsInOrder'
  BY ConnectionUntouched DEF Report
<1>3. HooksFollowTask'
  BY <1>0, <1>a DEF IInv, Report, HooksFollowTask
<1>4. WaiterLeavesNobody'
  BY <1>0, <1>a DEF IInv, Report, WaiterLeavesNobody, MayReport
<1>5. EveryReportCounts'
  <2>1. <<r, p>> \in Reporting /\ Reporting' = Reporting \ {<<r, p>>}
    BY <1>0, <1>a DEF Reporting
  <2>2. waiter \in Listening
    BY DEF Report
  <2>3. latch = reports + Cardinality(Reporting) + Cardinality(Pending)
    BY <2>2 DEF IInv, EveryReportCounts, Pending
  <2>4. Cardinality(Reporting') = Cardinality(Reporting) - 1
    BY <2>1, FiniteCounts, FS_RemoveElement
  <2>5. Pending' = Pending
    BY DEF Pending, Report
  <2>6. latch' = reports' + Cardinality(Reporting') + Cardinality(Pending')
    BY <2>3, <2>4, <2>5, FiniteCounts DEF Report
  <2> QED BY <2>2, <2>6 DEF Report, EveryReportCounts, Pending, Listening
<1> QED BY <1>1, <1>2, <1>3, <1>4, <1>5 DEF IInv

\* A report that finds the receiver gone, which then was dropped, keeps the invariant.
LEMMA ReportFailsInvariant ==
    ASSUME IInv, NEW r \in Roles, NEW p \in Procs, ReportFails(r, p)
    PROVE  IInv'
<1> USE DEF routerVars, taskVars, hookVars, endVars, waitVars
<1>0. "flushing" \in HookStages /\ hook[r][p] = "reporting"
      /\ hook' = [hook EXCEPT ![r][p] = "flushing"]
  BY DEF HookStages, ReportFails
<1>a. /\ hook' \in [Roles -> [Procs -> HookStages]]
      /\ hook'[r][p] = "flushing"
      /\ \A k \in Roles, q \in Procs : k # r \/ q # p => hook'[k][q] = hook[k][q]
  BY <1>0, HookMoves, ZenonT(40)
<1>1. TypeOK'
  BY <1>a DEF IInv, ReportFails, TypeOK, HookStages
<1>2. Custody' /\ EventsInOrder'
  BY ConnectionUntouched DEF ReportFails
<1>3. HooksFollowTask'
  BY <1>0, <1>a DEF IInv, ReportFails, HooksFollowTask
<1>4. waiter = "dropped" /\ reports = 0
  <2>1. <<r, p>> \in Reporting
    BY <1>0 DEF Reporting
  <2> QED BY <2>1 DEF IInv, TypeOK, ReportFails, EveryReportCounts
<1>5. WaiterLeavesNobody' /\ EveryReportCounts'
  BY <1>4 DEF ReportFails, WaiterLeavesNobody, EveryReportCounts, Listening
<1> QED BY <1>1, <1>2, <1>3, <1>5 DEF IInv

\* Closing the peer after the report keeps the invariant.
LEMMA ClosePeerInvariant ==
    ASSUME IInv, NEW r \in Roles, NEW p \in Procs, ClosePeer(r, p)
    PROVE  IInv'
<1> USE DEF routerVars, taskVars, hookVars, endVars, waitVars
<1>0. "done" \in HookStages /\ hook[r][p] = "flushing"
      /\ hook' = [hook EXCEPT ![r][p] = "done"]
  BY DEF HookStages, ClosePeer
<1>a. /\ hook' \in [Roles -> [Procs -> HookStages]]
      /\ hook'[r][p] = "done"
      /\ \A k \in Roles, q \in Procs : k # r \/ q # p => hook'[k][q] = hook[k][q]
  BY <1>0, HookMoves, ZenonT(40)
<1>1. TypeOK'
  BY <1>a DEF IInv, ClosePeer, TypeOK, HookStages
<1>2. Custody' /\ EventsInOrder'
  BY ConnectionUntouched DEF ClosePeer
<1>3. HooksFollowTask'
  BY <1>0, <1>a DEF IInv, ClosePeer, HooksFollowTask
<1>4. WaiterLeavesNobody'
  BY <1>0, <1>a DEF IInv, ClosePeer, WaiterLeavesNobody, MayReport
<1>5. Reporting' = Reporting
  BY <1>0, <1>a DEF Reporting
<1>6. EveryReportCounts'
  BY <1>5, CountsKept DEF ClosePeer, IInv
<1> QED BY <1>1, <1>2, <1>3, <1>4, <1>6 DEF IInv

-----------------------------------------------------------------------------
(* Termination *)

\* Dropping the receiver leaves nobody to count for.
LEMMA DropReceiverInvariant ==
    ASSUME IInv, DropReceiver, UNCHANGED <<taskVars, hookVars>>
    PROVE  HooksFollowTask' /\ EveryReportCounts' /\ WaiterLeavesNobody'
<1> USE DEF taskVars, hookVars
<1>1. HooksFollowTask'
  BY DEF IInv, HooksFollowTask
<1> QED BY <1>1 DEF DropReceiver, EveryReportCounts, WaiterLeavesNobody, Listening

\* A call of terminate() keeps the invariant.
LEMMA TerminateInvariant ==
    ASSUME IInv, Terminate
    PROVE  IInv'
<1> USE DEF routerVars, taskVars, hookVars, endVars, waitVars
<1>1. TypeOK'
  <2>1. /\ waiter' \in Listening \cup {"ok", "err", "dropped"}
        /\ reports' \in 0 .. 1 /\ latch' \in Nat
    BY DEF IInv, TypeOK, Terminate, DropReceiver
  <2> QED BY <2>1 DEF IInv, Terminate, TypeOK
<1>2. Custody' /\ EventsInOrder'
  BY ConnectionUntouched DEF Terminate
<1>3. HooksFollowTask' /\ EveryReportCounts' /\ WaiterLeavesNobody'
  <2>1. CASE waiter = "kept"
    BY <2>1, DropReceiverInvariant DEF Terminate
  <2>2. CASE waiter # "kept"
    BY <2>2, HooksUntouched DEF Terminate
  <2> QED BY <2>1, <2>2
<1> QED BY <1>1, <1>2, <1>3 DEF IInv

\* Taking the waiter, and awaiting it, keeps the invariant.
LEMMA UseWaiterInvariant ==
    ASSUME IInv, TakeWaiter \/ AwaitWaiter
    PROVE  IInv'
<1> USE DEF routerVars, taskVars, hookVars, endVars, waitVars
<1>1. /\ waiter \in Listening /\ waiter' \in Listening
      /\ waiter' \notin {"ok", "err"}
  BY DEF TakeWaiter, AwaitWaiter, Listening
<1>2. UNCHANGED <<conn, closed, routerVars, taskVars, hookVars, endVars, reports, latch>>
  BY DEF TakeWaiter, AwaitWaiter
<1>3. TypeOK'
  BY <1>1, <1>2 DEF IInv, TypeOK
<1>4. Custody' /\ EventsInOrder'
  BY <1>2, ConnectionUntouched
<1>5. HooksFollowTask'
  BY <1>2 DEF IInv, HooksFollowTask
<1>6. WaiterLeavesNobody'
  BY <1>1 DEF WaiterLeavesNobody
<1>7. EveryReportCounts'
  <2>1. Reporting' = Reporting
    BY <1>2 DEF Reporting
  <2> QED BY <1>1, <1>2, <2>1 DEF IInv, EveryReportCounts
<1> QED BY <1>3, <1>4, <1>5, <1>6, <1>7 DEF IInv

\* Dropping the waiter keeps the invariant.
LEMMA DropWaiterInvariant ==
    ASSUME IInv, DropWaiter
    PROVE  IInv'
<1> USE DEF routerVars, taskVars, hookVars, endVars
<1>1. TypeOK'
  BY DEF IInv, DropWaiter, DropReceiver, TypeOK
<1>2. Custody' /\ EventsInOrder'
  BY ConnectionUntouched DEF DropWaiter
<1> QED BY <1>1, <1>2, DropReceiverInvariant DEF DropWaiter, IInv

\* The waiter takes a report that was counted, and returns with the last of them.
LEMMA WaiterCountsInvariant ==
    ASSUME IInv, WaiterCounts
    PROVE  IInv'
<1> USE DEF routerVars, taskVars, hookVars, endVars, waitVars
<1>1. latch = 1 + Cardinality(Reporting) + Cardinality(Pending)
  BY DEF IInv, WaiterCounts, EveryReportCounts, Pending, Listening
<1>2. latch \in Nat \ {0}
  BY <1>1, FiniteCounts
<1>3. latch = 1 => Reporting = {} /\ Pending = {}
  BY <1>1, FiniteCounts
<1>4. Reporting' = Reporting /\ Pending' = Pending
  BY DEF WaiterCounts, Reporting, Pending
<1>5. TypeOK'
  <2>1. latch' \in Nat /\ reports' \in 0 .. 1 /\ waiter' \in {"awaited", "ok"}
    BY <1>2 DEF WaiterCounts
  <2> QED BY <2>1 DEF IInv, WaiterCounts, TypeOK, Listening
<1>6. Custody' /\ EventsInOrder'
  BY ConnectionUntouched DEF WaiterCounts
<1>7. HooksFollowTask'
  BY DEF IInv, WaiterCounts, HooksFollowTask
<1>8. WaiterLeavesNobody'
  BY <1>3 DEF WaiterCounts, WaiterLeavesNobody, Pending
<1>9. EveryReportCounts'
  <2>1. latch' = reports' + Cardinality(Reporting') + Cardinality(Pending')
    BY <1>1, <1>4, FiniteCounts DEF WaiterCounts
  <2>2. /\ reports' = 0 /\ waiter' \in {"awaited", "ok"}
        /\ waiter' = "ok" => Reporting' = {}
    BY <1>3, <1>4 DEF WaiterCounts
  <2> QED BY <2>1, <2>2 DEF EveryReportCounts, Pending
<1> QED BY <1>5, <1>6, <1>7, <1>8, <1>9 DEF IInv

\* A waiter whose completion signal is dropped keeps the invariant.
LEMMA WaiterGivesUpInvariant ==
    ASSUME IInv, WaiterGivesUp
    PROVE  IInv'
<1> USE DEF routerVars, taskVars, hookVars, endVars, waitVars
<1>1. TypeOK'
  BY DEF IInv, WaiterGivesUp, TypeOK
<1>2. Custody' /\ EventsInOrder'
  BY ConnectionUntouched DEF WaiterGivesUp
<1>3. HooksFollowTask'
  BY DEF IInv, WaiterGivesUp, HooksFollowTask
<1>4. WaiterLeavesNobody'
  BY DEF WaiterGivesUp, WaiterLeavesNobody, MayReport
<1>5. EveryReportCounts'
  BY DEF WaiterGivesUp, EveryReportCounts, Reporting, MayReport, Listening
<1> QED BY <1>1, <1>2, <1>3, <1>4, <1>5 DEF IInv

-----------------------------------------------------------------------------
(* Safety *)

\* What an UNCHANGED step keeps
LEMMA StutterInvariant ==
    ASSUME IInv, UNCHANGED vars
    PROVE  IInv'
<1> USE DEF vars, routerVars, taskVars, hookVars, endVars, waitVars
<1>1. TypeOK'
  BY DEF IInv, TypeOK
<1>2. Custody' /\ EventsInOrder'
  BY ConnectionUntouched
<1> QED BY <1>1, <1>2, HooksUntouched DEF IInv

\* Every step of the routing task keeps the invariant.
LEMMA RouterInvariant ==
    ASSUME IInv, Router
    PROVE  IInv'
BY RouteFreshInvariant, TakeReturnedInvariant, SendInvariant, DisconnectInvariant,
   EndRoutingInvariant DEF Router

\* Every step of a processor's task keeps the invariant.
LEMMA TaskInvariant ==
    ASSUME IInv, NEW p \in Procs, Task(p)
    PROVE  IInv'
BY ArriveInvariant, RefuseUnknownPeerInvariant, StartDialogInvariant, BreakDialogInvariant,
   CloseProcessorInvariant, FailDialogInvariant, HandBackInvariant, EndTaskInvariant,
   EndUnusedInvariant DEF Task

\* Every step preserves the inductive invariant.
LEMMA NextInvariant == IInv /\ [Next]_vars => IInv'
BY StartInvariant, RouterInvariant, TaskInvariant, PeerLeftInvariant,
   HearTerminationInvariant, TakeReporterInvariant, ReportInvariant, ReportFailsInvariant,
   ClosePeerInvariant, TerminateInvariant, UseWaiterInvariant, DropWaiterInvariant,
   WaiterCountsInvariant, WaiterGivesUpInvariant, StutterInvariant
DEF Next, Started, Hook, Stopped

\* The inductive invariant holds in every state the client reaches: its tasks,
\* the reports they count and the waiter agree about every dialog.
THEOREM Invariance == Spec => []IInv
BY InitInvariant, NextInvariant, PTL DEF Spec

\* The types of the variables.
THEOREM TypeCorrect == Spec => []TypeOK
<1>1. IInv => TypeOK
  BY DEF IInv
<1> QED BY <1>1, Invariance, PTL

\* Every processor reports once, however PeerLeft and LocalServiceTermination
\* race, and the waiter is there to receive it unless the program dropped it.
THEOREM ReportsCount == Spec => []EveryReportCounts
<1>1. IInv => EveryReportCounts
  BY DEF IInv
<1> QED BY <1>1, Invariance, PTL

\* The waiter's Ok comes after the last event of every processor.
THEOREM OkAfterAll == Spec => []OkMeansAllReported
<1>1. ASSUME IInv, waiter = "ok", NEW p \in Procs
      PROVE  \E r \in Roles : hook[r][p] \in {"flushing", "done"}
  <2>1. ~reporter[p]
    BY <1>1 DEF IInv, WaiterLeavesNobody
  <2>2. PICK r \in Roles : hook[r][p] \in {"reporting", "flushing", "done"}
    BY <1>1, <2>1 DEF IInv, HooksFollowTask
  <2>3. <<r, p>> \notin Reporting
    BY <1>1 DEF IInv, EveryReportCounts
  <2> QED BY <2>2, <2>3 DEF Reporting
<1>2. IInv => OkMeansAllReported
  BY <1>1 DEF OkMeansAllReported
<1> QED BY <1>2, Invariance, PTL

\* A processor can always hand its connection back.
THEOREM ReturnSucceeds == Spec => []ReturnNeverFails
<1>1. IInv => ReturnNeverFails
  BY DEF IInv, Custody, Active, ReturnNeverFails
<1> QED BY <1>1, Invariance, PTL

-----------------------------------------------------------------------------
(* The client implements ConnectionLife, for its only connection *)

\* A processor that has the connection is the one it was routed to.
LEMMA OneTaskHasIt ==
    ASSUME IInv, NEW p \in Procs,
           task[p] \in {"arriving", "dialog", "closing", "returning"}
    PROVE  conn = "task" /\ target = p
BY DEF IInv, Custody, Active

\* An unstarted client is an unopened connection of the abstract life.
LEMMA LifeInit == Init => Life!Init
<1> SUFFICES ASSUME Init PROVE Life!Init
  OBVIOUS
<1>1. ~(connects > 0) /\ ~(disconnects > 0)
  BY DEF Init
<1>2. Dead = {} /\ Announced = {} /\ Reported = {}
  BY <1>1, Zenon DEF Init, Dead, Announced, Reported
<1>3. Phase = [c \in Connection |-> "unopened"]
  BY DEF Init, Phase
<1> QED BY <1>2, <1>3 DEF Life!Init

\* ... and what was issued for it
LEMMA EventsMean ==
    ASSUME IInv, NEW c \in Connection
    PROVE  /\ Connection = {c}
           /\ Announced = IF connects = 0 THEN {} ELSE {c}
           /\ Reported = IF disconnects = 0 THEN {} ELSE {c}
           /\ Dead = IF closed THEN {c} ELSE {}
<1>1. Connection = {c}
  BY DEF Connection
<1>2. connects \in Nat /\ disconnects \in Nat
  BY DEF IInv, TypeOK
<1>3. (connects > 0 <=> connects # 0) /\ (disconnects > 0 <=> disconnects # 0)
  BY <1>2
<1> QED BY <1>1, <1>3, Zenon DEF Announced, Reported, Dead

\* What is seen of the connection before and after a step
LEMMA PhaseMeans ==
    ASSUME NEW c \in Connection
    PROVE  /\ Phase = [Phase EXCEPT ![c] = Phase[c]]
           /\ conn = "none" => Phase[c] = "unopened"
           /\ conn \in {"disconnected", "lost"} => Phase[c] = "gone"
           /\ conn = "task" /\ task[target] = "dialog" => Phase[c] = "served"
           /\ conn \in {"router", "queue", "returned"} => Phase[c] = "held"
           /\ conn = "task" /\ task[target] # "dialog" => Phase[c] = "held"
BY DEF Phase, Connection

\* There is one connection: its place after a step tells the phase after it.
LEMMA PhaseChange ==
    ASSUME NEW c \in Connection
    PROVE  /\ Phase' = [Phase EXCEPT ![c] = Phase'[c]]
           /\ conn' \in {"disconnected", "lost"} => Phase'[c] = "gone"
           /\ conn' = "task" /\ task'[target'] = "dialog" => Phase'[c] = "served"
           /\ conn' \in {"router", "queue", "returned"} => Phase'[c] = "held"
           /\ conn' = "task" /\ task'[target'] # "dialog" => Phase'[c] = "held"
BY DEF Phase, Connection

\* Steps that only move the connection around inside the client
LEMMA MoveIsLifeStutter ==
    ASSUME NEW c \in Connection, Phase'[c] = Phase[c],
           UNCHANGED <<closed, connects, disconnects>>
    PROVE  UNCHANGED Life!vars
<1>1. Phase' = Phase
  BY DEF Phase, Connection
<1> QED BY <1>1 DEF Life!vars, Dead, Announced, Reported

\* Whoever has the connection drops it
LEMMA DropIsLifeDrop ==
    ASSUME NEW c \in Connection, Phase[c] \in {"held", "served"}, Phase'[c] = "gone",
           UNCHANGED <<closed, connects, disconnects>>
    PROVE  Life!Next
<1>1. Phase' = [d \in Connection |-> IF d \in {c} THEN "gone" ELSE Phase[d]]
  BY DEF Phase, Connection
<1>2. Life!Drop({c})
  BY <1>1 DEF Life!Drop, Dead, Announced, Reported
<1> QED BY <1>2 DEF Life!Next

\* Every step of the client is a step of ConnectionLife, or none.
LEMMA LifeStep == IInv /\ [Next]_vars => [Life!Next]_Life!vars
<1> SUFFICES ASSUME IInv, [Next]_vars PROVE Life!Next \/ UNCHANGED Life!vars
  OBVIOUS
<1> USE DEF routerVars, taskVars, hookVars, endVars, waitVars
<1>t. TypeOK /\ Custody /\ EventsInOrder
  BY DEF IInv
<1>c. PICK c \in Connection : TRUE
  BY DEF Connection
<1>s. ASSUME UNCHANGED <<conn, closed, connects, disconnects, target, task>>
      PROVE  UNCHANGED Life!vars
  BY <1>s DEF Life!vars, Phase, Dead, Announced, Reported
<1>1. CASE Connect
  <2>1. Phase[c] = "unopened" /\ Phase' = [Phase EXCEPT ![c] = "held"]
    BY <1>1, <1>t, PhaseMeans, PhaseChange DEF Connect, Custody
  <2>2. Life!Open(c)
    BY <1>1, <2>1 DEF Connect, Life!Open, Dead, Announced, Reported
  <2> QED BY <2>2 DEF Life!Next
<1>2. CASE ConnectFails \/ EndRouting \/ Terminate \/ TakeWaiter \/ AwaitWaiter
           \/ DropWaiter \/ WaiterCounts \/ WaiterGivesUp \/ UNCHANGED vars
  BY <1>2, <1>s DEF ConnectFails, EndRouting, Terminate, TakeWaiter, AwaitWaiter,
                    DropWaiter, WaiterCounts, WaiterGivesUp, vars
<1>3. CASE RouteFresh
  <2>1. conn' = "router" /\ conn = "router" /\ connects = 0 /\ connects' = 1
    BY <1>3, <1>t DEF RouteFresh, RouteTo, Custody, EventsInOrder
  <2>2. Phase[c] = "held" /\ Phase' = Phase
    BY <2>1, PhaseMeans, PhaseChange
  <2>3. connects' > 0
    BY <2>1
  <2>4. Announced' = Connection
    BY <2>3, Zenon DEF Announced
  <2>5. c \notin Announced /\ Announced' = Announced \cup {c}
    BY <2>1, <2>4, EventsMean
  <2>6. Life!Announce(c)
    BY <1>3, <2>2, <2>5 DEF RouteFresh, Life!Announce, Dead, Reported
  <2> QED BY <2>6 DEF Life!Next
<1>4. CASE TakeReturned \/ Send
  <2>1. conn \in {"returned", "router"} /\ conn' \in {"router", "queue"}
    BY <1>4, <1>t DEF TakeReturned, RouteTo, Send, Custody
  <2>2. UNCHANGED <<closed, connects, disconnects>>
    BY <1>4 DEF TakeReturned, Send
  <2> QED BY <2>1, <2>2, PhaseMeans, PhaseChange, MoveIsLifeStutter
<1>5. CASE SendFails
  <2>1. conn = "router" /\ conn' = "lost" /\ UNCHANGED <<closed, connects, disconnects>>
    BY <1>5, <1>t DEF SendFails, Custody
  <2> QED BY <2>1, PhaseMeans, PhaseChange, DropIsLifeDrop
<1>6. CASE Disconnect
  <2>1. /\ conn = "router" /\ conn' = "disconnected"
        /\ connects = 1 /\ disconnects = 0 /\ disconnects' = 1
    BY <1>6, <1>t DEF Disconnect, Custody, EventsInOrder
  <2>2. Phase[c] = "held" /\ Phase' = [Phase EXCEPT ![c] = "gone"]
    BY <2>1, PhaseMeans, PhaseChange
  <2>3. disconnects' > 0
    BY <2>1
  <2>4. Reported' = Connection
    BY <2>3, Zenon DEF Reported
  <2>5. c \in Announced /\ Reported' = Reported \cup {c}
    BY <2>1, <2>4, EventsMean
  <2>6. Life!Report(c)
    BY <1>6, <2>2, <2>5 DEF Disconnect, Life!Report, Dead, Announced
  <2> QED BY <2>6 DEF Life!Next
<1>7. ASSUME NEW p \in Procs, Task(p) PROVE Life!Next \/ UNCHANGED Life!vars
  <2>1. CASE Arrive(p)
    <3>1. conn = "queue" /\ conn' = "task" /\ task'[target'] # "dialog"
      BY <2>1, <1>t DEF Arrive, TypeOK
    <3> QED BY <2>1, <3>1, PhaseMeans, PhaseChange, MoveIsLifeStutter DEF Arrive
  <2>2. CASE RefuseUnknownPeer(p)
    BY <2>2, PhaseMeans, PhaseChange, DropIsLifeDrop DEF RefuseUnknownPeer
  <2>3. CASE StartDialog(p)
    <3>1. conn = "task" /\ target = p /\ task[target] # "dialog"
      BY <2>3, OneTaskHasIt DEF StartDialog
    <3>2. conn' = "task" /\ task'[target'] = "dialog"
      BY <2>3, <1>t, <3>1 DEF StartDialog, TypeOK
    <3>3. Phase[c] = "held" /\ Phase' = [Phase EXCEPT ![c] = "served"]
      BY <3>1, <3>2, PhaseMeans, PhaseChange
    <3>4. connects = 1 /\ ~closed
      BY <2>3, <1>t, <3>1 DEF StartDialog, Custody, EventsInOrder
    <3>5. c \in Announced \ Dead
      BY <3>4, EventsMean
    <3>6. Life!Serve(c)
      BY <2>3, <3>3, <3>5 DEF StartDialog, Life!Serve, Dead, Announced, Reported
    <3> QED BY <3>6 DEF Life!Next
  <2>4. ASSUME NEW isClosed \in BOOLEAN, BreakDialog(p, isClosed) PROVE Life!Next
    <3>1. conn = "task" /\ target = p /\ task[target] = "dialog"
      BY <2>4, OneTaskHasIt DEF BreakDialog
    <3>2. conn' = "task" /\ task'[target'] # "dialog"
      BY <2>4, <1>t, <3>1 DEF BreakDialog, TypeOK
    <3>3. Phase[c] = "served" /\ Phase' = [Phase EXCEPT ![c] = "held"]
      BY <3>1, <3>2, PhaseMeans, PhaseChange
    <3>4. Dead' \in {Dead, Dead \cup {c}}
      BY <2>4, <1>t DEF BreakDialog, TypeOK, Dead, Connection
    <3>5. Life!Yield(c)
      BY <2>4, <3>3, <3>4 DEF BreakDialog, Life!Yield, Announced, Reported
    <3> QED BY <3>5 DEF Life!Next
  <2>5. CASE CloseProcessor(p)
    <3>1. conn = "task" /\ target = p /\ task[target] # "dialog"
      BY <2>5, OneTaskHasIt DEF CloseProcessor
    <3>2. conn' = "task" /\ task'[target'] # "dialog"
      BY <2>5, <1>t, <3>1 DEF CloseProcessor, TypeOK
    <3> QED BY <2>5, <3>1, <3>2, PhaseMeans, PhaseChange, MoveIsLifeStutter
            DEF CloseProcessor
  <2>6. CASE FailDialog(p)
    <3>1. conn = "task" /\ conn' = "lost"
      BY <2>6, OneTaskHasIt DEF FailDialog
    <3> QED BY <2>6, <3>1, PhaseMeans, PhaseChange, DropIsLifeDrop DEF FailDialog
  <2>7. CASE HandBack(p)
    <3>1. conn = "task" /\ task[target] # "dialog" /\ conn' = "returned"
      BY <2>7, OneTaskHasIt DEF HandBack
    <3> QED BY <2>7, <3>1, PhaseMeans, PhaseChange, MoveIsLifeStutter DEF HandBack
  <2>8. CASE EndTask(p) \/ EndUnused(p)
    <3>1. CASE conn = "queue" /\ conn' = "lost"
      BY <2>8, <3>1, PhaseMeans, PhaseChange, DropIsLifeDrop DEF EndTask, EndUnused
    <3>2. CASE conn' = conn
      <4>1. conn = "task" => task'[target] = task[target]
        BY <2>8, <1>t DEF EndTask, EndUnused, TypeOK, Custody, Active
      <4>2. Phase' = Phase
        BY <2>8, <3>2, <4>1 DEF EndTask, EndUnused, Phase
      <4> QED BY <2>8, <4>2 DEF EndTask, EndUnused, Life!vars, Dead, Announced, Reported
    <3> QED BY <2>8, <3>1, <3>2 DEF EndTask, EndUnused
  <2> QED BY <1>7, <2>1, <2>2, <2>3, <2>4, <2>5, <2>6, <2>7, <2>8 DEF Task
<1>8. ASSUME NEW p \in Procs, PeerLeft(p) \/ HearTermination(p) PROVE UNCHANGED Life!vars
  BY <1>8, <1>s DEF PeerLeft, HearTermination
<1>9. ASSUME NEW r \in Roles, NEW p \in Procs, Hook(r, p) PROVE UNCHANGED Life!vars
  BY <1>9, <1>s DEF Hook, TakeReporter, Report, ReportFails, ClosePeer
<1> QED BY <1>1, <1>2, <1>3, <1>4, <1>5, <1>6, <1>7, <1>8, <1>9
        DEF Next, Start, Started, Router, Stopped

\* A client keeps, for its connection, the promise of ConnectionLife.
THEOREM Promised == Spec => KeepsPromise
BY LifeInit, LifeStep, Invariance, PTL DEF Spec, KeepsPromise, Life!Spec

-----------------------------------------------------------------------------
(* The attempts to connect *)

\* The addresses of the last resolution that were tried
Tried == Addresses \ untried

(***************************************************************************)
(* While the client is connecting, either no attempt was made yet; or the  *)
(* failures so far are the addresses tried of the first resolution, none   *)
(* of which accepts connections; or all of them failed.                    *)
(***************************************************************************)
AttemptsInTurn ==
    \/ failures = 0 /\ untried = {}
    \/ failures = Cardinality(Tried) /\ untried # {} /\ Tried \cap listening = {}
    \/ failures >= Cardinality(Addresses) /\ listening = {}

RetriesIInv ==
    /\ strategy \in Strategies
    /\ listening \subseteq Addresses
    /\ untried \subseteq Addresses
    /\ failures \in Nat
    /\ router = "connecting" => AttemptsInTurn
    /\ ListeningIsFound

\* The host resolves to one address or more.
LEMMA AddressCount ==
    /\ IsFiniteSet(Addresses) /\ Cardinality(Addresses) \in Nat \ {0}
    /\ \A S \in SUBSET Addresses : IsFiniteSet(S) /\ Cardinality(S) \in Nat
<1>1. IsFiniteSet(Addresses) /\ Addresses # {}
  BY RetriesAssumption DEF RetriesAssumption
<1>2. Cardinality(Addresses) \in Nat /\ Cardinality(Addresses) # 0
  BY <1>1, FS_CardinalityType, FS_EmptySet
<1>3. ASSUME NEW S \in SUBSET Addresses PROVE IsFiniteSet(S) /\ Cardinality(S) \in Nat
  BY <1>1, FS_Subset, FS_CardinalityType
<1> QED BY <1>1, <1>2, <1>3

\* As long as addresses are left of the first resolution, fewer attempts failed
\* than there are addresses.
LEMMA FewerThanAll ==
    ASSUME RetriesIInv, untried # {}
    PROVE  Cardinality(Tried) < Cardinality(Addresses)
<1>1. Tried \subseteq Addresses /\ Tried # Addresses
  BY DEF RetriesIInv, Tried
<1>2. Cardinality(Tried) <= Cardinality(Addresses) /\ Cardinality(Tried) # Cardinality(Addresses)
  BY <1>1, AddressCount, FS_Subset
<1> QED BY <1>1, <1>2, AddressCount

\* Failures that are the addresses tried in turn are too few for one of them to
\* have been left out.
LEMMA InTurnFinds ==
    ASSUME RetriesIInv, AttemptsInTurn
    PROVE  ListeningIsFound
BY AddressCount, FewerThanAll DEF RetriesIInv, AttemptsInTurn, ListeningIsFound

\* A failed attempt is one at an address that was not tried before, or all were.
LEMMA FailureInTurn ==
    ASSUME RetriesIInv, router = "connecting", NEW a \in Addresses, FailToConnectTo(a)
    PROVE  /\ untried' \subseteq Addresses /\ failures' \in Nat
           /\ AttemptsInTurn' /\ ListeningIsFound'
<1>1. /\ a \in Turn \ listening /\ Turn \subseteq Addresses
      /\ untried' = Turn \ {a} /\ listening' = listening
  BY DEF FailToConnectTo, Turn, RetriesIInv
<1>2. strategy.attempts \in Nat
  BY RetriesAssumption DEF RetriesIInv, RetriesAssumption
<1>3. /\ failures \in Nat /\ failures' \in {failures, failures + 1}
      /\ failures < Cardinality(Addresses) => failures' = failures + 1
  BY <1>2, AddressCount DEF RetriesIInv, FailToConnectTo, FailuresBound
<1>4. AttemptsInTurn
  BY DEF RetriesIInv
<1>5. CASE failures = 0 /\ untried = {}
  <2>1. Turn = Addresses /\ failures' = 1 /\ Tried' = {a}
    BY <1>1, <1>3, <1>5, AddressCount DEF Turn, Tried
  <2>2. Cardinality({a}) = 1
    BY FS_Singleton
  <2>3. CASE untried' = {}
    <3>1. Addresses = {a} /\ listening' = {}
      BY <1>1, <2>1, <2>3 DEF RetriesIInv
    <3> QED BY <1>1, <2>1, <2>2, <3>1 DEF AttemptsInTurn, ListeningIsFound
  <2>4. CASE untried' # {}
    <3>1. {a} \subseteq Addresses /\ {a} # Addresses
      BY <1>1, <2>1, <2>4
    <3>2. Cardinality(Addresses) > 1
      BY <2>2, <3>1, AddressCount, FS_Subset
    <3>3. failures' = Cardinality(Tried') /\ Tried' \cap listening' = {}
      BY <1>1, <2>1, <2>2
    <3>4. AttemptsInTurn'
      BY <2>4, <3>3 DEF AttemptsInTurn
    <3>5. ListeningIsFound'
      BY <2>1, <3>2, AddressCount DEF ListeningIsFound
    <3>6. untried' \subseteq Addresses /\ failures' \in Nat
      BY <1>1, <2>1
    <3> QED BY <3>4, <3>5, <3>6
  <2> QED BY <2>3, <2>4
<1>6. CASE failures = Cardinality(Tried) /\ untried # {} /\ Tried \cap listening = {}
  <2>1. /\ Turn = untried /\ a \notin Tried /\ Tried' = Tried \cup {a}
        /\ Tried' \subseteq Addresses /\ Tried' \cap listening' = {}
    BY <1>1, <1>6 DEF Turn, Tried
  <2>2. Cardinality(Tried') = Cardinality(Tried) + 1
    BY <2>1, AddressCount, FS_AddElement
  <2>3. failures' = Cardinality(Tried')
    BY <1>3, <1>6, <2>2, FewerThanAll
  <2>4. CASE untried' = {}
    <3>1. Tried' = Addresses /\ listening' = {}
      BY <1>1, <2>1, <2>4 DEF RetriesIInv, Tried
    <3> QED BY <1>1, <1>3, <2>3, <2>4, <3>1, AddressCount DEF AttemptsInTurn, ListeningIsFound
  <2>5. CASE untried' # {}
    <3>1. Tried' # Addresses
      BY <1>1, <2>5 DEF Tried
    <3>2. Cardinality(Tried') < Cardinality(Addresses)
      BY <2>1, <3>1, AddressCount, FS_Subset
    <3>3. AttemptsInTurn' /\ ListeningIsFound'
      BY <1>3, <2>1, <2>3, <2>5, <3>2, AddressCount DEF AttemptsInTurn, ListeningIsFound
    <3> QED BY <1>1, <1>3, <3>3
  <2> QED BY <2>4, <2>5
<1>7. CASE failures >= Cardinality(Addresses) /\ listening = {}
  BY <1>1, <1>3, <1>7, AddressCount DEF AttemptsInTurn, ListeningIsFound
<1> QED BY <1>4, <1>5, <1>6, <1>7 DEF AttemptsInTurn

\* A client that has attempted nothing meets the invariant of the retries.
LEMMA RetriesInitInvariant == RetriesInit => RetriesIInv
BY AddressCount DEF RetriesInit, RetriesIInv, AttemptsInTurn, ListeningIsFound

\* Nobody connects again once the attempts are over.
LEMMA ConnectingOnce ==
    ASSUME Started \/ UNCHANGED vars, router' = "connecting"
    PROVE  router = "connecting"
BY DEF Started, Router, RouteFresh, RouteTo, TakeReturned, Send, SendFails, Disconnect,
       EndRouting, Task, Arrive, RefuseUnknownPeer, StartDialog, BreakDialog,
       CloseProcessor, FailDialog, HandBack, EndTask, EndUnused, PeerLeft,
       HearTermination, Hook, TakeReporter, Report, ReportFails, ClosePeer, Terminate,
       TakeWaiter, AwaitWaiter, DropWaiter, WaiterCounts, WaiterGivesUp, Stopped, vars, routerVars

\* Every attempt, and every step of the client behind it, keeps that invariant.
LEMMA RetriesNextInvariant ==
    RetriesIInv /\ [RetriesNext]_<<vars, retryVars>> => RetriesIInv'
<1> SUFFICES ASSUME RetriesIInv, [RetriesNext]_<<vars, retryVars>> PROVE RetriesIInv'
  OBVIOUS
<1>1. ASSUME NEW a \in Addresses, ConnectTo(a) PROVE RetriesIInv'
  <2>1. router' = "opened"
    BY <1>1 DEF ConnectTo, Connect
  <2>2. untried' \subseteq Addresses
    BY <1>1 DEF ConnectTo, Turn, RetriesIInv
  <2> QED BY <1>1, <2>1, <2>2 DEF ConnectTo, RetriesIInv, ListeningIsFound
<1>2. ASSUME NEW a \in Addresses, Retry(a) \/ GiveUp(a) PROVE RetriesIInv'
  <2>1. router = "connecting" /\ FailToConnectTo(a)
    BY <1>2 DEF Retry, GiveUp, ConnectFails
  <2>2. strategy' = strategy /\ listening' = listening
    BY <2>1 DEF FailToConnectTo
  <2> QED BY <2>1, <2>2, FailureInTurn DEF RetriesIInv
<1>3. CASE ResolutionFails
  <2>1. router' = "ended" /\ UNCHANGED retryVars
    BY <1>3 DEF ResolutionFails, ConnectFails
  <2> QED BY <2>1 DEF retryVars, RetriesIInv, ListeningIsFound
<1>4. CASE (Started \/ UNCHANGED vars) /\ UNCHANGED retryVars
  <2>1. router' = "connecting" => router = "connecting"
    BY <1>4, ConnectingOnce
  <2> QED BY <1>4, <2>1
          DEF retryVars, RetriesIInv, ListeningIsFound, AttemptsInTurn, Tried
<1> QED BY <1>1, <1>2, <1>3, <1>4 DEF RetriesNext, ConnectRetryable

\* As many attempts as the host has addresses find one that accepts connections.
THEOREM FindsListening == RetriesSpec => []ListeningIsFound
<1>1. RetriesIInv => ListeningIsFound
  BY DEF RetriesIInv
<1> QED BY <1>1, RetriesInitInvariant, RetriesNextInvariant, PTL DEF RetriesSpec

\* However it gets its connection, it is the client of ClientService.
THEOREM IsClient == RetriesSpec => Spec
<1>1. RetriesInit => Init
  BY DEF RetriesInit
<1>2. [RetriesNext]_<<vars, retryVars>> => [Next]_vars
  BY DEF RetriesNext, ConnectRetryable, ConnectTo, Retry, GiveUp, ResolutionFails, Next, Start
<1> QED BY <1>1, <1>2, PTL DEF RetriesSpec, Spec

\* ... with its reports counted, and the promise of ConnectionLife kept.
THEOREM RetriesKeepPromise == RetriesSpec => KeepsPromise /\ []IInv
BY IsClient, Promised, Invariance, PTL
=============================================================================
