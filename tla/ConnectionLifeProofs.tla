------------------------- MODULE ConnectionLifeProofs -------------------------
(* What the contract of ConnectionLife amounts to, for any connections. *)
EXTENDS ConnectionLife, TLAPS

\* Promise is inductive by itself: only the types are missing
Inv == TypeOK /\ Promise

\* Only announced connections whose socket is open are served, and only
\* announced ones that are over are reported: what the Connected and
\* Disconnected events of a service are good for.
THEOREM PromiseKept == Spec => []Promise
<1>1. Init => Inv
  BY DEF Init, Inv, TypeOK, Promise
<1>2. Inv /\ [Next]_vars => Inv'
  <2> SUFFICES ASSUME Inv, [Next]_vars PROVE Inv'
    OBVIOUS
  <2> USE DEF Inv, TypeOK, Promise
  <2>1. ASSUME NEW c \in Conns, Open(c) PROVE Inv'
    BY <2>1 DEF Open
  <2>2. ASSUME NEW c \in Conns, Announce(c) PROVE Inv'
    BY <2>2 DEF Announce
  <2>3. ASSUME NEW c \in Conns, Serve(c) PROVE Inv'
    BY <2>3 DEF Serve
  <2>4. ASSUME NEW c \in Conns, Yield(c) PROVE Inv'
    BY <2>4 DEF Yield
  <2>5. ASSUME NEW c \in Conns, Report(c) PROVE Inv'
    BY <2>5 DEF Report
  <2>6. ASSUME NEW S \in SUBSET Conns, Drop(S) PROVE Inv'
    BY <2>6 DEF Drop
  <2>7. CASE UNCHANGED vars
    BY <2>7 DEF vars
  <2> QED
    BY <2>1, <2>2, <2>3, <2>4, <2>5, <2>6, <2>7 DEF Next
<1> QED
  BY <1>1, <1>2, PTL DEF Spec, Inv
=============================================================================
