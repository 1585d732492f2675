--------------------------- MODULE ChannelLemmas ---------------------------
(***************************************************************************)
(* What sending to and receiving from a channel -- a sequence that holds   *)
(* no element twice -- does to the set of elements it holds.               *)
(***************************************************************************)
EXTENDS Naturals, Sequences, SequencesExt, SequenceTheorems, TLAPS

\* An empty channel holds nothing.
LEMMA EmptyChannel == ToSet(<<>>) = {} /\ IsInjective(<<>>)
BY DEF ToSet, IsInjective

\* The elements of a channel are of its type, and are found by their index.
LEMMA ChannelElements ==
    ASSUME NEW S, NEW s \in Seq(S)
    PROVE  /\ DOMAIN s = 1 .. Len(s)
           /\ ToSet(s) \subseteq S
           /\ \A e : e \in ToSet(s) <=> \E i \in 1 .. Len(s) : s[i] = e
           /\ s = <<>> <=> ToSet(s) = {}
<1>1. DOMAIN s = 1 .. Len(s) /\ Len(s) \in Nat
  OBVIOUS
<1>2. ToSet(s) \subseteq S
  BY <1>1 DEF ToSet
<1>3. \A e : e \in ToSet(s) <=> \E i \in 1 .. Len(s) : s[i] = e
  BY <1>1 DEF ToSet
<1>4. ASSUME s # <<>> PROVE ToSet(s) # {}
  <2>1. Len(s) >= 1
    BY <1>4, EmptySeq
  <2>2. s[1] \in ToSet(s)
    BY <1>1, <1>3, <2>1
  <2> QED BY <2>2
<1>5. s = <<>> => ToSet(s) = {}
  BY EmptyChannel
<1> QED BY <1>1, <1>2, <1>3, <1>4, <1>5

\* Sending adds one element, and keeps the channel free of duplicates when
\* the element was not in it.
LEMMA SendToChannel ==
    ASSUME NEW S, NEW s \in Seq(S), NEW e \in S
    PROVE  /\ Append(s, e) \in Seq(S)
           /\ Append(s, e) # <<>>
           /\ ToSet(Append(s, e)) = ToSet(s) \cup {e}
           /\ IsInjective(s) /\ e \notin ToSet(s) => IsInjective(Append(s, e))
<1> DEFINE t == Append(s, e)
<1>1. /\ t \in Seq(S) /\ t # <<>> /\ Len(t) = Len(s) + 1 /\ Len(s) \in Nat
      /\ \A i \in 1 .. Len(s) : t[i] = s[i]
      /\ t[Len(s) + 1] = e
  BY AppendProperties
<1>2. DOMAIN t = 1 .. Len(s) + 1 /\ DOMAIN s = 1 .. Len(s)
  BY <1>1
<1> HIDE DEF t
<1>3. ToSet(t) = ToSet(s) \cup {e}
  BY <1>1, <1>2 DEF ToSet
<1>4. ASSUME IsInjective(s), e \notin ToSet(s)
      PROVE  IsInjective(t)
  <2>1. \A i \in 1 .. Len(s) : s[i] # e
    BY <1>2, <1>4 DEF ToSet
  <2>2. SUFFICES ASSUME NEW i \in 1 .. Len(s) + 1, NEW j \in 1 .. Len(s) + 1, t[i] = t[j]
                 PROVE  i = j
    BY <1>2 DEF IsInjective
  <2>3. CASE i \in 1 .. Len(s) /\ j \in 1 .. Len(s)
    BY <1>1, <1>2, <1>4, <2>2, <2>3 DEF IsInjective
  <2>4. CASE i = Len(s) + 1 \/ j = Len(s) + 1
    BY <1>1, <2>1, <2>2, <2>4
  <2> QED BY <1>1, <2>3, <2>4
<1> QED BY <1>1, <1>3, <1>4 DEF t

\* Receiving takes exactly one element out: the first one.
LEMMA ReceiveFromChannel ==
    ASSUME NEW S, NEW s \in Seq(S), s # <<>>, IsInjective(s)
    PROVE  /\ Head(s) \in S
           /\ Head(s) \in ToSet(s)
           /\ Tail(s) \in Seq(S)
           /\ ToSet(Tail(s)) = ToSet(s) \ {Head(s)}
           /\ IsInjective(Tail(s))
<1> DEFINE t == Tail(s)
<1>1. /\ Head(s) \in S /\ t \in Seq(S) /\ Len(t) = Len(s) - 1
      /\ \A i \in 1 .. Len(t) : t[i] = s[i + 1]
  BY HeadTailProperties
<1>2. Len(s) \in Nat /\ Len(s) >= 1 /\ Head(s) = s[1]
  BY EmptySeq
<1>3. DOMAIN t = 1 .. Len(s) - 1 /\ DOMAIN s = 1 .. Len(s)
  BY <1>1
<1> HIDE DEF t
<1>4. IsInjective(t)
  BY <1>1, <1>2, <1>3, SMTT(25) DEF IsInjective
<1>5. ToSet(t) = ToSet(s) \ {Head(s)}
  <2>1. ASSUME NEW i \in 1 .. Len(s) - 1 PROVE t[i] \in ToSet(s) \ {Head(s)}
    <3>1. t[i] = s[i + 1] /\ i + 1 \in 1 .. Len(s) /\ i + 1 # 1
      BY <1>1, <1>2
    <3> QED BY <1>2, <1>3, <3>1 DEF ToSet, IsInjective
  <2>2. ASSUME NEW i \in 1 .. Len(s), s[i] # s[1] PROVE s[i] \in ToSet(t)
    <3>1. i - 1 \in 1 .. Len(s) - 1 /\ t[i - 1] = s[i]
      BY <1>1, <1>2, <2>2
    <3> QED BY <1>3, <3>1 DEF ToSet
  <2> QED BY <1>2, <1>3, <2>1, <2>2 DEF ToSet
<1>6. Head(s) \in ToSet(s)
  BY <1>2, <1>3 DEF ToSet
<1> QED BY <1>1, <1>4, <1>5, <1>6 DEF t
============================================================================
