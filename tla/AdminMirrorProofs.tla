--------------------------- MODULE AdminMirrorProofs ---------------------------
(***************************************************************************)
(* Proofs about AdminMirror: what waits in the write queue and what the    *)
(* cache trails always lead from the tables, and from the rows known, to   *)
(* what the properties promise, for any plugins, signers, servers, calls,  *)
(* refusals and restarts.                                                  *)
(***************************************************************************)
EXTENDS AdminMirror, DataTheorems, SequenceTheorems

-----------------------------------------------------------------------------
(***************************************************************************)
(* Sequences as sets, and sets of numbers as sequences.                    *)
(***************************************************************************)
IsSeq(s) == \E R : s \in Seq(R)
Members(s) == {s[i] : i \in DOMAIN s}

LEMMA SeqFacts ==
    ASSUME NEW s, IsSeq(s)
    PROVE  /\ DOMAIN s = 1 .. Len(s) /\ Len(s) \in Nat
           /\ s \in Seq(Members(s))
<1>1. PICK R : s \in Seq(R)
  BY DEF IsSeq
<1>2. DOMAIN s = 1 .. Len(s) /\ Len(s) \in Nat /\ s = [i \in 1 .. Len(s) |-> s[i]]
  BY <1>1
<1>3. s \in [1 .. Len(s) -> Members(s)]
  BY <1>2 DEF Members
<1> QED  BY <1>2, <1>3

LEMMA MembersOfConcat ==
    ASSUME NEW s, NEW t, IsSeq(s), IsSeq(t)
    PROVE  IsSeq(s \o t) /\ Members(s \o t) = Members(s) \cup Members(t)
           /\ Len(s \o t) = Len(s) + Len(t)
           /\ \A i \in DOMAIN s : (s \o t)[i] = s[i]
<1> DEFINE R == Members(s) \cup Members(t)
<1>1. s \in Seq(Members(s)) /\ t \in Seq(Members(t)) /\ Len(s) \in Nat /\ Len(t) \in Nat
      /\ DOMAIN s = 1 .. Len(s) /\ DOMAIN t = 1 .. Len(t)
  BY SeqFacts
<1>2. s \in Seq(R) /\ t \in Seq(R)
  <2>1. Members(s) \subseteq R /\ Members(t) \subseteq R
    OBVIOUS
  <2> HIDE DEF R
  <2>2. \A S : S \subseteq R => Seq(S) \subseteq Seq(R)
    BY SeqMonotonic
  <2> QED  BY <1>1, <2>1, <2>2
<1> HIDE DEF R
<1>3. /\ s \o t \in Seq(R) /\ Len(s \o t) = Len(s) + Len(t)
      /\ \A i \in 1 .. Len(s) + Len(t) : (s \o t)[i] = IF i <= Len(s) THEN s[i] ELSE t[i - Len(s)]
  BY <1>2, ConcatProperties
<1>4. DOMAIN (s \o t) = 1 .. Len(s) + Len(t)
  BY <1>3
<1>5. ASSUME NEW i \in DOMAIN (s \o t) PROVE (s \o t)[i] \in Members(s) \cup Members(t)
  <2>1. CASE i <= Len(s)
    BY <1>1, <1>3, <1>4, <2>1 DEF Members
  <2>2. CASE i > Len(s)
    <3>1. i - Len(s) \in DOMAIN t
      BY <1>1, <1>4, <2>2
    <3> QED  BY <1>1, <1>3, <1>4, <2>2, <3>1 DEF Members
  <2> QED  BY <1>1, <1>4, <2>1, <2>2
<1>6. ASSUME NEW i \in DOMAIN s PROVE s[i] \in Members(s \o t) /\ (s \o t)[i] = s[i]
  <2>1. i \in DOMAIN (s \o t) /\ (s \o t)[i] = s[i]
    BY <1>1, <1>3, <1>4
  <2> QED  BY <2>1 DEF Members
<1>7. ASSUME NEW i \in DOMAIN t PROVE t[i] \in Members(s \o t)
  <2>1. Len(s) + i \in DOMAIN (s \o t) /\ (s \o t)[Len(s) + i] = t[i]
    BY <1>1, <1>3, <1>4
  <2> QED  BY <2>1 DEF Members
<1>8. Members(s \o t) = Members(s) \cup Members(t)
  BY <1>5, <1>6, <1>7 DEF Members
<1>9. IsSeq(s \o t)
  BY <1>3 DEF IsSeq
<1> QED  BY <1>3, <1>6, <1>8, <1>9

LEMMA MembersOfFew ==
    /\ IsSeq(<<>>) /\ Members(<<>>) = {}
    /\ \A x : IsSeq(<<x>>) /\ Members(<<x>>) = {x} /\ Len(<<x>>) = 1
    /\ \A x, y : IsSeq(<<x, y>>) /\ Members(<<x, y>>) = {x, y} /\ <<x, y>>[1] = x
<1>1. IsSeq(<<>>) /\ Members(<<>>) = {}
  <2>1. <<>> \in Seq({})
    OBVIOUS
  <2> QED  BY <2>1 DEF IsSeq, Members
<1>2. ASSUME NEW x PROVE IsSeq(<<x>>) /\ Members(<<x>>) = {x} /\ Len(<<x>>) = 1
  <2>1. <<x>> \in Seq({x}) /\ DOMAIN <<x>> = {1} /\ <<x>>[1] = x
    OBVIOUS
  <2> QED  BY <2>1 DEF IsSeq, Members
<1>3. ASSUME NEW x, NEW y PROVE IsSeq(<<x, y>>) /\ Members(<<x, y>>) = {x, y} /\ <<x, y>>[1] = x
  <2>1. <<x, y>> \in Seq({x, y}) /\ DOMAIN <<x, y>> = {1, 2} /\ <<x, y>>[1] = x /\ <<x, y>>[2] = y
    OBVIOUS
  <2> QED  BY <2>1 DEF IsSeq, Members
<1> QED  BY <1>1, <1>2, <1>3

LEMMA MembersOfAppend ==
    ASSUME NEW s, IsSeq(s), NEW x
    PROVE  IsSeq(Append(s, x)) /\ Members(Append(s, x)) = Members(s) \cup {x}
           /\ Len(Append(s, x)) = Len(s) + 1
           /\ \A i \in DOMAIN s : Append(s, x)[i] = s[i]
<1>1. PICK R : s \in Seq(R)
  BY DEF IsSeq
<1>2. Append(s, x) = s \o <<x>>
  <2>1. \A S : Seq(R) \subseteq Seq(R \cup {x})
    BY SeqMonotonic
  <2>2. s \in Seq(R \cup {x}) /\ x \in R \cup {x}
    BY <1>1, <2>1
  <2> QED  BY <2>2, AppendIsConcat
<1>3. IsSeq(<<x>>) /\ Members(<<x>>) = {x} /\ Len(<<x>>) = 1
  BY MembersOfFew
<1> QED  BY <1>2, <1>3, MembersOfConcat

Increasing(S, f) == f \in [1 .. Cardinality(S) -> S] /\ \A i, j \in DOMAIN f : i < j => f[i] < f[j]

LEMMA OrdersExist == \A N \in Nat : \A S \in SUBSET (1 .. N) : \E f : Increasing(S, f)
<1> DEFINE Q == {n \in Nat : \A S \in SUBSET (1 .. n) : \E f : Increasing(S, f)}
<1>0. \A n \in Nat : \A S \in SUBSET (1 .. n) : IsFiniteSet(S) /\ Cardinality(S) \in Nat
  <2> SUFFICES ASSUME NEW n \in Nat, NEW S \in SUBSET (1 .. n) PROVE IsFiniteSet(S) /\ Cardinality(S) \in Nat
    OBVIOUS
  <2>1. IsFiniteSet(1 .. n)
    BY FS_Interval
  <2>2. IsFiniteSet(S)
    BY <2>1, FS_Subset
  <2> QED  BY <2>2, FS_CardinalityType
<1>1. 0 \in Q
  <2> SUFFICES ASSUME NEW S \in SUBSET (1 .. 0) PROVE \E f : Increasing(S, f)
    OBVIOUS
  <2>1. S = {} /\ Cardinality(S) = 0
    <3>1. S = {}
      OBVIOUS
    <3>2. Cardinality({}) = 0
      BY FS_EmptySet
    <3> QED  BY <3>1, <3>2
  <2>2. [i \in {} |-> i] \in [1 .. 0 -> {}]
    OBVIOUS
  <2>3. Increasing({}, [i \in {} |-> i])
    BY <2>1, <2>2 DEF Increasing
  <2> QED  BY <2>1, <2>3
<1>2. ASSUME NEW n \in Nat, n \in Q PROVE n + 1 \in Q
  <2> SUFFICES ASSUME NEW S \in SUBSET (1 .. n + 1) PROVE \E f : Increasing(S, f)
    OBVIOUS
  <2>1. CASE n + 1 \notin S
    <3>1. S \in SUBSET (1 .. n)
      BY <2>1
    <3> QED  BY <1>2, <3>1
  <2>2. CASE n + 1 \in S
    <3> DEFINE T == S \ {n + 1}
               c == Cardinality(T)
    <3>1. T \in SUBSET (1 .. n)
      OBVIOUS
    <3>2. PICK f : Increasing(T, f)
      BY <1>2, <3>1
    <3>3. c \in Nat /\ IsFiniteSet(T)
      BY <1>0, <3>1
    <3>4. S = T \cup {n + 1} /\ n + 1 \notin T
      BY <2>2
    <3> HIDE DEF T
    <3>5. Cardinality(S) = c + 1
      <4>1. \A A, x : IsFiniteSet(A) => Cardinality(A \cup {x}) = IF x \in A THEN Cardinality(A) ELSE Cardinality(A) + 1
        BY FS_AddElement
      <4> QED  BY <3>3, <3>4, <4>1
    <3> DEFINE g == [i \in 1 .. c + 1 |-> IF i = c + 1 THEN n + 1 ELSE f[i]]
    <3>6. f \in [1 .. c -> T] /\ \A i, j \in 1 .. c : i < j => f[i] < f[j]
      BY <3>2 DEF Increasing
    <3> HIDE DEF c
    <3>7. \A i \in 1 .. c : f[i] \in 1 .. n /\ f[i] \in S
      BY <3>1, <3>4, <3>6
    <3>8. g \in [1 .. c + 1 -> S] /\ \A i, j \in 1 .. c + 1 : i < j => g[i] < g[j]
      BY <2>2, <3>3, <3>6, <3>7
    <3>9. Increasing(S, g)
      BY <3>5, <3>8 DEF Increasing
    <3> QED  BY <3>9
  <2> QED  BY <2>1, <2>2
<1> HIDE DEF Q
<1>3. Nat \subseteq Q
  BY <1>1, <1>2, SetOfNaturals
<1> QED  BY <1>3 DEF Q

LEMMA InOrderIs ==
    ASSUME NEW N \in Nat, NEW S \in SUBSET (1 .. N)
    PROVE  /\ IsSeq(InOrder(S)) /\ Members(InOrder(S)) = S
           /\ DOMAIN InOrder(S) = 1 .. Len(InOrder(S)) /\ Len(InOrder(S)) \in Nat
           /\ \A i, j \in DOMAIN InOrder(S) : InOrder(S)[i] = InOrder(S)[j] => i = j
<1> DEFINE f == InOrder(S)
           c == Cardinality(S)
<1>1. IsFiniteSet(S) /\ c \in Nat /\ Cardinality(1 .. c) = c /\ IsFiniteSet(1 .. c)
  <2>1. IsFiniteSet(1 .. N)
    BY FS_Interval
  <2>2. IsFiniteSet(S)
    BY <2>1, FS_Subset
  <2>3. c \in Nat
    BY <2>2, FS_CardinalityType
  <2> HIDE DEF c
  <2>4. Cardinality(1 .. c) = c /\ IsFiniteSet(1 .. c)
    BY <2>3, FS_Interval
  <2> QED  BY <2>2, <2>3, <2>4
<1>2. Increasing(S, f)
  <2>1. \E g : Increasing(S, g)
    BY OrdersExist
  <2> QED  BY <2>1 DEF Increasing, InOrder
<1> HIDE DEF f
<1>3. f \in [1 .. c -> S] /\ \A i, j \in 1 .. c : i < j => f[i] < f[j]
  BY <1>2 DEF Increasing
<1> HIDE DEF c
<1>4. \A i, j \in 1 .. c : f[i] = f[j] => i = j
  <2>1. \A i \in 1 .. c : f[i] \in S
    BY <1>3
  <2>2. S \subseteq Nat
    OBVIOUS
  <2>3. ASSUME NEW i \in 1 .. c, NEW j \in 1 .. c, i # j PROVE f[i] # f[j]
    <3>1. f[i] \in Nat /\ f[j] \in Nat
      BY <2>1, <2>2
    <3>2. i \in Nat /\ j \in Nat /\ (i < j \/ j < i)
      BY <1>1, <2>3
    <3> QED  BY <1>3, <3>1, <3>2
  <2> QED  BY <2>3
<1>5. f \in Injection(1 .. c, S)
  BY <1>3, <1>4 DEF Injection, IsInjective
<1>6. f \in Surjection(1 .. c, S)
  <2>1. Cardinality(1 .. c) = Cardinality(S)
    BY <1>1 DEF c
  <2> QED  BY <1>1, <1>5, <2>1, FS_Injection
<1>7. \A w \in S : \E m \in 1 .. c : f[m] = w
  BY <1>6 DEF Surjection
<1>8. f \in Seq(S) /\ Len(f) = c /\ DOMAIN f = 1 .. c
  BY <1>1, <1>3
<1>9. Members(f) = S
  BY <1>3, <1>7, <1>8 DEF Members
<1> QED  BY <1>1, <1>4, <1>8, <1>9 DEF IsSeq, f

-----------------------------------------------------------------------------
(***************************************************************************)
(* What waits in the queue, as a set: a write's number tells its place.    *)
(***************************************************************************)
Waiting == Members(writeQueue)
Added(last, writes) == {[n |-> last + i, call |-> writes[i]] : i \in DOMAIN writes}

QueueTyped ==
    /\ IsSeq(writeQueue) /\ Len(writeQueue) <= issued
    /\ \A i \in DOMAIN writeQueue : writeQueue[i].n = issued - Len(writeQueue) + i
    /\ issued \in Nat /\ issued <= MaxWrites
    /\ applied \in Nat /\ applied <= issued
    /\ failed \in BOOLEAN /\ (failed => writeQueue = <<>>)

LEMMA Numbers ==
    ASSUME QueueTyped
    PROVE  /\ \A w \in Waiting : w.n \in Nat /\ 1 <= w.n /\ w.n <= issued
           /\ \A v, w \in Waiting : v.n = w.n => v = w
<1> USE DEF QueueTyped
<1>1. DOMAIN writeQueue = 1 .. Len(writeQueue) /\ Len(writeQueue) \in Nat
  BY SeqFacts
<1>2. ASSUME NEW w \in Waiting PROVE w.n \in Nat /\ 1 <= w.n /\ w.n <= issued
  <2>1. PICK i \in DOMAIN writeQueue : w = writeQueue[i]
    BY DEF Waiting, Members
  <2>2. w.n = issued - Len(writeQueue) + i
    BY <2>1
  <2> QED  BY <1>1, <2>2
<1>3. ASSUME NEW v \in Waiting, NEW w \in Waiting, v.n = w.n PROVE v = w
  <2>1. PICK i \in DOMAIN writeQueue : w = writeQueue[i]
    BY DEF Waiting, Members
  <2>2. PICK j \in DOMAIN writeQueue : v = writeQueue[j]
    BY DEF Waiting, Members
  <2>3. w.n = issued - Len(writeQueue) + i /\ v.n = issued - Len(writeQueue) + j
    BY <2>1, <2>2
  <2>4. i = j
    BY <1>1, <1>3, <2>3
  <2> QED  BY <2>1, <2>2, <2>4
<1> QED  BY <1>2, <1>3

(* Queueing adds the writes, with the next numbers, or nothing any more.    *)
LEMMA Queued ==
    ASSUME QueueTyped, NEW writes, IsSeq(writes), Queue(writes)
    PROVE  /\ QueueTyped' /\ failed' = failed
           /\ issued' = issued + Len(writes) /\ Len(writes) \in Nat
           /\ failed => Waiting = {} /\ Waiting' = {}
           /\ ~failed => Waiting' = Waiting \cup Added(issued, writes)
<1> DEFINE new == [i \in DOMAIN writes |-> [n |-> issued + i, call |-> writes[i]]]
<1>1. DOMAIN writes = 1 .. Len(writes) /\ Len(writes) \in Nat
  BY SeqFacts
<1>2. DOMAIN writeQueue = 1 .. Len(writeQueue) /\ Len(writeQueue) \in Nat /\ IsSeq(writeQueue)
  BY SeqFacts DEF QueueTyped
<1>3. /\ issued + Len(writes) <= MaxWrites /\ issued' = issued + Len(writes)
      /\ writeQueue' = IF failed THEN writeQueue ELSE writeQueue \o new
      /\ applied' = applied /\ failed' = failed
  BY DEF Queue
<1>4. IsSeq(new) /\ Members(new) = Added(issued, writes) /\ Len(new) = Len(writes)
  <2>1. new \in [1 .. Len(writes) -> Added(issued, writes)]
    BY <1>1 DEF Added
  <2>2. new \in Seq(Added(issued, writes)) /\ Len(new) = Len(writes)
    BY <1>1, <2>1
  <2>3. Members(new) = Added(issued, writes)
    BY DEF Members, Added
  <2> QED  BY <2>2, <2>3 DEF IsSeq
<1>5. CASE failed
  <2>1. writeQueue' = <<>> /\ writeQueue = <<>> /\ Len(<<>>) = 0
    BY <1>3, <1>5 DEF QueueTyped
  <2>2. Waiting = {} /\ Waiting' = {}
    BY <2>1, MembersOfFew DEF Waiting
  <2>3. IsSeq(writeQueue') /\ DOMAIN writeQueue' = {}
    BY <2>1, MembersOfFew
  <2>4. /\ issued' \in Nat /\ issued' <= MaxWrites /\ applied' \in Nat /\ applied' <= issued'
        /\ Len(writeQueue') <= issued'
    BY <1>1, <1>3, <2>1 DEF QueueTyped
  <2>5. QueueTyped'
    BY <1>3, <1>5, <2>1, <2>3, <2>4 DEF QueueTyped
  <2> QED  BY <1>1, <1>3, <1>5, <2>2, <2>5
<1>6. CASE ~failed
  <2>1. writeQueue' = writeQueue \o new
    BY <1>3, <1>6
  <2> HIDE DEF new
  <2>2. /\ IsSeq(writeQueue \o new) /\ Members(writeQueue \o new) = Members(writeQueue) \cup Members(new)
        /\ Len(writeQueue \o new) = Len(writeQueue) + Len(new)
        /\ \A i \in DOMAIN writeQueue : (writeQueue \o new)[i] = writeQueue[i]
    BY <1>2, <1>4, MembersOfConcat
  <2>3. Waiting' = Waiting \cup Added(issued, writes)
    BY <1>4, <2>1, <2>2 DEF Waiting
  <2>4. ASSUME NEW i \in DOMAIN writeQueue'
        PROVE  writeQueue'[i].n = issued' - Len(writeQueue') + i
    <3>0. Len(writeQueue') = Len(writeQueue) + Len(writes) /\ issued' = issued + Len(writes) /\ issued \in Nat
      BY <1>3, <1>4, <2>1, <2>2 DEF QueueTyped
    <3>1. i \in 1 .. Len(writeQueue) + Len(writes)
      <4>1. DOMAIN writeQueue' = 1 .. Len(writeQueue')
        BY <2>1, <2>2, SeqFacts
      <4> QED  BY <1>4, <2>1, <2>2, <4>1
    <3>2. CASE i \in DOMAIN writeQueue
      <4>1. writeQueue'[i] = writeQueue[i]
        BY <2>1, <2>2, <3>2
      <4>2. writeQueue[i].n = issued - Len(writeQueue) + i
        BY <3>2 DEF QueueTyped
      <4> QED  BY <1>1, <1>2, <3>0, <3>1, <4>1, <4>2
    <3>3. CASE i \notin DOMAIN writeQueue
      <4>1. i - Len(writeQueue) \in DOMAIN writes
        BY <1>1, <1>2, <3>1, <3>3
      <4>2. writeQueue'[i] = new[i - Len(writeQueue)]
        <5>1. \A S : writeQueue \in Seq(S) /\ new \in Seq(S) =>
                 \A k \in 1 .. Len(writeQueue) + Len(new) :
                    (writeQueue \o new)[k] = IF k <= Len(writeQueue) THEN writeQueue[k] ELSE new[k - Len(writeQueue)]
          BY ConcatProperties
        <5>2. writeQueue \in Seq(Members(writeQueue)) /\ new \in Seq(Members(new))
          BY <1>2, <1>4, SeqFacts
        <5>3. \A A, B : Seq(A) \subseteq Seq(A \cup B) /\ Seq(B) \subseteq Seq(A \cup B)
          <6>1. \A A, B : A \subseteq B => Seq(A) \subseteq Seq(B)
            BY SeqMonotonic
          <6> QED  BY <6>1
        <5>4. \E S : writeQueue \in Seq(S) /\ new \in Seq(S)
          BY <5>2, <5>3
        <5>5. (writeQueue \o new)[i] = IF i <= Len(writeQueue) THEN writeQueue[i] ELSE new[i - Len(writeQueue)]
          BY <1>4, <3>1, <5>1, <5>4
        <5>6. ~(i <= Len(writeQueue))
          BY <1>2, <3>1, <3>3
        <5> QED  BY <2>1, <5>5, <5>6
      <4>3. new[i - Len(writeQueue)].n = issued + (i - Len(writeQueue))
        BY <4>1 DEF new
      <4> QED  BY <1>1, <1>2, <3>0, <3>1, <4>2, <4>3
    <3> QED  BY <3>2, <3>3
  <2>5. /\ issued' \in Nat /\ issued' <= MaxWrites /\ applied' \in Nat /\ applied' <= issued'
        /\ Len(writeQueue') <= issued'
    BY <1>1, <1>2, <1>3, <1>4, <2>1, <2>2 DEF QueueTyped
  <2>6. QueueTyped'
    BY <1>3, <1>6, <2>1, <2>2, <2>4, <2>5 DEF QueueTyped
  <2> QED  BY <1>1, <1>3, <1>6, <2>3, <2>6
<1> QED  BY <1>5, <1>6

(* Sending takes the first of what waits, whose number is the smallest.     *)
LEMMA Popped ==
    ASSUME QueueTyped, writeQueue # <<>>, writeQueue' = Tail(writeQueue), applied' = Head(writeQueue).n,
           UNCHANGED <<issued, failed>>
    PROVE  /\ QueueTyped' /\ ~failed
           /\ Head(writeQueue) \in Waiting /\ Waiting' = Waiting \ {Head(writeQueue)}
           /\ \A w \in Waiting : Head(writeQueue).n <= w.n
           /\ \A w \in Waiting' : w.n > Head(writeQueue).n
<1> DEFINE q == writeQueue
           m == Len(writeQueue)
<1>1. q \in Seq(Waiting) /\ DOMAIN q = 1 .. m /\ m \in Nat
  BY SeqFacts DEF QueueTyped, Waiting
<1>2. /\ m >= 1 /\ Head(q) = q[1] /\ Tail(q) \in Seq(Waiting) /\ Len(Tail(q)) = m - 1
      /\ \A i \in 1 .. m - 1 : Tail(q)[i] = q[i + 1]
  BY <1>1
<1>3. DOMAIN Tail(q) = 1 .. m - 1
  BY <1>1, <1>2
<1>4. \A i \in 1 .. m : q[i].n = issued - m + i /\ q[i] \in Waiting
  BY <1>1 DEF QueueTyped, Waiting, Members
<1>5. \A w \in Waiting : \E i \in 1 .. m : w = q[i]
  BY <1>1 DEF Waiting, Members
<1>6. issued \in Nat
  BY DEF QueueTyped
<1>7. \A w \in Waiting' : \E i \in 2 .. m : w = q[i]
  <2>1. \A w \in Waiting' : \E i \in 1 .. m - 1 : w = Tail(q)[i]
    BY <1>3 DEF Waiting, Members
  <2> QED  BY <1>1, <1>2, <2>1
<1>8. \A i \in 2 .. m : q[i] \in Waiting'
  <2> SUFFICES ASSUME NEW i \in 2 .. m PROVE q[i] \in Waiting'
    OBVIOUS
  <2>1. i - 1 \in DOMAIN Tail(q) /\ Tail(q)[i - 1] = q[i]
    BY <1>1, <1>2, <1>3
  <2> QED  BY <2>1 DEF Waiting, Members
<1>9. \A i \in 2 .. m : q[i].n > q[1].n /\ q[i] # q[1]
  BY <1>1, <1>2, <1>4, <1>6
<1>10. Waiting' = Waiting \ {q[1]}
  <2>1. ASSUME NEW w \in Waiting, w # q[1] PROVE w \in Waiting'
    BY <1>1, <1>5, <1>8, <2>1
  <2>2. ASSUME NEW w \in Waiting' PROVE w \in Waiting /\ w # q[1]
    <3>1. PICK i \in 2 .. m : w = q[i]
      BY <1>7
    <3> QED  BY <1>1, <1>4, <1>9, <3>1
  <2> QED  BY <2>1, <2>2
<1>11. QueueTyped'
  <2>1. IsSeq(Tail(q))
    BY <1>2 DEF IsSeq
  <2>2. \A i \in 1 .. m - 1 : Tail(q)[i].n = issued - (m - 1) + i
    BY <1>1, <1>2, <1>4, <1>6
  <2>3. q[1].n \in Nat /\ q[1].n <= issued
    BY <1>1, <1>2, <1>4, <1>6 DEF QueueTyped
  <2>4. failed = FALSE
    BY DEF QueueTyped
  <2> QED  BY <1>1, <1>2, <1>3, <2>1, <2>2, <2>3, <2>4 DEF QueueTyped
<1>12. ~failed /\ Head(q) \in Waiting
  BY <1>1, <1>2, <1>4 DEF QueueTyped
<1>13. \A w \in Waiting : q[1].n <= w.n
  BY <1>1, <1>4, <1>5, <1>6
<1>14. \A w \in Waiting' : w.n > q[1].n
  BY <1>7, <1>9
<1> HIDE DEF q
<1> QED  BY <1>2, <1>10, <1>11, <1>12, <1>13, <1>14 DEF q

LEMMA AddedIs ==
    ASSUME NEW last \in Nat, NEW writes, IsSeq(writes)
    PROVE  /\ \A w \in Added(last, writes) :
                 w.n \in Nat /\ last < w.n /\ w.n <= last + Len(writes) /\ w.call \in Members(writes)
           /\ \A c \in Members(writes) : \E w \in Added(last, writes) : w.call = c
           /\ 1 \in DOMAIN writes => \E w \in Added(last, writes) : w.n = last + 1 /\ w.call = writes[1]
           /\ \A v, w \in Added(last, writes) : v.n = w.n => v = w
<1>1. DOMAIN writes = 1 .. Len(writes) /\ Len(writes) \in Nat
  BY SeqFacts
<1>2. ASSUME NEW i \in DOMAIN writes
      PROVE  /\ [n |-> last + i, call |-> writes[i]] \in Added(last, writes)
             /\ [n |-> last + i, call |-> writes[i]].n = last + i
             /\ [n |-> last + i, call |-> writes[i]].call = writes[i]
  BY DEF Added
<1>3. ASSUME NEW w \in Added(last, writes)
      PROVE  \E i \in DOMAIN writes : w = [n |-> last + i, call |-> writes[i]]
  BY DEF Added
<1>4. ASSUME NEW w \in Added(last, writes)
      PROVE  w.n \in Nat /\ last < w.n /\ w.n <= last + Len(writes) /\ w.call \in Members(writes)
  <2>1. PICK i \in DOMAIN writes : w = [n |-> last + i, call |-> writes[i]]
    BY <1>3
  <2> QED  BY <1>1, <1>2, <2>1 DEF Members
<1>5. \A c \in Members(writes) : \E w \in Added(last, writes) : w.call = c
  BY <1>2 DEF Members
<1>6. ASSUME 1 \in DOMAIN writes PROVE \E w \in Added(last, writes) : w.n = last + 1 /\ w.call = writes[1]
  BY <1>2, <1>6
<1>7. ASSUME NEW v \in Added(last, writes), NEW w \in Added(last, writes), v.n = w.n PROVE v = w
  <2>1. PICK i \in DOMAIN writes : w = [n |-> last + i, call |-> writes[i]]
    BY <1>3
  <2>2. PICK j \in DOMAIN writes : v = [n |-> last + j, call |-> writes[j]]
    BY <1>3
  <2>3. i = j
    BY <1>1, <1>7, <2>1, <2>2
  <2> QED  BY <2>1, <2>2, <2>3
<1> QED  BY <1>4, <1>5, <1>6, <1>7

-----------------------------------------------------------------------------
(***************************************************************************)
(* What a reducer makes of the tables.                                     *)
(***************************************************************************)
IsTables(d) == d = [t \in Tables |-> d[t]]
Painted(f, keys, row) == [k \in DOMAIN f |-> IF k \in keys THEN row ELSE f[k]]
SameBut(d, e, T) == \A t \in Tables \ T : e[t] = d[t]

StatusOps == {"register_plugin", "set_plugin_status"}
Ops == StatusOps \cup
       {"register_plugin_package", "uninstall_plugin", "register_plugin_bundle", "upsert_plugin_capability",
        "revoke_plugin_bundle", "register_plugin_hook", "set_plugin_hooks_enabled", "revoke_package_signer",
        "upsert_plugin_deployment", "set_runtime_config", "write_audit_log"}

LEMMA PutIs ==
    ASSUME NEW f, NEW key, NEW row
    PROVE  /\ DOMAIN Put(f, key, row) = DOMAIN f \cup {key}
           /\ Put(f, key, row)[key] = row
           /\ \A k \in DOMAIN f \ {key} : Put(f, key, row)[k] = f[k]
BY DEF Put

LEMMA WithoutIs ==
    ASSUME NEW f, NEW keys
    PROVE  DOMAIN Without(f, keys) = DOMAIN f \ keys /\ \A k \in DOMAIN f \ keys : Without(f, keys)[k] = f[k]
BY DEF Without

LEMMA PaintedIs ==
    ASSUME NEW f, NEW keys, NEW row
    PROVE  /\ DOMAIN Painted(f, keys, row) = DOMAIN f
           /\ \A k \in DOMAIN f : Painted(f, keys, row)[k] = IF k \in keys THEN row ELSE f[k]
BY DEF Painted

LEMMA TableChanged ==
    ASSUME NEW d, IsTables(d), NEW t \in Tables
    PROVE  /\ \A keys, row : LET e == SetRows(d, t, keys, row) IN
                 IsTables(e) /\ e[t] = Painted(d[t], keys, row) /\ SameBut(d, e, {t})
           /\ \A key, row : LET e == PutRow(d, t, key, row) IN
                 IsTables(e) /\ e[t] = Put(d[t], key, row) /\ SameBut(d, e, {t})
<1>1. ASSUME NEW x PROVE LET e == [d EXCEPT ![t] = x] IN IsTables(e) /\ e[t] = x /\ SameBut(d, e, {t})
  BY DEF IsTables, SameBut
<1> QED  BY <1>1 DEF SetRows, PutRow, Painted

LEMMA TablesAre ==
    /\ Tables = {"plugins", "packages", "bundles", "capabilities", "hooks", "menus", "revocations", "deployments",
                 "config", "audit"}
    /\ PluginTables = {"plugins", "packages", "bundles", "capabilities", "hooks", "menus"}
    /\ DeploymentTables = {"deployments"} /\ ScopedTables = {"config", "audit"} /\ SignerTables = {"revocations"}
BY DEF Tables, PluginTables, RegistryTables, SurfaceTables, DeploymentTables, ScopedTables, SignerTables

Surfaces == {"capabilities", "hooks", "menus"}

LEMMA SurfacesOffIs ==
    ASSUME NEW d, IsTables(d), NEW P
    PROVE  LET e == SurfacesOff(d, P) IN
           /\ IsTables(e) /\ SameBut(d, e, Surfaces)
           /\ \A t \in Surfaces : e[t] = Painted(d[t], P, "disabled")
<1>0. "capabilities" \in Tables /\ "menus" \in Tables /\ "hooks" \in Tables
  BY TablesAre
<1> DEFINE a == SetRows(d, "capabilities", P, "disabled")
           b == SetRows(a, "menus", P, "disabled")
           e == SetRows(b, "hooks", P, "disabled")
<1>1. IsTables(a) /\ a["capabilities"] = Painted(d["capabilities"], P, "disabled") /\ SameBut(d, a, {"capabilities"})
  BY <1>0, TableChanged
<1> HIDE DEF a
<1>2. IsTables(b) /\ b["menus"] = Painted(a["menus"], P, "disabled") /\ SameBut(a, b, {"menus"})
  BY <1>0, <1>1, TableChanged
<1> HIDE DEF b
<1>3. IsTables(e) /\ e["hooks"] = Painted(b["hooks"], P, "disabled") /\ SameBut(b, e, {"hooks"})
  BY <1>0, <1>2, TableChanged
<1>4. SurfacesOff(d, P) = e
  BY DEF SurfacesOff, a, b
<1> HIDE DEF e
<1>5. IsTables(e) /\ SameBut(d, e, Surfaces) /\ \A t \in Surfaces : e[t] = Painted(d[t], P, "disabled")
  BY <1>0, <1>1, <1>2, <1>3 DEF SameBut, Surfaces
<1> QED  BY <1>4, <1>5

LEMMA BundlesRevokedIs ==
    ASSUME NEW d, IsTables(d), NEW P
    PROVE  LET e == BundlesRevoked(d, P)
               live == {k \in DOMAIN d.deployments : k[1] \in P /\ d.deployments[k] \in Live} IN
           /\ IsTables(e) /\ SameBut(d, e, {"bundles", "capabilities", "deployments"})
           /\ e["bundles"] = Painted(d["bundles"], P, "revoked")
           /\ e["capabilities"] = Painted(d["capabilities"], P, "disabled")
           /\ e["deployments"] = Painted(d["deployments"], live, "killed")
<1>0. "capabilities" \in Tables /\ "bundles" \in Tables /\ "deployments" \in Tables
  BY TablesAre
<1> DEFINE a == SetRows(d, "bundles", P, "revoked")
           b == SetRows(a, "capabilities", P, "disabled")
           live == {k \in DOMAIN d.deployments : k[1] \in P /\ d.deployments[k] \in Live}
           e == SetRows(b, "deployments", live, "killed")
<1>1. IsTables(a) /\ a["bundles"] = Painted(d["bundles"], P, "revoked") /\ SameBut(d, a, {"bundles"})
  BY <1>0, TableChanged
<1> HIDE DEF a
<1>2. IsTables(b) /\ b["capabilities"] = Painted(a["capabilities"], P, "disabled") /\ SameBut(a, b, {"capabilities"})
  BY <1>0, <1>1, TableChanged
<1> HIDE DEF b, live
<1>3. IsTables(e) /\ e["deployments"] = Painted(b["deployments"], live, "killed") /\ SameBut(b, e, {"deployments"})
  BY <1>0, <1>2, TableChanged
<1>4. BundlesRevoked(d, P) = e
  BY DEF BundlesRevoked, a, b, live
<1> HIDE DEF e
<1>5. /\ IsTables(e) /\ SameBut(d, e, {"bundles", "capabilities", "deployments"})
      /\ e["bundles"] = Painted(d["bundles"], P, "revoked")
      /\ e["capabilities"] = Painted(d["capabilities"], P, "disabled")
      /\ e["deployments"] = Painted(d["deployments"], live, "killed")
  BY <1>0, <1>1, <1>2, <1>3 DEF SameBut
<1> QED  BY <1>4, <1>5 DEF live

PackagedBy(d, signer) == {p \in DOMAIN d.packages : d.packages[p] = signer} \cap DOMAIN d.plugins
BundledBy(d, signer) == {p \in DOMAIN d.bundles : SignerOf[p] = signer}

(* Table by table; a row of a deployment changes to one that is not live.   *)
Retires(f, g) ==
    /\ DOMAIN g \subseteq DOMAIN f
    /\ \A k \in DOMAIN g : g[k] = f[k] \/ g[k] \notin Live

LEMMA PaintedRetires ==
    ASSUME NEW f, NEW keys, NEW row, row \notin Live
    PROVE  Retires(f, Painted(f, keys, row))
BY DEF Painted, Retires

LEMMA SimpleAfter ==
    ASSUME NEW d, IsTables(d), NEW c, NEW e, e = After(d, c)
    PROVE  /\ c.op = "register_plugin" =>
                 IsTables(e) /\ SameBut(d, e, {"plugins"}) /\ e.plugins = Put(d.plugins, c.plugin, c.status)
           /\ c.op = "register_plugin_package" =>
                 IsTables(e) /\ SameBut(d, e, {"packages"}) /\ e.packages = Put(d.packages, c.plugin, SignerOf[c.plugin])
           /\ c.op = "register_plugin_bundle" =>
                 IsTables(e) /\ SameBut(d, e, {"bundles"}) /\ e.bundles = Put(d.bundles, c.plugin, "registered")
           /\ c.op = "upsert_plugin_capability" =>
                 IsTables(e) /\ SameBut(d, e, {"capabilities"}) /\ e.capabilities = Put(d.capabilities, c.plugin, "enabled")
           /\ c.op = "register_plugin_hook" =>
                 IsTables(e) /\ SameBut(d, e, {"hooks"}) /\ e.hooks = Put(d.hooks, c.plugin, "enabled")
           /\ c.op = "set_plugin_hooks_enabled" =>
                 IsTables(e) /\ SameBut(d, e, {"hooks"}) /\ e.hooks = Painted(d.hooks, {c.plugin}, "disabled")
           /\ c.op = "set_runtime_config" =>
                 IsTables(e) /\ SameBut(d, e, {"config"}) /\ e.config = Put(d.config, ConfigId, c.version)
           /\ c.op = "write_audit_log" =>
                 IsTables(e) /\ SameBut(d, e, {"audit"}) /\ e.audit = Put(d.audit, c.id, Here)
<1>1. \A t \in Tables : \A key, row : LET x == PutRow(d, t, key, row) IN
          IsTables(x) /\ SameBut(d, x, {t}) /\ x[t] = Put(d[t], key, row)
  <2> SUFFICES ASSUME NEW t \in Tables, NEW key, NEW row
               PROVE  LET x == PutRow(d, t, key, row) IN
                      IsTables(x) /\ SameBut(d, x, {t}) /\ x[t] = Put(d[t], key, row)
    OBVIOUS
  <2> QED  BY TableChanged
<1>2. \A t \in Tables : \A keys, row : LET x == SetRows(d, t, keys, row) IN
          IsTables(x) /\ SameBut(d, x, {t}) /\ x[t] = Painted(d[t], keys, row)
  <2> SUFFICES ASSUME NEW t \in Tables, NEW keys, NEW row
               PROVE  LET x == SetRows(d, t, keys, row) IN
                      IsTables(x) /\ SameBut(d, x, {t}) /\ x[t] = Painted(d[t], keys, row)
    OBVIOUS
  <2> QED  BY TableChanged
<1>3. /\ "plugins" \in Tables /\ "packages" \in Tables /\ "bundles" \in Tables /\ "capabilities" \in Tables
      /\ "hooks" \in Tables /\ "config" \in Tables /\ "audit" \in Tables
  BY TablesAre
<1>4. CASE c.op = "register_plugin"
  BY <1>1, <1>3, <1>4 DEF After, register_plugin
<1>5. CASE c.op = "register_plugin_package"
  BY <1>1, <1>3, <1>5 DEF After, register_plugin_package
<1>6. CASE c.op = "register_plugin_bundle"
  BY <1>1, <1>3, <1>6 DEF After
<1>7. CASE c.op = "upsert_plugin_capability"
  BY <1>1, <1>3, <1>7 DEF After
<1>8. CASE c.op = "register_plugin_hook"
  BY <1>1, <1>3, <1>8 DEF After
<1>9. CASE c.op = "set_plugin_hooks_enabled"
  BY <1>2, <1>3, <1>9 DEF After
<1>10. CASE c.op = "set_runtime_config"
  BY <1>1, <1>3, <1>10 DEF After
<1>11. CASE c.op = "write_audit_log"
  BY <1>1, <1>3, <1>11 DEF After
<1> QED  BY <1>4, <1>5, <1>6, <1>7, <1>8, <1>9, <1>10, <1>11

LEMMA StatusAfter ==
    ASSUME NEW d, IsTables(d), NEW c, c.op = "set_plugin_status", NEW e, e = After(d, c)
    PROVE  /\ IsTables(e) /\ SameBut(d, e, {"plugins"} \cup Surfaces)
           /\ e["plugins"] = Put(d["plugins"], c.plugin, c.status)
           /\ \A t \in Surfaces : e[t] = IF c.status = "active" THEN d[t] ELSE Painted(d[t], {c.plugin}, "disabled")
<1> DEFINE set == PutRow(d, "plugins", c.plugin, c.status)
<1>0. "plugins" \in Tables /\ "plugins" \notin Surfaces /\ Surfaces \subseteq Tables
  BY TablesAre DEF Surfaces
<1>1. IsTables(set) /\ SameBut(d, set, {"plugins"}) /\ set["plugins"] = Put(d["plugins"], c.plugin, c.status)
  BY <1>0, TableChanged
<1>2. e = IF c.status = "active" THEN set ELSE SurfacesOff(set, {c.plugin})
  BY DEF After, set_plugin_status
<1> HIDE DEF set
<1>3. CASE c.status = "active"
  BY <1>0, <1>1, <1>2, <1>3 DEF SameBut
<1>4. CASE c.status # "active"
  <2>1. /\ IsTables(e) /\ SameBut(set, e, Surfaces)
        /\ \A t \in Surfaces : e[t] = Painted(set[t], {c.plugin}, "disabled")
    BY <1>1, <1>2, <1>4, SurfacesOffIs
  <2> QED  BY <1>0, <1>1, <1>4, <2>1 DEF SameBut
<1> QED  BY <1>3, <1>4

LEMMA UninstallAfter ==
    ASSUME NEW d, IsTables(d), NEW c, c.op = "uninstall_plugin", NEW e, e = After(d, c)
    PROVE  /\ IsTables(e) /\ SameBut(d, e, PluginTables \cup {"deployments"})
           /\ \A t \in PluginTables : e[t] = Without(d[t], {c.plugin})
           /\ e["deployments"] = Without(d["deployments"], DeploymentsOf(d, c.plugin))
           /\ Retires(d["deployments"], e["deployments"])
<1>1. e = [t \in Tables |-> IF t \in PluginTables THEN Without(d[t], {c.plugin})
                            ELSE IF t = "deployments" THEN Without(d[t], DeploymentsOf(d, c.plugin)) ELSE d[t]]
  BY DEF After, uninstall_plugin
<1>2. PluginTables \subseteq Tables /\ "deployments" \in Tables /\ "deployments" \notin PluginTables
  BY TablesAre
<1>3. e["deployments"] = Without(d["deployments"], DeploymentsOf(d, c.plugin))
  BY <1>1, <1>2
<1>4. Retires(d["deployments"], e["deployments"])
  BY <1>3 DEF Retires, Without
<1> QED  BY <1>1, <1>2, <1>3, <1>4 DEF IsTables, SameBut

LEMMA RevokeBundleAfter ==
    ASSUME NEW d, IsTables(d), NEW c, c.op = "revoke_plugin_bundle", NEW e, e = After(d, c)
    PROVE  /\ IsTables(e) /\ SameBut(d, e, {"bundles", "capabilities", "deployments"})
           /\ e["bundles"] = Painted(d["bundles"], {c.plugin}, "revoked")
           /\ e["capabilities"] = Painted(d["capabilities"], {c.plugin}, "disabled")
           /\ Retires(d["deployments"], e["deployments"])
           /\ \A k \in DOMAIN e["deployments"] : k[1] = c.plugin => e["deployments"][k] \notin Live
<1>1. e = BundlesRevoked(d, {c.plugin})
  BY DEF After
<1>2. "killed" \notin Live
  BY DEF Live
<1> DEFINE live == {k \in DOMAIN d.deployments : k[1] \in {c.plugin} /\ d.deployments[k] \in Live}
<1>3. /\ IsTables(e) /\ SameBut(d, e, {"bundles", "capabilities", "deployments"})
      /\ e["bundles"] = Painted(d["bundles"], {c.plugin}, "revoked")
      /\ e["capabilities"] = Painted(d["capabilities"], {c.plugin}, "disabled")
      /\ e["deployments"] = Painted(d["deployments"], live, "killed")
  BY <1>1, BundlesRevokedIs
<1>5. \A k \in DOMAIN e["deployments"] : k[1] = c.plugin => e["deployments"][k] \notin Live
  BY <1>2, <1>3 DEF Painted
<1> HIDE DEF live
<1>4. Retires(d["deployments"], e["deployments"])
  BY <1>2, <1>3, PaintedRetires
<1> QED  BY <1>3, <1>4, <1>5

(* The bundles of P are revoked, and nothing of them is live.               *)
BundlesGone(d, e, P) ==
    /\ e["bundles"] = Painted(d["bundles"], P, "revoked")
    /\ \A p \in DOMAIN e["capabilities"] : e["capabilities"][p] = "enabled" =>
          p \in DOMAIN d["capabilities"] /\ d["capabilities"][p] = "enabled" /\ p \notin P
    /\ \A k \in DOMAIN e["deployments"] : e["deployments"][k] \in Live =>
          k \in DOMAIN d["deployments"] /\ d["deployments"][k] \in Live /\ k[1] \notin P

LEMMA RevokeSignerAfter ==
    ASSUME NEW d, IsTables(d), NEW c, c.op = "revoke_package_signer", NEW e, e = After(d, c)
    PROVE  /\ IsTables(e)
           /\ SameBut(d, e, {"plugins", "bundles", "deployments", "revocations"} \cup Surfaces)
           /\ e["plugins"] = Painted(d["plugins"], PackagedBy(d, c.signer), "disabled")
           /\ e["revocations"] = Put(d["revocations"], c.signer, "revoked")
           /\ BundlesGone(d, e, BundledBy(d, c.signer))
           /\ e["capabilities"] = Painted(Painted(d["capabilities"], PackagedBy(d, c.signer), "disabled"),
                                          BundledBy(d, c.signer), "disabled")
           /\ \A t \in {"hooks", "menus"} : e[t] = Painted(d[t], PackagedBy(d, c.signer), "disabled")
           /\ Retires(d["deployments"], e["deployments"])
<1> DEFINE packaged == PackagedBy(d, c.signer)
           bundled == BundledBy(d, c.signer)
           x == SetRows(d, "plugins", packaged, "disabled")
           y == SurfacesOff(x, packaged)
           z == BundlesRevoked(y, bundled)
<1>0. /\ "plugins" \in Tables /\ "revocations" \in Tables /\ "hooks" \in Tables /\ "menus" \in Tables
      /\ "capabilities" \in Tables /\ "deployments" \in Tables /\ "bundles" \in Tables
      /\ Surfaces = {"capabilities", "hooks", "menus"} /\ "killed" \notin Live
  BY TablesAre DEF Surfaces, Live
<1>1. e = PutRow(z, "revocations", c.signer, "revoked")
  BY DEF After, revoke_package_signer, PackagedBy, BundledBy
<1> HIDE DEF packaged, bundled
<1>2. IsTables(x) /\ x["plugins"] = Painted(d["plugins"], packaged, "disabled") /\ SameBut(d, x, {"plugins"})
  BY <1>0, TableChanged
<1> HIDE DEF x
<1>3. IsTables(y) /\ SameBut(x, y, Surfaces) /\ \A t \in Surfaces : y[t] = Painted(x[t], packaged, "disabled")
  BY <1>2, SurfacesOffIs
<1> HIDE DEF y
<1>4. /\ IsTables(z) /\ SameBut(y, z, {"bundles", "capabilities", "deployments"})
      /\ z["capabilities"] = Painted(y["capabilities"], bundled, "disabled")
      /\ z["bundles"] = Painted(y["bundles"], bundled, "revoked")
      /\ \A k \in DOMAIN z["deployments"] : z["deployments"][k] \in Live =>
            k \in DOMAIN y["deployments"] /\ y["deployments"][k] \in Live /\ k[1] \notin bundled
      /\ Retires(y["deployments"], z["deployments"])
  <2> DEFINE live == {k \in DOMAIN y.deployments : k[1] \in bundled /\ y.deployments[k] \in Live}
  <2>1. /\ IsTables(z) /\ SameBut(y, z, {"bundles", "capabilities", "deployments"})
        /\ z["capabilities"] = Painted(y["capabilities"], bundled, "disabled")
        /\ z["bundles"] = Painted(y["bundles"], bundled, "revoked")
        /\ z["deployments"] = Painted(y["deployments"], live, "killed")
    BY <1>3, BundlesRevokedIs
  <2> HIDE DEF z
  <2>3. \A k \in DOMAIN z["deployments"] : z["deployments"][k] \in Live =>
            k \in DOMAIN y["deployments"] /\ y["deployments"][k] \in Live /\ k[1] \notin bundled
    BY <1>0, <2>1 DEF Painted
  <2> HIDE DEF live
  <2>2. Retires(y["deployments"], z["deployments"])
    BY <1>0, <2>1, PaintedRetires
  <2> QED  BY <2>1, <2>2, <2>3
<1> HIDE DEF z
<1>5. IsTables(e) /\ e["revocations"] = Put(z["revocations"], c.signer, "revoked") /\ SameBut(z, e, {"revocations"})
  <2>1. \A key, row : LET a == PutRow(z, "revocations", key, row) IN
            IsTables(a) /\ a["revocations"] = Put(z["revocations"], key, row) /\ SameBut(z, a, {"revocations"})
    BY <1>0, <1>4, TableChanged
  <2> QED  BY <1>1, <2>1
<1>6. \A t \in Tables \ ({"plugins", "bundles", "deployments", "revocations"} \cup Surfaces) : e[t] = d[t]
  BY <1>0, <1>2, <1>3, <1>4, <1>5 DEF SameBut
<1>7. /\ e["plugins"] = x["plugins"] /\ z["revocations"] = d["revocations"]
      /\ e["capabilities"] = z["capabilities"] /\ e["deployments"] = z["deployments"]
      /\ y["capabilities"] = Painted(d["capabilities"], packaged, "disabled")
      /\ \A t \in {"hooks", "menus"} : e[t] = Painted(d[t], packaged, "disabled")
      /\ y["deployments"] = d["deployments"]
      /\ y["bundles"] = d["bundles"] /\ e["bundles"] = z["bundles"]
  BY <1>0, <1>2, <1>3, <1>4, <1>5 DEF SameBut
<1>9. BundlesGone(d, e, bundled)
  <2>1. e["bundles"] = Painted(d["bundles"], bundled, "revoked")
    BY <1>4, <1>7
  <2>2. \A p \in DOMAIN e["capabilities"] : e["capabilities"][p] = "enabled" =>
            p \in DOMAIN d["capabilities"] /\ d["capabilities"][p] = "enabled" /\ p \notin bundled
    BY <1>4, <1>7 DEF Painted
  <2>3. \A k \in DOMAIN e["deployments"] : e["deployments"][k] \in Live =>
            k \in DOMAIN d["deployments"] /\ d["deployments"][k] \in Live /\ k[1] \notin bundled
    BY <1>4, <1>7
  <2> QED  BY <2>1, <2>2, <2>3 DEF BundlesGone
<1>8. e["capabilities"] = Painted(Painted(d["capabilities"], packaged, "disabled"), bundled, "disabled")
  BY <1>4, <1>7
<1> QED  BY <1>2, <1>4, <1>5, <1>6, <1>7, <1>8, <1>9 DEF SameBut, packaged, bundled

LEMMA DeploymentAfter ==
    ASSUME NEW d, IsTables(d), NEW c, c.op = "upsert_plugin_deployment", NEW e, e = After(d, c)
    PROVE  /\ IsTables(e) /\ SameBut(d, e, {"deployments"})
           /\ c.key \in DOMAIN e["deployments"] /\ e["deployments"][c.key] = c.status
           /\ DOMAIN e["deployments"] \subseteq DOMAIN d["deployments"] \cup {c.key}
           /\ \A k \in DOMAIN e["deployments"] \ {c.key} :
                 e["deployments"][k] = d["deployments"][k] \/ e["deployments"][k] \notin Live
<1> DEFINE others == {k \in DeploymentsOf(d, c.key[1]) : d.deployments[k] = "active" /\ k # c.key}
           x == IF c.status = "active" THEN SetRows(d, "deployments", others, "rolled_back") ELSE d
<1>0. "deployments" \in Tables /\ "rolled_back" \notin Live
  BY TablesAre DEF Live
<1>1. e = PutRow(x, "deployments", c.key, c.status)
  BY DEF After, upsert_plugin_deployment
<1> HIDE DEF others
<1>2. IsTables(x) /\ SameBut(d, x, {"deployments"}) /\ Retires(d["deployments"], x["deployments"])
  <2>1. CASE c.status = "active"
    <3>1. \A keys, row : LET a == SetRows(d, "deployments", keys, row) IN
              IsTables(a) /\ a["deployments"] = Painted(d["deployments"], keys, row) /\ SameBut(d, a, {"deployments"})
      BY <1>0, TableChanged
    <3>2. Retires(d["deployments"], Painted(d["deployments"], others, "rolled_back"))
      BY <1>0, PaintedRetires
    <3> QED  BY <2>1, <3>1, <3>2
  <2>2. CASE c.status # "active"
    BY <2>2 DEF SameBut, Retires
  <2> QED  BY <2>1, <2>2
<1> HIDE DEF x
<1>3. IsTables(e) /\ SameBut(x, e, {"deployments"}) /\ e["deployments"] = Put(x["deployments"], c.key, c.status)
  <2>1. \A key, row : LET a == PutRow(x, "deployments", key, row) IN
            IsTables(a) /\ a["deployments"] = Put(x["deployments"], key, row) /\ SameBut(x, a, {"deployments"})
    BY <1>0, <1>2, TableChanged
  <2> QED  BY <1>1, <2>1
<1>4. /\ DOMAIN e["deployments"] = DOMAIN x["deployments"] \cup {c.key}
      /\ e["deployments"][c.key] = c.status
      /\ \A k \in DOMAIN x["deployments"] \ {c.key} : e["deployments"][k] = x["deployments"][k]
  BY <1>3 DEF Put
<1>5. SameBut(d, e, {"deployments"})
  BY <1>2, <1>3 DEF SameBut
<1> QED  BY <1>2, <1>3, <1>4, <1>5 DEF Retires

(* The same, by table.                                                      *)
Effect(d, c, e) ==
    /\ IsTables(e)
    /\ c.op \in StatusOps => e["plugins"] = Put(d["plugins"], c.plugin, c.status)
    /\ c.op = "revoke_package_signer" => e["plugins"] = Painted(d["plugins"], PackagedBy(d, c.signer), "disabled")
    /\ c.op = "uninstall_plugin" => \A t \in PluginTables : e[t] = Without(d[t], {c.plugin})
    /\ c.op \notin StatusOps \cup {"revoke_package_signer", "uninstall_plugin"} => e["plugins"] = d["plugins"]
    /\ c.op = "register_plugin_package" => e["packages"] = Put(d["packages"], c.plugin, SignerOf[c.plugin])
    /\ c.op \notin {"register_plugin_package", "uninstall_plugin"} => e["packages"] = d["packages"]
    /\ e["revocations"] = IF c.op = "revoke_package_signer" THEN Put(d["revocations"], c.signer, "revoked")
                          ELSE d["revocations"]
    /\ e["audit"] = IF c.op = "write_audit_log" THEN Put(d["audit"], c.id, Here) ELSE d["audit"]
    /\ e["config"] = IF c.op = "set_runtime_config" THEN Put(d["config"], ConfigId, c.version) ELSE d["config"]
    /\ c.op # "upsert_plugin_deployment" => Retires(d["deployments"], e["deployments"])

LEMMA AfterIs ==
    ASSUME NEW d, IsTables(d), NEW c, c.op \in Ops, NEW e, e = After(d, c)
    PROVE  Effect(d, c, e)
<1> USE DEF Effect
<1>0. \A f : Retires(f, f)
  BY DEF Retires
<1>1. CASE c.op = "set_plugin_status"
  <2>1. IsTables(e) /\ SameBut(d, e, {"plugins"} \cup Surfaces) /\ e["plugins"] = Put(d["plugins"], c.plugin, c.status)
    BY <1>1, StatusAfter
  <2> QED  BY TablesAre, <1>0, <1>1, <2>1 DEF SameBut, StatusOps, Surfaces
<1>2. CASE c.op = "uninstall_plugin"
  <2>1. /\ IsTables(e) /\ SameBut(d, e, PluginTables \cup {"deployments"})
        /\ \A t \in PluginTables : e[t] = Without(d[t], {c.plugin})
        /\ Retires(d["deployments"], e["deployments"])
    BY <1>2, UninstallAfter
  <2> QED  BY TablesAre, <1>2, <2>1 DEF SameBut, StatusOps, Surfaces
<1>3. CASE c.op = "revoke_plugin_bundle"
  <2>1. /\ IsTables(e) /\ SameBut(d, e, {"bundles", "capabilities", "deployments"})
        /\ Retires(d["deployments"], e["deployments"])
    BY <1>3, RevokeBundleAfter
  <2> QED  BY TablesAre, <1>0, <1>3, <2>1 DEF SameBut, StatusOps, Surfaces
<1>4. CASE c.op = "revoke_package_signer"
  <2>1. /\ IsTables(e) /\ SameBut(d, e, {"plugins", "bundles", "deployments", "revocations"} \cup Surfaces)
        /\ e["plugins"] = Painted(d["plugins"], PackagedBy(d, c.signer), "disabled")
        /\ e["revocations"] = Put(d["revocations"], c.signer, "revoked")
        /\ Retires(d["deployments"], e["deployments"])
    BY <1>4, RevokeSignerAfter
  <2> QED  BY TablesAre, <1>4, <2>1 DEF SameBut, StatusOps, Surfaces
<1>5. CASE c.op = "upsert_plugin_deployment"
  <2>1. IsTables(e) /\ SameBut(d, e, {"deployments"})
    BY <1>5, DeploymentAfter
  <2> QED  BY TablesAre, <1>5, <2>1 DEF SameBut, StatusOps, Surfaces
<1>6. CASE c.op = "register_plugin"
  <2>1. IsTables(e) /\ SameBut(d, e, {"plugins"}) /\ e["plugins"] = Put(d["plugins"], c.plugin, c.status)
    BY <1>6, SimpleAfter
  <2> QED  BY TablesAre, <1>0, <1>6, <2>1 DEF SameBut, StatusOps, Surfaces
<1>7. CASE c.op = "register_plugin_package"
  <2>1. IsTables(e) /\ SameBut(d, e, {"packages"}) /\ e["packages"] = Put(d["packages"], c.plugin, SignerOf[c.plugin])
    BY <1>7, SimpleAfter
  <2> QED  BY TablesAre, <1>0, <1>7, <2>1 DEF SameBut, StatusOps, Surfaces
<1>8. CASE c.op \in {"register_plugin_bundle", "upsert_plugin_capability"}
  <2>1. CASE c.op = "register_plugin_bundle"
    <3>1. IsTables(e) /\ SameBut(d, e, {"bundles"})
      BY <2>1, SimpleAfter
    <3> QED  BY TablesAre, <1>0, <2>1, <3>1 DEF SameBut, StatusOps, Surfaces
  <2>2. CASE c.op = "upsert_plugin_capability"
    <3>1. IsTables(e) /\ SameBut(d, e, {"capabilities"})
      BY <2>2, SimpleAfter
    <3> QED  BY TablesAre, <1>0, <2>2, <3>1 DEF SameBut, StatusOps, Surfaces
  <2> QED  BY <1>8, <2>1, <2>2
<1>9. CASE c.op \in {"register_plugin_hook", "set_plugin_hooks_enabled"}
  <2>1. CASE c.op = "register_plugin_hook"
    <3>1. IsTables(e) /\ SameBut(d, e, {"hooks"})
      BY <2>1, SimpleAfter
    <3> QED  BY TablesAre, <1>0, <2>1, <3>1 DEF SameBut, StatusOps, Surfaces
  <2>2. CASE c.op = "set_plugin_hooks_enabled"
    <3>1. IsTables(e) /\ SameBut(d, e, {"hooks"})
      BY <2>2, SimpleAfter
    <3> QED  BY TablesAre, <1>0, <2>2, <3>1 DEF SameBut, StatusOps, Surfaces
  <2> QED  BY <1>9, <2>1, <2>2
<1>10. CASE c.op = "set_runtime_config"
  <2>1. IsTables(e) /\ SameBut(d, e, {"config"}) /\ e["config"] = Put(d["config"], ConfigId, c.version)
    BY <1>10, SimpleAfter
  <2> QED  BY TablesAre, <1>0, <1>10, <2>1 DEF SameBut, StatusOps, Surfaces
<1>11. CASE c.op = "write_audit_log"
  <2>1. IsTables(e) /\ SameBut(d, e, {"audit"}) /\ e["audit"] = Put(d["audit"], c.id, Here)
    BY <1>11, SimpleAfter
  <2> QED  BY TablesAre, <1>0, <1>11, <2>1 DEF SameBut, StatusOps, Surfaces
<1>12. \/ c.op = "set_plugin_status" \/ c.op = "uninstall_plugin" \/ c.op = "revoke_plugin_bundle"
       \/ c.op = "revoke_package_signer" \/ c.op = "upsert_plugin_deployment" \/ c.op = "register_plugin"
       \/ c.op = "register_plugin_package" \/ c.op \in {"register_plugin_bundle", "upsert_plugin_capability"}
       \/ c.op \in {"register_plugin_hook", "set_plugin_hooks_enabled"} \/ c.op = "set_runtime_config"
       \/ c.op = "write_audit_log"
  BY DEF Ops, StatusOps
<1> QED  BY <1>1, <1>2, <1>3, <1>4, <1>5, <1>6, <1>7, <1>8, <1>9, <1>10, <1>11, <1>12

(* A surface comes on only for a plugin that is active, and goes off with   *)
(* its plugin.                                                              *)
LEMMA SurfacesAfter ==
    ASSUME NEW d, IsTables(d), NEW c, c.op \in Ops, NEW e, e = After(d, c), Accepts(d, c),
           NEW t \in Surfaces, NEW p \in DOMAIN e[t], e[t][p] = "enabled"
    PROVE  \/ /\ p \in DOMAIN d[t] /\ d[t][p] = "enabled"
              /\ ~(c.op = "set_plugin_status" /\ c.plugin = p /\ c.status # "active")
              /\ ~(c.op = "uninstall_plugin" /\ c.plugin = p)
              /\ ~(c.op = "revoke_package_signer" /\ p \in PackagedBy(d, c.signer))
           \/ c.op \in {"upsert_plugin_capability", "register_plugin_hook"} /\ IsActive(d, p)
<1>0. \A f, keys, k : k \in DOMAIN Painted(f, keys, "disabled") /\ Painted(f, keys, "disabled")[k] = "enabled"
                      => k \in DOMAIN f /\ f[k] = "enabled" /\ k \notin keys
  BY DEF Painted
<1>1. CASE c.op = "set_plugin_status"
  <2>1. e[t] = IF c.status = "active" THEN d[t] ELSE Painted(d[t], {c.plugin}, "disabled")
    BY <1>1, StatusAfter
  <2> QED  BY TablesAre, <1>0, <1>1, <2>1 DEF SameBut, StatusOps, Surfaces
<1>2. CASE c.op = "uninstall_plugin"
  <2>1. \A s \in PluginTables : e[s] = Without(d[s], {c.plugin})
    BY <1>2, UninstallAfter
  <2>2. t \in PluginTables
    BY TablesAre DEF Surfaces
  <2>3. e[t] = Without(d[t], {c.plugin})
    BY <2>1, <2>2
  <2> QED  BY <1>2, <2>3 DEF Without
<1>3. CASE c.op = "revoke_plugin_bundle"
  <2>2. SameBut(d, e, {"bundles", "capabilities", "deployments"})
    BY <1>3, RevokeBundleAfter
  <2>1. t # "capabilities" => e[t] = d[t]
    BY <2>2, TablesAre DEF SameBut, Surfaces
  <2>0. t = "capabilities" => e[t] = Painted(d[t], {c.plugin}, "disabled")
    BY <1>3, RevokeBundleAfter
  <2> QED  BY TablesAre, <1>0, <1>3, <2>0, <2>1 DEF SameBut, StatusOps, Surfaces
<1>4. CASE c.op = "revoke_package_signer"
  <2> DEFINE packaged == PackagedBy(d, c.signer)
             bundled == BundledBy(d, c.signer)
  <2>1. /\ e["capabilities"] = Painted(Painted(d["capabilities"], packaged, "disabled"), bundled, "disabled")
        /\ \A s \in {"hooks", "menus"} : e[s] = Painted(d[s], packaged, "disabled")
    BY <1>4, RevokeSignerAfter
  <2> HIDE DEF packaged, bundled
  <2>2. p \in DOMAIN d[t] /\ d[t][p] = "enabled" /\ p \notin packaged
    <3>1. CASE t = "capabilities"
      <4>1. p \in DOMAIN Painted(d[t], packaged, "disabled") /\ Painted(d[t], packaged, "disabled")[p] = "enabled"
        BY <1>0, <2>1, <3>1
      <4> QED  BY <1>0, <4>1
    <3>2. CASE t \in {"hooks", "menus"}
      BY <1>0, <2>1, <3>2
    <3> QED  BY <3>1, <3>2 DEF Surfaces
  <2> QED  BY TablesAre, <1>4, <2>2 DEF packaged, SameBut, StatusOps, Surfaces
<1>5. CASE c.op = "upsert_plugin_deployment"
  <2>1. SameBut(d, e, {"deployments"})
    BY <1>5, DeploymentAfter
  <2> QED  BY TablesAre, <1>5, <2>1 DEF SameBut, Surfaces
<1>6. CASE c.op \in {"register_plugin", "register_plugin_package", "register_plugin_bundle", "set_runtime_config",
                     "write_audit_log"}
  <2>1. \E s \in Tables \ Surfaces : SameBut(d, e, {s})
    <3>1. CASE c.op = "register_plugin"
      <4>1. SameBut(d, e, {"plugins"})
        BY <3>1, SimpleAfter
      <4> QED  BY <4>1, TablesAre DEF Surfaces
    <3>2. CASE c.op = "register_plugin_package"
      <4>1. SameBut(d, e, {"packages"})
        BY <3>2, SimpleAfter
      <4> QED  BY <4>1, TablesAre DEF Surfaces
    <3>3. CASE c.op = "register_plugin_bundle"
      <4>1. SameBut(d, e, {"bundles"})
        BY <3>3, SimpleAfter
      <4> QED  BY <4>1, TablesAre DEF Surfaces
    <3>4. CASE c.op = "set_runtime_config"
      <4>1. SameBut(d, e, {"config"})
        BY <3>4, SimpleAfter
      <4> QED  BY <4>1, TablesAre DEF Surfaces
    <3>5. CASE c.op = "write_audit_log"
      <4>1. SameBut(d, e, {"audit"})
        BY <3>5, SimpleAfter
      <4> QED  BY <4>1, TablesAre DEF Surfaces
    <3> QED  BY <1>6, <3>1, <3>2, <3>3, <3>4, <3>5
  <2>2. e[t] = d[t]
    BY <2>1, TablesAre DEF SameBut, Surfaces
  <2> QED  BY <1>6, <2>2
<1>7. CASE c.op = "upsert_plugin_capability"
  <2>1. SameBut(d, e, {"capabilities"}) /\ e["capabilities"] = Put(d["capabilities"], c.plugin, "enabled")
    BY <1>7, SimpleAfter
  <2>2. IsActive(d, c.plugin)
    BY <1>7 DEF Accepts
  <2> QED  BY TablesAre, <1>7, <2>1, <2>2 DEF Put, SameBut, Surfaces
<1>8. CASE c.op = "register_plugin_hook"
  <2>1. SameBut(d, e, {"hooks"}) /\ e["hooks"] = Put(d["hooks"], c.plugin, "enabled")
    BY <1>8, SimpleAfter
  <2>2. IsActive(d, c.plugin)
    BY <1>8 DEF Accepts
  <2> QED  BY TablesAre, <1>8, <2>1, <2>2 DEF Put, SameBut, StatusOps, Surfaces
<1>9. CASE c.op = "set_plugin_hooks_enabled"
  <2>1. SameBut(d, e, {"hooks"}) /\ e["hooks"] = Painted(d["hooks"], {c.plugin}, "disabled")
    BY <1>9, SimpleAfter
  <2> QED  BY TablesAre, <1>0, <1>9, <2>1 DEF SameBut, StatusOps, Surfaces
<1> QED  BY <1>1, <1>2, <1>3, <1>4, <1>5, <1>6, <1>7, <1>8, <1>9 DEF Ops, StatusOps

-----------------------------------------------------------------------------
(***************************************************************************)
(* What a write is about, and what the tables will hold when the writes    *)
(* before the n-th are in: the plugin is disabled or gone, it has a        *)
(* package, the signer is revoked.                                         *)
(***************************************************************************)
Sets(c, p) == c.op \in StatusOps /\ c.plugin = p
Removes(c, p) == c.op = "uninstall_plugin" /\ c.plugin = p
About(c, p) == Sets(c, p) \/ Removes(c, p)
Enables(c, p) == Sets(c, p) /\ c.status # "disabled"
Disables(c, p) == Removes(c, p) \/ (Sets(c, p) /\ c.status = "disabled")
Packs(c, p) == c.op = "register_plugin_package" /\ c.plugin = p
Revokes(c, s) == c.op = "revoke_package_signer" /\ c.signer = s
Audits(c) == c.op = "write_audit_log"
Deploys(c) == c.op = "upsert_plugin_deployment"

Off(W, d, n, p) ==
    \/ \E k \in W : /\ k.n < n /\ Disables(k.call, p)
                    /\ \A j \in W : k.n < j.n /\ j.n < n => ~Enables(j.call, p)
    \/ /\ \A j \in W : j.n < n => ~Enables(j.call, p)
       /\ p \in DOMAIN d["plugins"] => d["plugins"][p] = "disabled"
Packed(W, d, n, p) ==
    \/ \E k \in W : /\ k.n < n /\ Packs(k.call, p)
                    /\ \A j \in W : k.n < j.n /\ j.n < n => ~Removes(j.call, p)
    \/ /\ p \in DOMAIN d["packages"]
       /\ \A j \in W : j.n < n => ~Removes(j.call, p)
Revoked(W, d, n, s) == s \in DOMAIN d["revocations"] \/ \E k \in W : k.n < n /\ Revokes(k.call, s)

LEMMA PluginsAfter ==
    ASSUME NEW d, IsTables(d), NEW c, c.op \in Ops, NEW e, e = After(d, c), NEW p
    PROVE  /\ p \in DOMAIN e["plugins"] =>
                 \/ Sets(c, p) /\ e["plugins"][p] = c.status
                 \/ /\ ~Sets(c, p) /\ ~Removes(c, p) /\ p \in DOMAIN d["plugins"]
                    /\ \/ e["plugins"][p] = d["plugins"][p]
                       \/ /\ e["plugins"][p] = "disabled" /\ c.op = "revoke_package_signer"
                          /\ p \in PackagedBy(d, c.signer)
           /\ p \in DOMAIN d["plugins"] /\ ~Removes(c, p) => p \in DOMAIN e["plugins"]
           /\ Sets(c, p) => p \in DOMAIN e["plugins"]
           /\ c.op = "revoke_package_signer" /\ p \in PackagedBy(d, c.signer) => e["plugins"][p] = "disabled"
<1>a. Effect(d, c, e)
  BY AfterIs
<1>1. CASE c.op \in StatusOps
  <2>1. e["plugins"] = Put(d["plugins"], c.plugin, c.status)
    BY <1>1, <1>a DEF Effect
  <2>2. c.op # "uninstall_plugin" /\ c.op # "revoke_package_signer"
    BY <1>1 DEF StatusOps
  <2> QED  BY <1>1, <2>1, <2>2 DEF Put, Sets, Removes
<1>2. CASE c.op = "revoke_package_signer"
  <2>1. e["plugins"] = Painted(d["plugins"], PackagedBy(d, c.signer), "disabled")
    BY <1>2, <1>a DEF Effect
  <2>2. c.op \notin StatusOps /\ c.op # "uninstall_plugin"
    BY <1>2 DEF StatusOps
  <2>3. PackagedBy(d, c.signer) \subseteq DOMAIN d["plugins"]
    BY DEF PackagedBy
  <2> QED  BY <1>2, <2>1, <2>2, <2>3 DEF Painted, Sets, Removes
<1>3. CASE c.op = "uninstall_plugin"
  <2>1. e["plugins"] = Without(d["plugins"], {c.plugin})
    <3>1. \A t \in PluginTables : e[t] = Without(d[t], {c.plugin})
      BY <1>3, <1>a DEF Effect
    <3> QED  BY <3>1, TablesAre
  <2>2. c.op \notin StatusOps /\ c.op # "revoke_package_signer"
    BY <1>3 DEF StatusOps
  <2> QED  BY <1>3, <2>1, <2>2 DEF Without, Sets, Removes
<1>4. CASE c.op \notin StatusOps \cup {"revoke_package_signer", "uninstall_plugin"}
  <2>1. e["plugins"] = d["plugins"]
    BY <1>4, <1>a DEF Effect
  <2> QED  BY <1>4, <2>1 DEF Sets, Removes
<1> QED  BY <1>1, <1>2, <1>3, <1>4

LEMMA PackagesAfter ==
    ASSUME NEW d, IsTables(d), NEW c, c.op \in Ops, NEW e, e = After(d, c), NEW p
    PROVE  /\ p \in DOMAIN e["packages"] =>
                 \/ Packs(c, p) /\ e["packages"][p] = SignerOf[p]
                 \/ /\ ~Packs(c, p) /\ ~Removes(c, p) /\ p \in DOMAIN d["packages"]
                    /\ e["packages"][p] = d["packages"][p]
<1>a. Effect(d, c, e)
  BY AfterIs
<1>1. CASE c.op = "register_plugin_package"
  <2>1. e["packages"] = Put(d["packages"], c.plugin, SignerOf[c.plugin])
    BY <1>1, <1>a DEF Effect
  <2> QED  BY <1>1, <2>1 DEF Put, Packs, Removes
<1>2. CASE c.op = "uninstall_plugin"
  <2>1. e["packages"] = Without(d["packages"], {c.plugin})
    <3>1. \A t \in PluginTables : e[t] = Without(d[t], {c.plugin})
      BY <1>2, <1>a DEF Effect
    <3> QED  BY <3>1, TablesAre
  <2> QED  BY <1>2, <2>1 DEF Without, Packs, Removes
<1>3. CASE c.op \notin {"register_plugin_package", "uninstall_plugin"}
  <2>1. e["packages"] = d["packages"]
    BY <1>3, <1>a DEF Effect
  <2> QED  BY <1>3, <2>1 DEF Packs, Removes
<1> QED  BY <1>1, <1>2, <1>3

LEMMA RevocationsAfter ==
    ASSUME NEW d, IsTables(d), NEW c, c.op \in Ops, NEW e, e = After(d, c)
    PROVE  /\ \A s \in DOMAIN e["revocations"] : s \in DOMAIN d["revocations"] \/ Revokes(c, s)
           /\ \A s \in DOMAIN d["revocations"] :
                 s \in DOMAIN e["revocations"] /\ (e["revocations"][s] = d["revocations"][s] \/ Revokes(c, s))
<1>a. Effect(d, c, e)
  BY AfterIs
<1>1. e["revocations"] = IF c.op = "revoke_package_signer" THEN Put(d["revocations"], c.signer, "revoked")
                         ELSE d["revocations"]
  BY <1>a DEF Effect
<1> QED  BY <1>1 DEF Put, Revokes

(* Sending the first write only brings about what was to come.              *)
LEMMA SendingKeeps ==
    ASSUME NEW W, NEW h \in W, \A w \in W : w.n \in Nat, \A w \in W \ {h} : w.n > h.n,
           NEW d, IsTables(d), h.call.op \in Ops, NEW e, e = After(d, h.call),
           NEW n \in Nat, n > h.n, NEW p
    PROVE  /\ Off(W, d, n, p) => Off(W \ {h}, e, n, p)
           /\ Packed(W \ {h}, e, n, p) => Packed(W, d, n, p)
           /\ \A s : Revoked(W \ {h}, e, n, s) => Revoked(W, d, n, s)
<1> DEFINE V == W \ {h}
           c == h.call
<1>1. /\ p \in DOMAIN e["plugins"] =>
            \/ Sets(c, p) /\ e["plugins"][p] = c.status
            \/ /\ ~Sets(c, p) /\ ~Removes(c, p) /\ p \in DOMAIN d["plugins"]
               /\ e["plugins"][p] = d["plugins"][p] \/ e["plugins"][p] = "disabled"
  BY PluginsAfter
<1>2. p \in DOMAIN e["packages"] => Packs(c, p) \/ (~Removes(c, p) /\ p \in DOMAIN d["packages"])
  BY PackagesAfter
<1>3. \A s \in DOMAIN e["revocations"] : s \in DOMAIN d["revocations"] \/ Revokes(c, s)
  BY RevocationsAfter
<1> HIDE DEF c
<1>4. h.n < n /\ h.call = c /\ \A w \in V : w \in W /\ h.n < w.n
  BY DEF c
<1>5. ASSUME Off(W, d, n, p) PROVE Off(V, e, n, p)
  <2>1. ASSUME NEW k \in W, k.n < n, Disables(k.call, p), \A j \in W : k.n < j.n /\ j.n < n => ~Enables(j.call, p)
        PROVE  Off(V, e, n, p)
    <3>1. CASE k = h
      <4>1. \A j \in V : j.n < n => ~Enables(j.call, p)
        BY <1>4, <2>1, <3>1
      <4>2. p \in DOMAIN e["plugins"] => e["plugins"][p] = "disabled"
        BY <1>1, <1>4, <2>1, <3>1 DEF Disables, Sets, Removes, StatusOps
      <4> QED  BY <4>1, <4>2 DEF Off
    <3>2. CASE k # h
      <4>1. k \in V /\ \A j \in V : k.n < j.n /\ j.n < n => ~Enables(j.call, p)
        BY <1>4, <2>1, <3>2
      <4> HIDE DEF V
      <4> QED  BY <2>1, <4>1 DEF Off
    <3> QED  BY <3>1, <3>2
  <2>2. ASSUME \A j \in W : j.n < n => ~Enables(j.call, p), p \in DOMAIN d["plugins"] => d["plugins"][p] = "disabled"
        PROVE  Off(V, e, n, p)
    <3>1. \A j \in V : j.n < n => ~Enables(j.call, p)
      BY <2>2
    <3>2. ~Enables(c, p)
      BY <1>4, <2>2
    <3>3. p \in DOMAIN e["plugins"] => e["plugins"][p] = "disabled"
      BY <1>1, <2>2, <3>2 DEF Enables
    <3> QED  BY <3>1, <3>3 DEF Off
  <2> QED  BY <1>5, <2>1, <2>2 DEF Off
<1>6. ASSUME Packed(V, e, n, p) PROVE Packed(W, d, n, p)
  <2>1. ASSUME NEW k \in V, k.n < n, Packs(k.call, p), \A j \in V : k.n < j.n /\ j.n < n => ~Removes(j.call, p)
        PROVE  Packed(W, d, n, p)
    <3>1. k \in W /\ \A j \in W : k.n < j.n /\ j.n < n => ~Removes(j.call, p)
      <4>1. ~(k.n < h.n)
        BY <1>4, <2>1
      <4> QED  BY <1>4, <2>1, <4>1
    <3> QED  BY <2>1, <3>1 DEF Packed
  <2>2. ASSUME p \in DOMAIN e["packages"], \A j \in V : j.n < n => ~Removes(j.call, p)
        PROVE  Packed(W, d, n, p)
    <3>1. CASE Packs(c, p)
      <4>1. \A j \in W : h.n < j.n /\ j.n < n => ~Removes(j.call, p)
        BY <2>2
      <4> QED  BY <1>4, <3>1, <4>1 DEF Packed
    <3>2. CASE ~Removes(c, p) /\ p \in DOMAIN d["packages"]
      <4>1. \A j \in W : j.n < n => ~Removes(j.call, p)
        BY <1>4, <2>2, <3>2
      <4> QED  BY <3>2, <4>1 DEF Packed
    <3> QED  BY <1>2, <2>2, <3>1, <3>2
  <2> QED  BY <1>6, <2>1, <2>2 DEF Packed
<1>7. ASSUME NEW s, Revoked(V, e, n, s) PROVE Revoked(W, d, n, s)
  BY <1>3, <1>4, <1>7 DEF Revoked
<1> QED  BY <1>5, <1>6, <1>7

(* What a call queues comes after what waits.                               *)
LEMMA PastStays ==
    ASSUME NEW W, NEW N, \A w \in N : w.n \in Nat, NEW n \in Nat, \A w \in N : n <= w.n,
           NEW d, NEW p
    PROVE  /\ Off(W \cup N, d, n, p) <=> Off(W, d, n, p)
           /\ Packed(W \cup N, d, n, p) <=> Packed(W, d, n, p)
           /\ \A s : Revoked(W \cup N, d, n, s) <=> Revoked(W, d, n, s)
<1>1. \A w \in N : ~(w.n < n)
  OBVIOUS
<1>2. \A w : w.n < n => (w \in W \cup N <=> w \in W)
  BY <1>1
<1>3. Off(W \cup N, d, n, p) <=> Off(W, d, n, p)
  BY <1>2 DEF Off
<1>4. Packed(W \cup N, d, n, p) <=> Packed(W, d, n, p)
  BY <1>2 DEF Packed
<1>5. \A s : Revoked(W \cup N, d, n, s) <=> Revoked(W, d, n, s)
  BY <1>2 DEF Revoked
<1> QED  BY <1>3, <1>4, <1>5

(* What is off or revoked stays so, and what has no package gets none, as   *)
(* far as the new writes leave it alone.                                    *)
LEMMA NewWritesFollow ==
    ASSUME NEW W, NEW N, NEW m \in Nat, NEW n \in Nat, m <= n,
           \A w \in W : w.n \in Nat /\ w.n < m, \A w \in N : w.n \in Nat /\ m <= w.n /\ w.n < n,
           NEW d, NEW p
    PROVE  /\ (\A w \in N : ~Enables(w.call, p)) /\ Off(W, d, m, p) => Off(W \cup N, d, n, p)
           /\ (\A w \in N : ~Enables(w.call, p)) /\ (\E w \in N : Disables(w.call, p)) => Off(W \cup N, d, n, p)
           /\ (\A w \in N : ~Packs(w.call, p)) /\ Packed(W \cup N, d, n, p)
                 => Packed(W, d, m, p) /\ \A w \in N : ~Removes(w.call, p)
<1>1. /\ \A w \in W : w.n < n
      /\ \A v \in W : \A w \in N : v.n < w.n
  OBVIOUS
<1>2. ASSUME \A w \in N : ~Enables(w.call, p), Off(W, d, m, p) PROVE Off(W \cup N, d, n, p)
  <2>1. ASSUME NEW k \in W, Disables(k.call, p), \A j \in W : k.n < j.n /\ j.n < m => ~Enables(j.call, p)
        PROVE  Off(W \cup N, d, n, p)
    <3>1. k \in W \cup N /\ k.n < n /\ \A j \in W \cup N : k.n < j.n /\ j.n < n => ~Enables(j.call, p)
      BY <1>1, <1>2, <2>1
    <3> QED  BY <2>1, <3>1 DEF Off
  <2>2. ASSUME \A j \in W : j.n < m => ~Enables(j.call, p), p \in DOMAIN d["plugins"] => d["plugins"][p] = "disabled"
        PROVE  Off(W \cup N, d, n, p)
    <3>1. \A j \in W \cup N : j.n < n => ~Enables(j.call, p)
      BY <1>1, <1>2, <2>2
    <3> QED  BY <2>2, <3>1 DEF Off
  <2> QED  BY <1>2, <2>1, <2>2 DEF Off
<1>3. ASSUME \A w \in N : ~Enables(w.call, p), NEW k \in N, Disables(k.call, p) PROVE Off(W \cup N, d, n, p)
  <2>1. k \in W \cup N /\ k.n < n /\ \A j \in W \cup N : k.n < j.n /\ j.n < n => ~Enables(j.call, p)
    BY <1>1, <1>3
  <2> QED  BY <1>3, <2>1 DEF Off
<1>4. ASSUME \A w \in N : ~Packs(w.call, p), Packed(W \cup N, d, n, p)
      PROVE  Packed(W, d, m, p) /\ \A w \in N : ~Removes(w.call, p)
  <2>1. ASSUME NEW k \in W \cup N, k.n < n, Packs(k.call, p),
               \A j \in W \cup N : k.n < j.n /\ j.n < n => ~Removes(j.call, p)
        PROVE  Packed(W, d, m, p) /\ \A w \in N : ~Removes(w.call, p)
    <3>1. k \in W /\ k.n < m
      BY <1>4, <2>1
    <3>2. \A j \in W : k.n < j.n /\ j.n < m => ~Removes(j.call, p)
      BY <1>1, <2>1
    <3>3. \A w \in N : ~Removes(w.call, p)
      BY <1>1, <2>1, <3>1
    <3> QED  BY <2>1, <3>1, <3>2, <3>3 DEF Packed
  <2>2. ASSUME p \in DOMAIN d["packages"], \A j \in W \cup N : j.n < n => ~Removes(j.call, p)
        PROVE  Packed(W, d, m, p) /\ \A w \in N : ~Removes(w.call, p)
    <3>1. (\A j \in W : j.n < m => ~Removes(j.call, p)) /\ \A w \in N : ~Removes(w.call, p)
      BY <1>1, <2>2
    <3> QED  BY <2>2, <3>1 DEF Packed
  <2> QED  BY <1>4, <2>1, <2>2 DEF Packed
<1> QED  BY <1>2, <1>3, <1>4

-----------------------------------------------------------------------------
(***************************************************************************)
(* The cache: a row it has, or will hear of last, is the row of the        *)
(* database, or the row is gone.                                           *)
(***************************************************************************)
Current(d, t) == {key \in DOMAIN d[t] : InScope(t, key, d[t][key])}
Touches(rows, t, k) == \E key \in Current(rows, t) : CacheKey(t, key) = k
Agrees(d, t, key, row) ==
    \/ key \in Current(d, t) /\ row = d[t][key]
    \/ key \notin DOMAIN d[t] /\ t \in PluginTables \cup DeploymentTables
Settles(d, trail, known, t) ==
    /\ \A key \in Current(d, t) :
          CacheKey(t, key) \in DOMAIN known[t] \/ \E i \in DOMAIN trail : Touches(trail[i], t, CacheKey(t, key))
    /\ \A k \in DOMAIN known[t] :
          /\ CacheKey(t, known[t][k].id) = k
          /\ Agrees(d, t, known[t][k].id, known[t][k].row) \/ \E i \in DOMAIN trail : Touches(trail[i], t, k)
    /\ \A i \in DOMAIN trail : \A key \in Current(trail[i], t) :
          \/ Agrees(d, t, key, trail[i][t][key])
          \/ \E j \in DOMAIN trail : j > i /\ Touches(trail[j], t, CacheKey(t, key))

(* The rows a write leaves: of the revoked signers, the configuration and   *)
(* the audit none goes, of the last two none changes, and the configuration *)
(* gains none of this server but this life's.                               *)
Grows(d, e) ==
    /\ \A t \in Tables \ (PluginTables \cup DeploymentTables) : DOMAIN d[t] \subseteq DOMAIN e[t]
    /\ \A t \in ScopedTables : \A key \in DOMAIN d[t] : e[t][key] = d[t][key]
    /\ \A key \in DOMAIN e["config"] : key \in DOMAIN d["config"] \/ key = <<Here, life>> \/ key[1] # Here

(* This life's value is the last the cache hears of.                        *)
ConfigSettles(d, trail, known, l) ==
    /\ \A key \in DOMAIN d["config"] : key[1] = Here => key[2] \in Nat /\ key[2] <= l
    /\ \A i \in DOMAIN trail : \A key \in DOMAIN trail[i]["config"] : key[1] = Here => key = <<Here, l>>
    /\ <<Here, l>> \in DOMAIN d["config"] =>
          \/ \E i \in DOMAIN trail : <<Here, l>> \in DOMAIN trail[i]["config"]
          \/ "config" \in DOMAIN known["config"] /\ known["config"]["config"].id = <<Here, l>>

LEMMA UpsertedIs ==
    ASSUME NEW known, NEW rows, NEW last \in HeardLast(rows), NEW x, x = Upserted(known, rows, last), NEW t \in Tables
    PROVE  /\ IsTables(x)
           /\ DOMAIN x[t] = DOMAIN known[t] \cup {CacheKey(t, key) : key \in Current(rows, t)}
           /\ \A k \in DOMAIN x[t] :
                 \/ /\ ~Touches(rows, t, k) /\ k \in DOMAIN known[t] /\ x[t][k] = known[t][k]
                 \/ \E key \in Current(rows, t) :
                       CacheKey(t, key) = k /\ x[t][k].id = key /\ x[t][k].row = rows[t][key]
<1> DEFINE heard == Current(rows, t)
           Row(k) == CASE t = "deployments" -> last[1][k] [] t = "config" -> last[2][k]
                       [] OTHER -> CHOOSE key \in heard : CacheKey(t, key) = k
           keys == DOMAIN known[t] \cup {CacheKey(t, key) : key \in heard}
<1>1. IsTables(x)
  BY DEF Upserted, IsTables
<1>2. x[t] = [k \in keys |-> IF \E key \in heard : CacheKey(t, key) = k
                             THEN [id |-> Row(k), row |-> rows[t][Row(k)]] ELSE known[t][k]]
  BY DEF Upserted, Heard, Current
<1>3. ASSUME NEW k, Touches(rows, t, k) PROVE Row(k) \in heard /\ CacheKey(t, Row(k)) = k
  <2>1. PICK key \in heard : CacheKey(t, key) = k
    BY <1>3 DEF Touches
  <2>2. CASE t \notin {"deployments", "config"}
    BY <2>1, <2>2
  <2>3. ASSUME NEW choice \in LastOf(rows, t) PROVE choice[k] \in heard /\ CacheKey(t, choice[k]) = k
    <3>1. choice \in [{CacheKey(t, j) : j \in heard} -> heard] /\ \A j \in DOMAIN choice : CacheKey(t, choice[j]) = j
      BY <2>3 DEF LastOf, Heard, Current
    <3>2. k \in DOMAIN choice
      BY <2>1, <3>1
    <3> QED  BY <3>1, <3>2
  <2>4. last[1] \in LastOf(rows, "deployments") /\ last[2] \in LastOf(rows, "config")
    BY DEF HeardLast
  <2>5. CASE t = "deployments"
    <3>1. Row(k) = last[1][k]
      BY <2>5
    <3> QED  BY <2>3, <2>4, <2>5, <3>1
  <2>6. CASE t = "config"
    <3>1. Row(k) = last[2][k]
      BY <2>6
    <3> QED  BY <2>3, <2>4, <2>6, <3>1
  <2> QED  BY <2>2, <2>5, <2>6
<1> HIDE DEF heard, Row, keys
<1>4. DOMAIN x[t] = keys
  BY <1>2
<1>5. ASSUME NEW k \in DOMAIN x[t]
      PROVE  \/ /\ ~Touches(rows, t, k) /\ k \in DOMAIN known[t] /\ x[t][k] = known[t][k]
             \/ \E key \in heard : CacheKey(t, key) = k /\ x[t][k].id = key /\ x[t][k].row = rows[t][key]
  <2>1. CASE Touches(rows, t, k)
    <3>1. x[t][k] = [id |-> Row(k), row |-> rows[t][Row(k)]]
      BY <1>2, <1>4, <2>1 DEF Touches, heard
    <3>2. x[t][k].id = Row(k) /\ x[t][k].row = rows[t][Row(k)]
      BY <3>1
    <3> QED  BY <1>3, <2>1, <3>2
  <2>2. CASE ~Touches(rows, t, k)
    <3>1. ~\E key \in heard : CacheKey(t, key) = k
      BY <2>2 DEF Touches, heard
    <3>2. k \in DOMAIN known[t]
      BY <1>4, <3>1 DEF keys
    <3> QED  BY <1>2, <1>4, <2>2, <3>1, <3>2
  <2> QED  BY <2>1, <2>2
<1> QED  BY <1>1, <1>4, <1>5 DEF heard, keys

(* A transaction's rows are heard of after all others.                      *)
LEMMA CommitSettles ==
    ASSUME NEW d, NEW e, IsTables(e), Grows(d, e), NEW trail, IsSeq(trail), NEW known, NEW t \in Tables,
           Settles(d, trail, known, t)
    PROVE  Settles(e, Append(trail, Changes(d, e)), known, t)
<1> DEFINE new == Changes(d, e)
           longer == Append(trail, new)
           m == Len(trail)
<1>1. /\ DOMAIN new[t] = {key \in DOMAIN e[t] : key \in DOMAIN d[t] => d[t][key] # e[t][key]}
      /\ \A key \in DOMAIN new[t] : new[t][key] = e[t][key]
  BY DEF Changes
<1> HIDE DEF new
<1>2. /\ DOMAIN trail = 1 .. m /\ m \in Nat /\ IsSeq(longer) /\ Len(longer) = m + 1
      /\ \A i \in DOMAIN trail : longer[i] = trail[i]
  <2>1. DOMAIN trail = 1 .. m /\ m \in Nat
    BY SeqFacts
  <2>2. IsSeq(longer) /\ Len(longer) = m + 1 /\ \A i \in DOMAIN trail : longer[i] = trail[i]
    BY MembersOfAppend
  <2> QED  BY <2>1, <2>2
<1>3. DOMAIN longer = 1 .. m + 1 /\ longer[m + 1] = new
  <2>1. DOMAIN longer = 1 .. m + 1
    BY <1>2, SeqFacts
  <2>2. longer[m + 1] = new
    <3>1. trail \in Seq(Members(trail))
      BY SeqFacts
    <3> QED  BY <1>2, <3>1
  <2> QED  BY <2>1, <2>2
<1> HIDE DEF longer, m
<1>4. \A i \in DOMAIN trail : i \in DOMAIN longer /\ longer[i] = trail[i] /\ i < m + 1
  BY <1>2, <1>3
<1>5. m + 1 \in DOMAIN longer
  BY <1>2, <1>3
<1>6. \A key \in DOMAIN e[t] : InScope(t, key, e[t][key]) /\ (key \in DOMAIN d[t] => d[t][key] # e[t][key])
                               => Touches(new, t, CacheKey(t, key))
  BY <1>1 DEF Touches, Current
<1>12. \A key \in DOMAIN d[t] : InScope(t, key, d[t][key]) <=> InScope(t, key, e[t][key])
  BY DEF Grows, InScope
<1>7. ASSUME NEW key, NEW row, Agrees(d, t, key, row)
      PROVE  Agrees(e, t, key, row) \/ Touches(new, t, CacheKey(t, key))
  <2>1. CASE key \in Current(d, t) /\ row = d[t][key]
    <3>1. CASE key \in DOMAIN e[t]
      BY <1>6, <1>12, <2>1, <3>1 DEF Agrees, Current
    <3>2. CASE key \notin DOMAIN e[t]
      BY <2>1, <3>2 DEF Agrees, Current, Grows
    <3> QED  BY <3>1, <3>2
  <2>2. CASE key \notin DOMAIN d[t] /\ t \in PluginTables \cup DeploymentTables
    <3>1. InScope(t, key, e[t][key])
      BY <2>2, TablesAre DEF InScope
    <3> QED  BY <1>6, <2>2, <3>1 DEF Agrees
  <2> QED  BY <1>7, <2>1, <2>2 DEF Agrees
<1>8. ASSUME NEW key \in Current(e, t)
      PROVE  CacheKey(t, key) \in DOMAIN known[t] \/ \E i \in DOMAIN longer : Touches(longer[i], t, CacheKey(t, key))
  <2>1. CASE key \in Current(d, t)
    BY <1>4, <2>1 DEF Settles
  <2>2. CASE key \notin Current(d, t)
    <3>1. key \in DOMAIN e[t] /\ InScope(t, key, e[t][key]) /\ key \notin DOMAIN d[t]
      BY <1>12, <2>2 DEF Current
    <3> QED  BY <1>3, <1>5, <1>6, <3>1
  <2> QED  BY <2>1, <2>2
<1>9. ASSUME NEW k \in DOMAIN known[t]
      PROVE  /\ CacheKey(t, known[t][k].id) = k
             /\ Agrees(e, t, known[t][k].id, known[t][k].row) \/ \E i \in DOMAIN longer : Touches(longer[i], t, k)
  <2>1. /\ CacheKey(t, known[t][k].id) = k
        /\ Agrees(d, t, known[t][k].id, known[t][k].row) \/ \E i \in DOMAIN trail : Touches(trail[i], t, k)
    BY DEF Settles
  <2>2. CASE Agrees(d, t, known[t][k].id, known[t][k].row)
    BY <1>3, <1>5, <1>7, <2>1, <2>2
  <2> QED  BY <1>4, <2>1, <2>2
<1>10. ASSUME NEW i \in DOMAIN longer, NEW key \in Current(longer[i], t)
       PROVE  \/ Agrees(e, t, key, longer[i][t][key])
              \/ \E j \in DOMAIN longer : j > i /\ Touches(longer[j], t, CacheKey(t, key))
  <2>1. CASE i \in DOMAIN trail
    <3>1. longer[i] = trail[i] /\ i < m + 1
      BY <1>4, <2>1
    <3>2. \/ Agrees(d, t, key, trail[i][t][key])
          \/ \E j \in DOMAIN trail : j > i /\ Touches(trail[j], t, CacheKey(t, key))
      BY <2>1, <3>1 DEF Settles
    <3>3. CASE Agrees(d, t, key, trail[i][t][key])
      BY <1>2, <1>3, <1>5, <1>7, <3>1, <3>3
    <3>4. CASE \E j \in DOMAIN trail : j > i /\ Touches(trail[j], t, CacheKey(t, key))
      BY <1>4, <3>4
    <3> QED  BY <3>2, <3>3, <3>4
  <2>2. CASE i \notin DOMAIN trail
    <3>1. i = m + 1 /\ longer[i] = new
      BY <1>2, <1>3, <2>2
    <3>2. key \in DOMAIN e[t] /\ new[t][key] = e[t][key] /\ InScope(t, key, e[t][key])
      BY <1>1, <3>1 DEF Current
    <3> QED  BY <3>1, <3>2 DEF Agrees, Current
  <2> QED  BY <2>1, <2>2
<1>11. Settles(e, longer, known, t)
  BY <1>8, <1>9, <1>10 DEF Settles
<1> QED  BY <1>11 DEF longer, new

(* The cache hears of the first of the transactions it trails.              *)
LEMMA HearingSettles ==
    ASSUME NEW d, NEW trail, IsSeq(trail), trail # <<>>, NEW known, NEW t \in Tables,
           Settles(d, trail, known, t), NEW last \in HeardLast(Head(trail)), NEW x, x = Upserted(known, Head(trail), last)
    PROVE  Settles(d, Tail(trail), x, t)
<1> DEFINE m == Len(trail)
           rest == Tail(trail)
           r == Head(trail)
<1>1. DOMAIN trail = 1 .. m /\ m \in Nat /\ trail \in Seq(Members(trail))
  BY SeqFacts
<1>2. m >= 1 /\ r = trail[1] /\ DOMAIN rest = 1 .. m - 1 /\ \A i \in 1 .. m - 1 : rest[i] = trail[i + 1]
  BY <1>1
<1>3. /\ DOMAIN x[t] = DOMAIN known[t] \cup {CacheKey(t, key) : key \in Current(r, t)}
      /\ \A k \in DOMAIN x[t] :
            \/ /\ ~Touches(r, t, k) /\ k \in DOMAIN known[t] /\ x[t][k] = known[t][k]
            \/ \E key \in Current(r, t) :
                  CacheKey(t, key) = k /\ x[t][k].id = key /\ x[t][k].row = r[t][key]
  BY UpsertedIs
<1> HIDE DEF m, rest, r
<1>4. 1 \in DOMAIN trail
  BY <1>1, <1>2
<1>5. ASSUME NEW i \in DOMAIN trail, i # 1 PROVE i - 1 \in DOMAIN rest /\ rest[i - 1] = trail[i]
  <2>1. i - 1 \in 1 .. m - 1 /\ (i - 1) + 1 = i
    BY <1>1, <1>5
  <2> QED  BY <1>2, <2>1
<1>6. ASSUME NEW k, \E i \in DOMAIN trail : Touches(trail[i], t, k)
      PROVE  Touches(r, t, k) \/ \E i \in DOMAIN rest : Touches(rest[i], t, k)
  BY <1>2, <1>5, <1>6
<1>7. \A k : Touches(r, t, k) => k \in DOMAIN x[t]
  BY <1>3 DEF Touches
<1>8. ASSUME NEW key \in Current(d, t)
      PROVE  CacheKey(t, key) \in DOMAIN x[t] \/ \E i \in DOMAIN rest : Touches(rest[i], t, CacheKey(t, key))
  <2>1. CacheKey(t, key) \in DOMAIN known[t] \/ \E i \in DOMAIN trail : Touches(trail[i], t, CacheKey(t, key))
    BY DEF Settles
  <2> QED  BY <1>3, <1>6, <1>7, <2>1
<1>9. ASSUME NEW k \in DOMAIN x[t]
      PROVE  /\ CacheKey(t, x[t][k].id) = k
             /\ Agrees(d, t, x[t][k].id, x[t][k].row) \/ \E i \in DOMAIN rest : Touches(rest[i], t, k)
  <2>1. CASE ~Touches(r, t, k) /\ k \in DOMAIN known[t] /\ x[t][k] = known[t][k]
    <3>1. /\ CacheKey(t, known[t][k].id) = k
          /\ Agrees(d, t, known[t][k].id, known[t][k].row) \/ \E i \in DOMAIN trail : Touches(trail[i], t, k)
      BY <2>1 DEF Settles
    <3> QED  BY <1>6, <2>1, <3>1
  <2>2. ASSUME NEW key \in Current(r, t), CacheKey(t, key) = k, x[t][k].id = key, x[t][k].row = r[t][key]
        PROVE  /\ CacheKey(t, x[t][k].id) = k
               /\ Agrees(d, t, x[t][k].id, x[t][k].row) \/ \E i \in DOMAIN rest : Touches(rest[i], t, k)
    <3>1. \/ Agrees(d, t, key, r[t][key])
          \/ \E j \in DOMAIN trail : j > 1 /\ Touches(trail[j], t, CacheKey(t, key))
      BY <1>2, <1>4, <2>2 DEF Settles
    <3>2. CASE \E j \in DOMAIN trail : j > 1 /\ Touches(trail[j], t, CacheKey(t, key))
      BY <1>5, <2>2, <3>2
    <3> QED  BY <2>2, <3>1, <3>2
  <2> QED  BY <1>3, <2>1, <2>2
<1>10. ASSUME NEW i \in DOMAIN rest, NEW key \in Current(rest[i], t)
       PROVE  \/ Agrees(d, t, key, rest[i][t][key])
              \/ \E j \in DOMAIN rest : j > i /\ Touches(rest[j], t, CacheKey(t, key))
  <2>1. i \in Nat /\ i + 1 \in DOMAIN trail /\ rest[i] = trail[i + 1]
    BY <1>1, <1>2
  <2>2. \/ Agrees(d, t, key, trail[i + 1][t][key])
        \/ \E j \in DOMAIN trail : j > i + 1 /\ Touches(trail[j], t, CacheKey(t, key))
    BY <2>1 DEF Settles
  <2>3. ASSUME NEW j \in DOMAIN trail, j > i + 1, Touches(trail[j], t, CacheKey(t, key))
        PROVE  \E l \in DOMAIN rest : l > i /\ Touches(rest[l], t, CacheKey(t, key))
    <3>1. j # 1 /\ j \in Nat /\ j - 1 > i
      BY <1>1, <2>1, <2>3
    <3> QED  BY <1>5, <2>3, <3>1
  <2> QED  BY <2>1, <2>2, <2>3
<1>11. Settles(d, rest, x, t)
  BY <1>8, <1>9, <1>10 DEF Settles
<1> QED  BY <1>11 DEF rest

(* A cache that starts from the tables has them.                            *)
LEMMA StartSettles ==
    ASSUME NEW d, NEW last \in HeardLast(d), NEW x, x = Upserted(EmptyTables, d, last), NEW t \in Tables
    PROVE  Settles(d, <<>>, x, t)
<1>1. EmptyTables[t] = Nothing /\ DOMAIN Nothing = {}
  BY DEF EmptyTables, Nothing
<1>2. /\ DOMAIN x[t] = DOMAIN EmptyTables[t] \cup {CacheKey(t, key) : key \in Current(d, t)}
      /\ \A k \in DOMAIN x[t] :
            \/ /\ ~Touches(d, t, k) /\ k \in DOMAIN EmptyTables[t] /\ x[t][k] = EmptyTables[t][k]
            \/ \E key \in Current(d, t) :
                  CacheKey(t, key) = k /\ x[t][k].id = key /\ x[t][k].row = d[t][key]
  BY UpsertedIs
<1>3. \A k \in DOMAIN x[t] : \E key \in Current(d, t) :
          CacheKey(t, key) = k /\ x[t][k].id = key /\ x[t][k].row = d[t][key]
  BY <1>1, <1>2
<1>4. DOMAIN <<>> = {}
  OBVIOUS
<1>5. \A key \in Current(d, t) : CacheKey(t, key) \in DOMAIN x[t]
  BY <1>2
<1>6. \A k \in DOMAIN x[t] : CacheKey(t, x[t][k].id) = k /\ Agrees(d, t, x[t][k].id, x[t][k].row)
  BY <1>3 DEF Agrees
<1> QED  BY <1>4, <1>5, <1>6 DEF Settles

(* The same of this life's configuration value.                             *)
LEMMA CommitConfig ==
    ASSUME NEW d, NEW e, Grows(d, e), life \in Nat, NEW trail, IsSeq(trail), NEW known,
           ConfigSettles(d, trail, known, life)
    PROVE  ConfigSettles(e, Append(trail, Changes(d, e)), known, life)
<1> DEFINE own == <<Here, life>>
           new == Changes(d, e)
           longer == Append(trail, new)
<1>0. own[1] = Here /\ own[2] = life
  OBVIOUS
<1>1. /\ DOMAIN new["config"] = {key \in DOMAIN e["config"] : key \in DOMAIN d["config"] =>
                                                               d["config"][key] # e["config"][key]}
  BY TablesAre DEF Changes
<1> HIDE DEF new
<1>2. /\ DOMAIN longer = 1 .. Len(trail) + 1 /\ longer[Len(trail) + 1] = new
      /\ DOMAIN trail = 1 .. Len(trail) /\ Len(trail) \in Nat
      /\ \A i \in DOMAIN trail : longer[i] = trail[i]
  <2>1. trail \in Seq(Members(trail)) /\ DOMAIN trail = 1 .. Len(trail) /\ Len(trail) \in Nat
    BY SeqFacts
  <2>2. IsSeq(longer) /\ Len(longer) = Len(trail) + 1 /\ \A i \in DOMAIN trail : longer[i] = trail[i]
    BY MembersOfAppend
  <2>3. DOMAIN longer = 1 .. Len(longer)
    BY <2>2, SeqFacts
  <2> QED  BY <2>1, <2>2, <2>3
<1> HIDE DEF longer, own
<1>3. /\ \A key \in DOMAIN d["config"] : key \in DOMAIN e["config"] /\ e["config"][key] = d["config"][key]
      /\ \A key \in DOMAIN e["config"] : key \in DOMAIN d["config"] \/ key = own \/ key[1] # Here
  BY TablesAre DEF Grows, own
<1>4. /\ \A key \in DOMAIN d["config"] : key[1] = Here => key[2] \in Nat /\ key[2] <= life
      /\ \A i \in DOMAIN trail : \A key \in DOMAIN trail[i]["config"] : key[1] = Here => key = own
      /\ own \in DOMAIN d["config"] =>
            \/ \E i \in DOMAIN trail : own \in DOMAIN trail[i]["config"]
            \/ "config" \in DOMAIN known["config"] /\ known["config"]["config"].id = own
  BY DEF ConfigSettles, own
<1>5. \A key \in DOMAIN new["config"] : key \in DOMAIN e["config"] /\ key \notin DOMAIN d["config"]
  BY <1>1, <1>3
<1>6. \A key \in DOMAIN e["config"] : key[1] = Here => key[2] \in Nat /\ key[2] <= life
  BY <1>0, <1>3, <1>4
<1>7. ASSUME NEW i \in DOMAIN longer, NEW key \in DOMAIN longer[i]["config"], key[1] = Here PROVE key = own
  <2>1. CASE i \in DOMAIN trail
    BY <1>2, <1>4, <1>7, <2>1
  <2>2. CASE i \notin DOMAIN trail
    <3>1. longer[i] = new
      BY <1>2, <2>2
    <3> QED  BY <1>3, <1>5, <1>7, <3>1
  <2> QED  BY <2>1, <2>2
<1>8. ASSUME own \in DOMAIN e["config"]
      PROVE  \/ \E i \in DOMAIN longer : own \in DOMAIN longer[i]["config"]
             \/ "config" \in DOMAIN known["config"] /\ known["config"]["config"].id = own
  <2>1. CASE own \in DOMAIN d["config"]
    BY <1>2, <1>4, <2>1
  <2>2. CASE own \notin DOMAIN d["config"]
    <3>1. Len(trail) + 1 \in DOMAIN longer /\ longer[Len(trail) + 1] = new
      BY <1>2
    <3>2. own \in DOMAIN new["config"]
      BY <1>1, <1>8, <2>2
    <3> QED  BY <3>1, <3>2
  <2> QED  BY <2>1, <2>2
<1>9. ConfigSettles(e, longer, known, life)
  BY <1>6, <1>7, <1>8 DEF ConfigSettles, own
<1> QED  BY <1>9 DEF longer, new

LEMMA HearingConfig ==
    ASSUME NEW d, NEW trail, IsSeq(trail), trail # <<>>, NEW known, NEW l, ConfigSettles(d, trail, known, l),
           NEW last \in HeardLast(Head(trail)), NEW x, x = Upserted(known, Head(trail), last)
    PROVE  ConfigSettles(d, Tail(trail), x, l)
<1> DEFINE own == <<Here, l>>
           m == Len(trail)
           rest == Tail(trail)
           r == Head(trail)
<1>0. own[1] = Here
  OBVIOUS
<1>1. DOMAIN trail = 1 .. m /\ m \in Nat /\ trail \in Seq(Members(trail))
  BY SeqFacts
<1>2. m >= 1 /\ r = trail[1] /\ DOMAIN rest = 1 .. m - 1 /\ \A i \in 1 .. m - 1 : rest[i] = trail[i + 1]
  BY <1>1
<1>3. /\ DOMAIN x["config"] = DOMAIN known["config"] \cup {CacheKey("config", key) : key \in Current(r, "config")}
      /\ \A k \in DOMAIN x["config"] :
            \/ /\ ~Touches(r, "config", k) /\ k \in DOMAIN known["config"] /\ x["config"][k] = known["config"][k]
            \/ \E key \in Current(r, "config") :
                  CacheKey("config", key) = k /\ x["config"][k].id = key /\ x["config"][k].row = r["config"][key]
  <2>1. "config" \in Tables
    BY TablesAre
  <2> HIDE DEF m, rest, own
  <2> QED  BY <2>1, UpsertedIs
<1> HIDE DEF own, m, rest, r
<1>4. /\ \A i \in DOMAIN trail : \A key \in DOMAIN trail[i]["config"] : key[1] = Here => key = own
      /\ \A key \in DOMAIN d["config"] : key[1] = Here => key[2] \in Nat /\ key[2] <= l
      /\ own \in DOMAIN d["config"] =>
            \/ \E i \in DOMAIN trail : own \in DOMAIN trail[i]["config"]
            \/ "config" \in DOMAIN known["config"] /\ known["config"]["config"].id = own
  BY DEF ConfigSettles, own
<1>5. \A key \in Current(r, "config") : key = own /\ CacheKey("config", key) = "config"
  <2>1. 1 \in DOMAIN trail
    BY <1>1, <1>2
  <2>2. \A key \in Current(r, "config") : key \in DOMAIN trail[1]["config"] /\ key[1] = Here
    BY <1>2 DEF Current, InScope, ScopedTables, ServerOfRow
  <2> QED  BY <1>4, <2>1, <2>2 DEF CacheKey
<1>6. own \in DOMAIN r["config"] => own \in Current(r, "config")
  BY <1>0 DEF Current, InScope, ScopedTables, ServerOfRow
<1>7. ASSUME own \in DOMAIN d["config"]
      PROVE  \/ \E i \in DOMAIN rest : own \in DOMAIN rest[i]["config"]
             \/ "config" \in DOMAIN x["config"] /\ x["config"]["config"].id = own
  <2>1. CASE Current(r, "config") # {}
    <3>1. "config" \in DOMAIN x["config"] /\ Touches(r, "config", "config")
      BY <1>3, <1>5, <2>1 DEF Touches
    <3> QED  BY <1>3, <1>5, <3>1
  <2>2. CASE Current(r, "config") = {}
    <3>1. own \notin DOMAIN r["config"]
      BY <1>6, <2>2
    <3>2. CASE \E i \in DOMAIN trail : own \in DOMAIN trail[i]["config"]
      <4>1. PICK i \in DOMAIN trail : own \in DOMAIN trail[i]["config"]
        BY <3>2
      <4>2. i # 1
        BY <1>2, <3>1, <4>1
      <4>3. i - 1 \in 1 .. m - 1 /\ (i - 1) + 1 = i
        BY <1>1, <4>2
      <4>4. rest[i - 1] = trail[i]
        BY <1>2, <4>3
      <4> QED  BY <1>2, <4>1, <4>3, <4>4
    <3>3. CASE "config" \in DOMAIN known["config"] /\ known["config"]["config"].id = own
      BY <1>3, <2>2, <3>3
    <3> QED  BY <1>4, <1>7, <3>2, <3>3
  <2> QED  BY <2>1, <2>2
<1>8. ASSUME NEW i \in DOMAIN rest, NEW key \in DOMAIN rest[i]["config"], key[1] = Here PROVE key = own
  <2>1. i + 1 \in DOMAIN trail /\ rest[i] = trail[i + 1]
    BY <1>1, <1>2
  <2> QED  BY <1>4, <1>8, <2>1
<1>9. ConfigSettles(d, rest, x, l)
  BY <1>4, <1>7, <1>8 DEF ConfigSettles, own
<1> QED  BY <1>9 DEF rest

LEMMA StartConfig ==
    ASSUME NEW d, NEW trail, NEW known, NEW l \in Nat, ConfigSettles(d, trail, known, l), NEW x
    PROVE  ConfigSettles(d, <<>>, x, l + 1)
<1> DEFINE own == <<Here, l + 1>>
<1>0. own[1] = Here /\ own[2] = l + 1 /\ DOMAIN <<>> = {}
  OBVIOUS
<1> HIDE DEF own
<1>1. \A key \in DOMAIN d["config"] : key[1] = Here => key[2] \in Nat /\ key[2] <= l
  BY DEF ConfigSettles
<1>2. own \notin DOMAIN d["config"]
  BY <1>0, <1>1
<1>3. \A key \in DOMAIN d["config"] : key[1] = Here => key[2] \in Nat /\ key[2] <= l + 1
  BY <1>1
<1> QED  BY <1>0, <1>2, <1>3 DEF ConfigSettles, own

-----------------------------------------------------------------------------
(***************************************************************************)
(* The invariant.  Its parts about the queue speak of the writes that wait *)
(* and of the tables they will change.                                     *)
(***************************************************************************)
AllIn == issued + 1
Later(W, w, p) == \E j \in W : j.n > w.n /\ About(j.call, p)

TablesTyped ==
    /\ IsTables(db) /\ IsTables(cache)
    /\ IsSeq(updates) /\ Len(updates) <= MaxUpdates
    /\ \A p \in DOMAIN db["packages"] : p \in DOMAIN db["plugins"] /\ db["packages"][p] = SignerOf[p]
    /\ life \in Nat \ {0}

MemoryTyped ==
    /\ IsFiniteSet(DOMAIN plugins) /\ \A p \in DOMAIN plugins : plugins[p] \in Statuses
    /\ packages \subseteq DOMAIN plugins
    /\ history = [p \in PluginIds |-> history[p]] /\ \A p \in PluginIds : IsSeq(history[p])
    /\ audits \in Nat

(* Each audit entry's id is written once by this server; what its other     *)
(* lives wrote is in the cache since this one began.                        *)
AuditsFit(W, written, known, last) ==
    /\ \A w \in W : Audits(w.call) =>
          /\ w.call.id \in DOMAIN written => written[w.call.id] # Here
          /\ w.call.id[3] \in Nat /\ w.call.id[3] <= last
    /\ \A v, w \in W : Audits(v.call) /\ Audits(w.call) /\ v.call.id = w.call.id => v = w
    /\ \A id \in DOMAIN written : written[id] = Here => id \in DOMAIN known \/ (id[3] \in Nat /\ id[3] <= last)

(* The registry knows of the signers revoked, or the cache does.            *)
SignersKnown ==
    /\ \A s \in DOMAIN db["revocations"] : s \in revokedSigners \/ s \in DOMAIN cache["revocations"]
    /\ \A w \in Waiting : w.call.op = "revoke_package_signer" => w.call.signer \in revokedSigners
    /\ \A i \in DOMAIN updates : DOMAIN updates[i]["revocations"] \subseteq revokedSigners
    /\ \A p \in packages :
          /\ SignerOf[p] \in DOMAIN cache["revocations"] => SignerOf[p] \in revokedSigners
          /\ SignerOf[p] \in revokedSigners => plugins[p] = "disabled"

(* register_plugin looks at nothing, so what waits of it must not turn off  *)
(* a plugin that is on, nor on one whose signer is revoked.                 *)
Registers(W, d) ==
    \A w \in W : w.call.op = "register_plugin" =>
        /\ w.call.status = "disabled" => Off(W, d, w.n, w.call.plugin)
        /\ w.call.status = "active" =>
              ~(Packed(W, d, w.n, w.call.plugin) /\ Revoked(W, d, w.n, SignerOf[w.call.plugin]))
StatusesFollow ==
    ~failed => \A p :
        /\ p \in DOMAIN plugins /\ plugins[p] = "disabled" => Off(Waiting, db, AllIn, p)
        /\ Packed(Waiting, db, AllIn, p) => p \in packages \/ (life # 1 /\ p \in DOMAIN cache["plugins"])

(* While the first life goes well, the database will be what memory is.     *)
StatusesAgree(W, d, f) ==
    \A p :
        /\ \A w \in W : Sets(w.call, p) /\ ~Later(W, w, p) => p \in DOMAIN f /\ f[p] = w.call.status
        /\ (\A w \in W : ~About(w.call, p)) /\ p \in DOMAIN d["plugins"] => p \in DOMAIN f /\ f[p] = d["plugins"][p]
        /\ \A w \in W : Revokes(w.call, SignerOf[p]) /\ Packed(W, d, w.n, p) =>
              Later(W, w, p) \/ (p \in DOMAIN f /\ f[p] = "disabled")

OwnKey(h, key) == key[1] \in PluginIds /\ key[3] \in DOMAIN h[key[1]] /\ key = <<key[1], 1, key[3]>>
DeploymentsAgree(W, d, h) ==
    /\ \A key \in DOMAIN d["deployments"] : OwnKey(h, key)
    /\ \A w \in W : Deploys(w.call) =>
          /\ OwnKey(h, w.call.key)
          /\ \/ \E j \in W : j.n > w.n /\ Deploys(j.call) /\ j.call.key = w.call.key
             \/ h[w.call.key[1]][w.call.key[3]] = w.call.status
    /\ \A key \in DOMAIN d["deployments"] : d["deployments"][key] \in Live =>
          \/ \E w \in W : Deploys(w.call) /\ w.call.key = key
          \/ h[key[1]][key[3]] = d["deployments"][key]

WritesTyped == \A w \in Waiting : w.call.op \in Ops
QueueInv ==
    /\ QueueTyped /\ WritesTyped
    /\ AuditsFit(Waiting, db["audit"], cache["audit"], audits)
    /\ SignersKnown /\ Registers(Waiting, db) /\ StatusesFollow
    /\ life = 1 /\ ~failed => StatusesAgree(Waiting, db, plugins) /\ DeploymentsAgree(Waiting, db, history)
CacheInv == (\A t \in Tables : Settles(db, updates, cache, t)) /\ ConfigSettles(db, updates, cache, life)
MirrorInv == TablesTyped /\ MemoryTyped /\ QueueInv /\ CacheInv /\ DisabledAreOut

(* The invariant gives the properties.                                      *)
LEMMA InvariantImplies == MirrorInv => QueueIsSound /\ MirrorIsCurrent /\ CacheSettles
<1> SUFFICES ASSUME MirrorInv PROVE QueueIsSound /\ MirrorIsCurrent /\ CacheSettles
  OBVIOUS
<1> USE DEF MirrorInv
<1>1. MirrorTypeOK
  <2>1. DOMAIN db = Tables /\ DOMAIN cache = Tables
    BY DEF TablesTyped, IsTables
  <2>2. \A status \in {plugins[p] : p \in DOMAIN plugins} : status \in Statuses
    BY DEF MemoryTyped
  <2> QED  BY <2>1, <2>2 DEF MirrorTypeOK, TablesTyped, MemoryTyped, QueueInv, QueueTyped
<1>2. RegistryAuditsOnce
  <2> SUFFICES ASSUME NEW i \in DOMAIN writeQueue, writeQueue[i].call.op = "write_audit_log",
                      NEW j \in DOMAIN writeQueue, writeQueue[j].call.op = "write_audit_log"
               PROVE  /\ writeQueue[i].call.id \in DOMAIN db.audit => db.audit[writeQueue[i].call.id] # Here
                      /\ writeQueue[i].call.id = writeQueue[j].call.id => i = j
    BY DEF RegistryAuditsOnce
  <2>1. writeQueue[i] \in Waiting /\ writeQueue[j] \in Waiting
    BY DEF Waiting, Members
  <2>2. /\ Audits(writeQueue[i].call) /\ Audits(writeQueue[j].call)
        /\ AuditsFit(Waiting, db["audit"], cache["audit"], audits)
    BY DEF Audits, QueueInv
  <2>3. /\ writeQueue[i].call.id \in DOMAIN db["audit"] => db["audit"][writeQueue[i].call.id] # Here
        /\ writeQueue[i].call.id = writeQueue[j].call.id => writeQueue[i] = writeQueue[j]
    BY <2>1, <2>2 DEF AuditsFit
  <2>4. writeQueue[i] = writeQueue[j] => i = j
    <3>1. /\ writeQueue[i].n = issued - Len(writeQueue) + i /\ writeQueue[j].n = issued - Len(writeQueue) + j
          /\ issued \in Nat /\ IsSeq(writeQueue)
      BY DEF QueueInv, QueueTyped
    <3>2. DOMAIN writeQueue = 1 .. Len(writeQueue) /\ Len(writeQueue) \in Nat
      BY <3>1, SeqFacts
    <3> QED  BY <3>1, <3>2
  <2> QED  BY <2>3, <2>4
<1>3. MirrorIsCurrent
  <2> SUFFICES ASSUME life = 1, ~failed, writeQueue = <<>>
               PROVE  /\ \A p \in DOMAIN db.plugins : p \in DOMAIN plugins /\ plugins[p] = db.plugins[p]
                      /\ \A k \in DOMAIN db.deployments :
                            db.deployments[k] \in Live => history[k[1]][k[3]] = db.deployments[k]
    BY DEF MirrorIsCurrent
  <2>1. Waiting = {}
    BY MembersOfFew DEF Waiting
  <2>2. StatusesAgree({}, db, plugins) /\ DeploymentsAgree({}, db, history)
    BY <2>1 DEF QueueInv
  <2> QED  BY <2>2 DEF StatusesAgree, DeploymentsAgree
<1>4. CacheSettles
  <2> SUFFICES ASSUME updates = <<>>
               PROVE  /\ \A t \in Tables :
                          LET current == {key \in DOMAIN db[t] :
                                              t \in ScopedTables => ServerOfRow(t, key, db[t][key]) = Here} IN
                          /\ \A key \in current : CacheKey(t, key) \in DOMAIN cache[t]
                          /\ \A k \in DOMAIN cache[t] :
                              \/ cache[t][k].id \in current /\ cache[t][k].row = db[t][cache[t][k].id]
                              \/ cache[t][k].id \notin DOMAIN db[t] /\ t \in PluginTables \cup DeploymentTables
                      /\ ConfigId \in DOMAIN db.config => cache.config["config"].id = ConfigId
    BY DEF CacheSettles
  <2>1. DOMAIN updates = {}
    OBVIOUS
  <2>2. ASSUME NEW t \in Tables
        PROVE  LET current == {key \in DOMAIN db[t] :
                                   t \in ScopedTables => ServerOfRow(t, key, db[t][key]) = Here} IN
               /\ \A key \in current : CacheKey(t, key) \in DOMAIN cache[t]
               /\ \A k \in DOMAIN cache[t] :
                   \/ cache[t][k].id \in current /\ cache[t][k].row = db[t][cache[t][k].id]
                   \/ cache[t][k].id \notin DOMAIN db[t] /\ t \in PluginTables \cup DeploymentTables
    <3>1. Settles(db, updates, cache, t)
      BY DEF CacheInv
    <3>2. /\ \A key \in Current(db, t) : CacheKey(t, key) \in DOMAIN cache[t]
          /\ \A k \in DOMAIN cache[t] : Agrees(db, t, cache[t][k].id, cache[t][k].row)
      BY <2>1, <3>1 DEF Settles
    <3> QED  BY <3>2 DEF Agrees, Current, InScope
  <2>3. ConfigId \in DOMAIN db.config => cache.config["config"].id = ConfigId
    <3>1. ConfigSettles(db, updates, cache, life)
      BY DEF CacheInv
    <3> QED  BY <2>1, <3>1 DEF ConfigSettles, ConfigId
  <2> QED  BY <2>2, <2>3
<1> QED  BY <1>1, <1>2, <1>3, <1>4 DEF QueueIsSound

(* Everything is empty at the start.                                        *)
LEMMA InitGivesInvariant == Init => MirrorInv
<1> SUFFICES ASSUME Init PROVE MirrorInv
  OBVIOUS
<1> USE DEF Init
<1>1. DOMAIN Nothing = {} /\ \A t \in Tables : EmptyTables[t] = Nothing
  BY DEF Nothing, EmptyTables
<1>2. /\ DOMAIN <<>> = {} /\ Len(<<>>) = 0 /\ IsSeq(<<>>) /\ Members(<<>>) = {}
  BY MembersOfFew
<1>3. Waiting = {}
  BY <1>2 DEF Waiting
<1>4. /\ "plugins" \in Tables /\ "packages" \in Tables /\ "revocations" \in Tables /\ "audit" \in Tables
      /\ "deployments" \in Tables /\ "capabilities" \in Tables /\ "hooks" \in Tables /\ "menus" \in Tables
  BY TablesAre
<1>5. TablesTyped
  BY <1>1, <1>2, <1>4, MirrorAssumption DEF TablesTyped, IsTables, EmptyTables
<1>6. MemoryTyped
  <2>1. IsFiniteSet({})
    BY FS_EmptySet
  <2> QED  BY <1>1, <1>2, <2>1 DEF MemoryTyped
<1>7. QueueInv
  <2>1. QueueTyped /\ WritesTyped
    <3>1. issued = 0 /\ applied = 0 /\ writeQueue = <<>> /\ failed = FALSE
      OBVIOUS
    <3>2. 0 <= MaxWrites
      BY MirrorAssumption
    <3>3. IsSeq(writeQueue) /\ Len(writeQueue) = 0 /\ DOMAIN writeQueue = {}
      BY <1>2, <3>1
    <3> HIDE DEF Init
    <3>4. \A i \in DOMAIN writeQueue : writeQueue[i].n = issued - Len(writeQueue) + i
      BY <3>3
    <3>7. failed \in BOOLEAN /\ ~failed
      BY <3>1
    <3>8. issued \in Nat /\ applied \in Nat /\ issued <= MaxWrites /\ applied <= issued /\ Len(writeQueue) <= issued
      BY <3>1, <3>2, <3>3
    <3>5. QueueTyped
      BY <3>3, <3>4, <3>7, <3>8 DEF QueueTyped
    <3>6. WritesTyped
      BY <1>3 DEF WritesTyped
    <3> QED  BY <3>5, <3>6
  <2>2. AuditsFit(Waiting, db["audit"], cache["audit"], audits)
    BY <1>1, <1>3, <1>4 DEF AuditsFit
  <2>3. SignersKnown /\ Registers(Waiting, db)
    BY <1>1, <1>2, <1>3, <1>4 DEF SignersKnown, Registers
  <2>4. StatusesFollow
    BY <1>1, <1>3, <1>4 DEF StatusesFollow, Packed
  <2>5. StatusesAgree(Waiting, db, plugins) /\ DeploymentsAgree(Waiting, db, history)
    BY <1>1, <1>3, <1>4 DEF StatusesAgree, DeploymentsAgree
  <2> QED  BY <2>1, <2>2, <2>3, <2>4, <2>5 DEF QueueInv
<1>8. CacheInv
  <2>1. \A t \in Tables : Settles(db, updates, cache, t)
    BY <1>1, <1>2 DEF Settles, Current
  <2>2. "config" \in Tables
    BY TablesAre
  <2>3. ConfigSettles(db, updates, cache, life)
    BY <1>1, <1>2, <2>2 DEF ConfigSettles
  <2> QED  BY <2>1, <2>3 DEF CacheInv
<1>9. DisabledAreOut
  <2>1. "bundles" \in Tables
    BY TablesAre
  <2> QED
    BY <1>1, <1>4, <2>1 DEF DisabledAreOut, RevokedSignersStayOut, RevokedBundlesDoNotRun, DisabledHaveNoSurfaces
<1> QED  BY <1>5, <1>6, <1>7, <1>8, <1>9 DEF MirrorInv

-----------------------------------------------------------------------------
(***************************************************************************)
(* A write is accepted.                                                    *)
(***************************************************************************)
Shut(d) ==
    /\ \A p \in DOMAIN d["packages"] : d["packages"][p] \in DOMAIN d["revocations"] => ~IsActive(d, p)
    /\ \A t \in Surfaces : \A p \in DOMAIN d[t] :
          d[t][p] = "enabled" => p \in DOMAIN d["plugins"] /\ d["plugins"][p] # "disabled"
HasBundle(d, p) == p \in DOMAIN d["bundles"] /\ d["bundles"][p] = "registered"
BundlesFit(d) ==
    /\ \A p : HasBundle(d, p) => SignerOf[p] \notin DOMAIN d["revocations"]
    /\ \A k \in DOMAIN d["deployments"] : d["deployments"][k] \in Live => HasBundle(d, k[1])
    /\ \A p \in DOMAIN d["capabilities"] : d["capabilities"][p] = "enabled" => HasBundle(d, p)
Out(d) == Shut(d) /\ BundlesFit(d)

LEMMA ShutIs == RevokedSignersStayOut /\ DisabledHaveNoSurfaces <=> Shut(db)
BY DEF RevokedSignersStayOut, DisabledHaveNoSurfaces, Shut, Surfaces, Exists, IsActive

LEMMA BundlesFitIs == RevokedBundlesDoNotRun <=> BundlesFit(db)
BY DEF RevokedBundlesDoNotRun, BundlesFit, HasBundle

LEMMA OutIs == DisabledAreOut <=> Out(db)
BY ShutIs, BundlesFitIs DEF DisabledAreOut, Out

LEMMA OutThen == DisabledAreOut' <=> Out(db')
<1>1. (RevokedSignersStayOut /\ DisabledHaveNoSurfaces)' <=> Shut(db')
  BY DEF RevokedSignersStayOut, DisabledHaveNoSurfaces, Shut, Surfaces, Exists, IsActive
<1>2. RevokedBundlesDoNotRun' <=> BundlesFit(db')
  BY DEF RevokedBundlesDoNotRun, BundlesFit, HasBundle
<1> QED  BY <1>1, <1>2 DEF DisabledAreOut, Out

LEMMA StaysOut == DisabledAreOut /\ db' = db => DisabledAreOut'
BY OutIs, OutThen

Packaged(d) == \A p \in DOMAIN d["packages"] : p \in DOMAIN d["plugins"] /\ d["packages"][p] = SignerOf[p]

LEMMA SentKeepsPackaged ==
    ASSUME NEW d, IsTables(d), NEW c, c.op \in Ops, Accepts(d, c), NEW e, e = After(d, c), Packaged(d)
    PROVE  IsTables(e) /\ Packaged(e) /\ Grows(d, e)
<1>1. Effect(d, c, e)
  BY AfterIs
<1>2. IsTables(e)
  BY <1>1 DEF Effect
<1>3. Packaged(e)
  <2> SUFFICES ASSUME NEW p \in DOMAIN e["packages"] PROVE p \in DOMAIN e["plugins"] /\ e["packages"][p] = SignerOf[p]
    BY DEF Packaged
  <2>1. \/ Packs(c, p) /\ e["packages"][p] = SignerOf[p]
        \/ ~Packs(c, p) /\ ~Removes(c, p) /\ p \in DOMAIN d["packages"] /\ e["packages"][p] = d["packages"][p]
    BY PackagesAfter
  <2>2. p \in DOMAIN d["plugins"] /\ ~Removes(c, p) => p \in DOMAIN e["plugins"]
    BY PluginsAfter
  <2>3. CASE Packs(c, p)
    <3>1. p \in DOMAIN d["plugins"] /\ ~Removes(c, p)
      BY <2>3 DEF Packs, Removes, Accepts, Exists
    <3> QED  BY <2>1, <2>2, <2>3, <3>1
  <2>4. CASE ~Packs(c, p)
    BY <2>1, <2>2, <2>4 DEF Packaged
  <2> QED  BY <2>3, <2>4
<1>4. Grows(d, e)
  <2>1. e["config"] = d["config"] \/ (e["config"] = Put(d["config"], ConfigId, c.version) /\ ConfigId \notin DOMAIN d["config"])
    BY <1>1 DEF Effect, Accepts
  <2>2. e["audit"] = d["audit"] \/ (e["audit"] = Put(d["audit"], c.id, Here) /\ c.id \notin DOMAIN d["audit"])
    BY <1>1 DEF Effect, Accepts
  <2>3. DOMAIN d["revocations"] \subseteq DOMAIN e["revocations"]
    BY <1>1 DEF Effect, Put
  <2>4. DOMAIN d["config"] \subseteq DOMAIN e["config"] /\ \A key \in DOMAIN d["config"] : e["config"][key] = d["config"][key]
    BY <2>1 DEF Put
  <2>5. DOMAIN d["audit"] \subseteq DOMAIN e["audit"] /\ \A key \in DOMAIN d["audit"] : e["audit"][key] = d["audit"][key]
    BY <2>2 DEF Put
  <2>6. \A key \in DOMAIN e["config"] : key \in DOMAIN d["config"] \/ key = <<Here, life>>
    BY <2>1 DEF Put, ConfigId
  <2> QED  BY <2>3, <2>4, <2>5, <2>6, TablesAre DEF Grows
<1> QED  BY <1>2, <1>3, <1>4

(* What is off stays off: a status is refused where its signer is revoked,  *)
(* and no register_plugin that waits would bring a plugin back.             *)
LEMMA SentKeepsShut ==
    ASSUME NEW W, NEW h \in W, \A w \in W : w.n \in Nat, \A w \in W : h.n <= w.n,
           NEW d, IsTables(d), NEW c, c = h.call, c.op \in Ops, Accepts(d, c), NEW e, e = After(d, c),
           Packaged(d), Registers(W, d), Shut(d)
    PROVE  Shut(e)
<1>a. \A w \in W : ~(w.n < h.n)
  OBVIOUS
<1>b. ASSUME NEW p, c.op = "register_plugin", c.plugin = p
      PROVE  /\ c.status = "disabled" /\ p \in DOMAIN d["plugins"] => d["plugins"][p] = "disabled"
             /\ c.status = "active" =>
                  ~(p \in DOMAIN d["packages"] /\ SignerOf[p] \in DOMAIN d["revocations"])
  <2>1. /\ c.status = "disabled" => Off(W, d, h.n, p)
        /\ c.status = "active" => ~(Packed(W, d, h.n, p) /\ Revoked(W, d, h.n, SignerOf[p]))
    BY <1>b DEF Registers
  <2>2. Off(W, d, h.n, p) => (p \in DOMAIN d["plugins"] => d["plugins"][p] = "disabled")
    BY <1>a DEF Off
  <2>3. p \in DOMAIN d["packages"] => Packed(W, d, h.n, p)
    BY <1>a DEF Packed
  <2>4. SignerOf[p] \in DOMAIN d["revocations"] => Revoked(W, d, h.n, SignerOf[p])
    BY DEF Revoked
  <2> QED  BY <2>1, <2>2, <2>3, <2>4
<1>c. ASSUME NEW p
      PROVE  /\ p \in DOMAIN e["plugins"] =>
                   \/ Sets(c, p) /\ e["plugins"][p] = c.status
                   \/ /\ ~Sets(c, p) /\ ~Removes(c, p) /\ p \in DOMAIN d["plugins"]
                      /\ \/ e["plugins"][p] = d["plugins"][p]
                         \/ /\ e["plugins"][p] = "disabled" /\ c.op = "revoke_package_signer"
                            /\ p \in PackagedBy(d, c.signer)
             /\ p \in DOMAIN d["plugins"] /\ ~Removes(c, p) => p \in DOMAIN e["plugins"]
             /\ c.op = "revoke_package_signer" /\ p \in PackagedBy(d, c.signer) => e["plugins"][p] = "disabled"
  BY PluginsAfter
<1>1. ASSUME NEW p \in DOMAIN e["packages"], e["packages"][p] \in DOMAIN e["revocations"], IsActive(e, p) PROVE FALSE
  <2> DEFINE s == SignerOf[p]
  <2>0. p \in DOMAIN e["plugins"] /\ e["plugins"][p] = "active"
    BY <1>1 DEF IsActive, Exists
  <2>1. \/ Packs(c, p) /\ e["packages"][p] = s
        \/ ~Packs(c, p) /\ ~Removes(c, p) /\ p \in DOMAIN d["packages"] /\ e["packages"][p] = d["packages"][p]
    BY PackagesAfter
  <2>2. s \in DOMAIN e["revocations"]
    BY <1>1, <2>1 DEF Packaged
  <2>3. s \in DOMAIN d["revocations"] \/ Revokes(c, s)
    BY <2>2, RevocationsAfter
  <2>4. CASE Packs(c, p)
    <3>1. s \notin DOMAIN d["revocations"] /\ ~Revokes(c, s)
      BY <2>4 DEF Packs, Revokes, Accepts
    <3> QED  BY <2>3, <3>1
  <2>5. CASE ~Packs(c, p)
    <3>1. p \in DOMAIN d["packages"] /\ p \in DOMAIN d["plugins"] /\ d["packages"][p] = s
      BY <2>1, <2>5 DEF Packaged
    <3>2. CASE Sets(c, p)
      <4>1. e["plugins"][p] = c.status /\ c.status = "active" /\ c.plugin = p
        BY <1>c, <2>0, <3>2 DEF Sets
      <4>2. ~Revokes(c, s)
        BY <3>2 DEF Sets, StatusOps, Revokes
      <4>3. c.op # "register_plugin"
        BY <1>b, <2>3, <3>1, <4>1, <4>2
      <4>4. c.op = "set_plugin_status"
        BY <3>2, <4>3 DEF Sets, StatusOps
      <4>5. ~SignerRevoked(d, p)
        BY <4>1, <4>4 DEF Accepts, StatusAccepted
      <4> QED  BY <2>3, <3>1, <4>2, <4>5 DEF SignerRevoked
    <3>3. CASE ~Sets(c, p)
      <4>1. e["plugins"][p] = d["plugins"][p] /\ ~(c.op = "revoke_package_signer" /\ p \in PackagedBy(d, c.signer))
        BY <1>c, <2>0, <3>3
      <4>2. ~Revokes(c, s)
        BY <3>1, <4>1 DEF Revokes, PackagedBy
      <4> QED  BY <2>0, <2>3, <3>1, <4>1, <4>2 DEF Shut, IsActive, Exists
    <3> QED  BY <3>2, <3>3
  <2> QED  BY <2>4, <2>5
<1>2. ASSUME NEW t \in Surfaces, NEW p \in DOMAIN e[t], e[t][p] = "enabled"
      PROVE  p \in DOMAIN e["plugins"] /\ e["plugins"][p] # "disabled"
  <2>1. \/ /\ p \in DOMAIN d[t] /\ d[t][p] = "enabled"
           /\ ~(c.op = "set_plugin_status" /\ c.plugin = p /\ c.status # "active")
           /\ ~(c.op = "uninstall_plugin" /\ c.plugin = p)
           /\ ~(c.op = "revoke_package_signer" /\ p \in PackagedBy(d, c.signer))
        \/ c.op \in {"upsert_plugin_capability", "register_plugin_hook"} /\ IsActive(d, p)
    BY <1>2, SurfacesAfter
  <2>2. CASE c.op \in {"upsert_plugin_capability", "register_plugin_hook"} /\ IsActive(d, p)
    <3>1. ~Sets(c, p) /\ ~Removes(c, p) /\ c.op # "revoke_package_signer"
      BY <2>2 DEF Sets, Removes, StatusOps
    <3>2. p \in DOMAIN d["plugins"] /\ d["plugins"][p] = "active"
      BY <2>2 DEF IsActive, Exists
    <3> QED  BY <1>c, <3>1, <3>2
  <2>3. CASE /\ p \in DOMAIN d[t] /\ d[t][p] = "enabled"
             /\ ~(c.op = "set_plugin_status" /\ c.plugin = p /\ c.status # "active")
             /\ ~(c.op = "uninstall_plugin" /\ c.plugin = p)
             /\ ~(c.op = "revoke_package_signer" /\ p \in PackagedBy(d, c.signer))
    <3>1. p \in DOMAIN d["plugins"] /\ d["plugins"][p] # "disabled" /\ ~Removes(c, p)
      BY <2>3 DEF Shut, Removes
    <3>2. p \in DOMAIN e["plugins"]
      BY <1>c, <3>1
    <3>3. CASE Sets(c, p)
      <4>1. e["plugins"][p] = c.status /\ c.plugin = p
        BY <1>c, <3>2, <3>3 DEF Sets
      <4>2. CASE c.op = "register_plugin"
        BY <1>b, <3>1, <3>2, <4>1, <4>2
      <4>3. CASE c.op = "set_plugin_status"
        BY <2>3, <3>2, <4>1, <4>3
      <4> QED  BY <3>3, <4>2, <4>3 DEF Sets, StatusOps
    <3>4. CASE ~Sets(c, p)
      BY <1>c, <2>3, <3>1, <3>2, <3>4
    <3> QED  BY <3>3, <3>4
  <2> QED  BY <2>1, <2>2, <2>3
<1> QED  BY <1>1, <1>2 DEF Shut

(* A bundle is registered while its signer is not revoked, and what runs of *)
(* it goes with it.                                                         *)
LEMMA BundlesShrink ==
    ASSUME NEW d, NEW e, BundlesFit(d), e["bundles"] = d["bundles"], e["revocations"] = d["revocations"],
           \A k \in DOMAIN e["deployments"] : e["deployments"][k] \in Live =>
              k \in DOMAIN d["deployments"] /\ d["deployments"][k] \in Live,
           \A p \in DOMAIN e["capabilities"] : e["capabilities"][p] = "enabled" =>
              p \in DOMAIN d["capabilities"] /\ d["capabilities"][p] = "enabled"
    PROVE  BundlesFit(e)
<1>1. \A p : HasBundle(e, p) <=> HasBundle(d, p)
  BY DEF HasBundle
<1> QED  BY <1>1 DEF BundlesFit

LEMMA BundlesSame ==
    ASSUME NEW d, NEW e, BundlesFit(d),
           \A t \in {"bundles", "revocations", "deployments", "capabilities"} : e[t] = d[t]
    PROVE  BundlesFit(e)
<1>1. /\ e["bundles"] = d["bundles"] /\ e["revocations"] = d["revocations"]
      /\ e["deployments"] = d["deployments"] /\ e["capabilities"] = d["capabilities"]
  OBVIOUS
<1> QED  BY <1>1, BundlesShrink

LEMMA SentKeepsBundles ==
    ASSUME NEW d, IsTables(d), NEW c, c.op \in Ops, Accepts(d, c), NEW e, e = After(d, c), BundlesFit(d)
    PROVE  BundlesFit(e)
<1>1. CASE c.op = "set_plugin_status"
  <2>1. /\ SameBut(d, e, {"plugins"} \cup Surfaces)
        /\ \A t \in Surfaces : e[t] = IF c.status = "active" THEN d[t] ELSE Painted(d[t], {c.plugin}, "disabled")
    BY <1>1, StatusAfter
  <2>2. /\ e["bundles"] = d["bundles"] /\ e["revocations"] = d["revocations"]
        /\ e["deployments"] = d["deployments"]
    BY <2>1, TablesAre DEF SameBut, Surfaces
  <2>3. e["capabilities"] = d["capabilities"] \/ e["capabilities"] = Painted(d["capabilities"], {c.plugin}, "disabled")
    BY <2>1 DEF Surfaces
  <2>4. \A p \in DOMAIN e["capabilities"] : e["capabilities"][p] = "enabled" =>
            p \in DOMAIN d["capabilities"] /\ d["capabilities"][p] = "enabled"
    BY <2>3 DEF Painted
  <2> QED  BY <2>2, <2>4, BundlesShrink
<1>2. CASE c.op = "uninstall_plugin"
  <2>0. SameBut(d, e, PluginTables \cup {"deployments"})
    BY <1>2, UninstallAfter
  <2>a. \A t \in PluginTables : e[t] = Without(d[t], {c.plugin})
    BY <1>2, UninstallAfter
  <2>b. e["deployments"] = Without(d["deployments"], DeploymentsOf(d, c.plugin))
    BY <1>2, UninstallAfter
  <2>1. /\ SameBut(d, e, PluginTables \cup {"deployments"})
        /\ \A t \in PluginTables : e[t] = Without(d[t], {c.plugin})
        /\ e["deployments"] = Without(d["deployments"], DeploymentsOf(d, c.plugin))
    BY <2>0, <2>a, <2>b
  <2>2. /\ e["revocations"] = d["revocations"]
        /\ e["bundles"] = Without(d["bundles"], {c.plugin})
        /\ e["capabilities"] = Without(d["capabilities"], {c.plugin})
    BY <2>1, TablesAre DEF SameBut
  <2>3. \A p : HasBundle(e, p) <=> HasBundle(d, p) /\ p # c.plugin
    BY <2>2 DEF HasBundle, Without
  <2>4. \A k \in DOMAIN e["deployments"] :
            k \in DOMAIN d["deployments"] /\ e["deployments"][k] = d["deployments"][k] /\ k[1] # c.plugin
    BY <2>1 DEF Without, DeploymentsOf
  <2>5. \A p \in DOMAIN e["capabilities"] :
            p \in DOMAIN d["capabilities"] /\ e["capabilities"][p] = d["capabilities"][p] /\ p # c.plugin
    BY <2>2 DEF Without
  <2> QED  BY <2>2, <2>3, <2>4, <2>5 DEF BundlesFit
<1>3. CASE c.op = "revoke_plugin_bundle"
  <2>1. /\ SameBut(d, e, {"bundles", "capabilities", "deployments"})
        /\ e["bundles"] = Painted(d["bundles"], {c.plugin}, "revoked")
        /\ e["capabilities"] = Painted(d["capabilities"], {c.plugin}, "disabled")
        /\ Retires(d["deployments"], e["deployments"])
        /\ \A k \in DOMAIN e["deployments"] : k[1] = c.plugin => e["deployments"][k] \notin Live
    BY <1>3, RevokeBundleAfter
  <2>2. e["revocations"] = d["revocations"]
    BY <2>1, TablesAre DEF SameBut
  <2>3. \A p : HasBundle(e, p) <=> HasBundle(d, p) /\ p # c.plugin
    BY <2>1 DEF HasBundle, Painted
  <2>4. \A k \in DOMAIN e["deployments"] : e["deployments"][k] \in Live =>
            k \in DOMAIN d["deployments"] /\ d["deployments"][k] \in Live /\ k[1] # c.plugin
    BY <2>1 DEF Retires
  <2>5. \A p \in DOMAIN e["capabilities"] : e["capabilities"][p] = "enabled" =>
            p \in DOMAIN d["capabilities"] /\ d["capabilities"][p] = "enabled" /\ p # c.plugin
    BY <2>1 DEF Painted
  <2> QED  BY <2>2, <2>3, <2>4, <2>5 DEF BundlesFit
<1>4. CASE c.op = "revoke_package_signer"
  <2>1. BundlesGone(d, e, BundledBy(d, c.signer)) /\ e["revocations"] = Put(d["revocations"], c.signer, "revoked")
    BY <1>4, RevokeSignerAfter
  <2>2. /\ e["bundles"] = Painted(d["bundles"], BundledBy(d, c.signer), "revoked")
        /\ \A p \in DOMAIN e["capabilities"] : e["capabilities"][p] = "enabled" =>
              p \in DOMAIN d["capabilities"] /\ d["capabilities"][p] = "enabled" /\ p \notin BundledBy(d, c.signer)
        /\ \A k \in DOMAIN e["deployments"] : e["deployments"][k] \in Live =>
              k \in DOMAIN d["deployments"] /\ d["deployments"][k] \in Live /\ k[1] \notin BundledBy(d, c.signer)
    BY <2>1 DEF BundlesGone
  <2>3. \A p : HasBundle(e, p) <=> HasBundle(d, p) /\ p \notin BundledBy(d, c.signer)
    BY <2>2 DEF HasBundle, Painted
  <2>4. \A p : HasBundle(e, p) => SignerOf[p] # c.signer
    BY <2>3 DEF HasBundle, BundledBy
  <2>5. \A s \in DOMAIN e["revocations"] : s \in DOMAIN d["revocations"] \/ s = c.signer
    BY <2>1 DEF Put
  <2>6. \A p : HasBundle(e, p) => SignerOf[p] \notin DOMAIN e["revocations"]
    BY <2>3, <2>4, <2>5 DEF BundlesFit
  <2>7. \A k \in DOMAIN e["deployments"] : e["deployments"][k] \in Live => HasBundle(e, k[1])
    BY <2>2, <2>3 DEF BundlesFit
  <2>8. \A p \in DOMAIN e["capabilities"] : e["capabilities"][p] = "enabled" => HasBundle(e, p)
    BY <2>2, <2>3 DEF BundlesFit
  <2> QED  BY <2>6, <2>7, <2>8 DEF BundlesFit
<1>5. CASE c.op = "upsert_plugin_deployment"
  <2>1. /\ SameBut(d, e, {"deployments"}) /\ e["deployments"][c.key] = c.status
        /\ DOMAIN e["deployments"] \subseteq DOMAIN d["deployments"] \cup {c.key}
        /\ \A k \in DOMAIN e["deployments"] \ {c.key} :
              e["deployments"][k] = d["deployments"][k] \/ e["deployments"][k] \notin Live
    BY <1>5, DeploymentAfter
  <2>2. /\ e["bundles"] = d["bundles"] /\ e["revocations"] = d["revocations"]
        /\ e["capabilities"] = d["capabilities"]
    BY <2>1, TablesAre DEF SameBut
  <2>3. c.status \in Live => HasBundle(d, c.key[1])
    BY <1>5 DEF Accepts, HasBundle
  <2>4. \A p : HasBundle(e, p) <=> HasBundle(d, p)
    BY <2>2 DEF HasBundle
  <2>5. ASSUME NEW k \in DOMAIN e["deployments"], e["deployments"][k] \in Live PROVE HasBundle(d, k[1])
    <3>1. CASE k = c.key
      BY <2>1, <2>3, <2>5, <3>1
    <3>2. CASE k # c.key
      BY <2>1, <2>5, <3>2 DEF BundlesFit
    <3> QED  BY <3>1, <3>2
  <2> QED  BY <2>2, <2>4, <2>5 DEF BundlesFit
<1>6. CASE c.op = "register_plugin_bundle"
  <2>1. SameBut(d, e, {"bundles"}) /\ e["bundles"] = Put(d["bundles"], c.plugin, "registered")
    BY <1>6, SimpleAfter
  <2>2. /\ e["deployments"] = d["deployments"] /\ e["revocations"] = d["revocations"]
        /\ e["capabilities"] = d["capabilities"]
    BY <2>1, TablesAre DEF SameBut
  <2>3. SignerOf[c.plugin] \notin DOMAIN d["revocations"]
    BY <1>6 DEF Accepts
  <2>4. \A p : HasBundle(e, p) <=> HasBundle(d, p) \/ p = c.plugin
    BY <2>1 DEF HasBundle, Put
  <2> QED  BY <2>2, <2>3, <2>4 DEF BundlesFit
<1>7. CASE c.op = "upsert_plugin_capability"
  <2>1. SameBut(d, e, {"capabilities"}) /\ e["capabilities"] = Put(d["capabilities"], c.plugin, "enabled")
    BY <1>7, SimpleAfter
  <2>2. /\ e["deployments"] = d["deployments"] /\ e["revocations"] = d["revocations"]
        /\ e["bundles"] = d["bundles"]
    BY <2>1, TablesAre DEF SameBut
  <2>3. HasBundle(d, c.plugin)
    BY <1>7 DEF Accepts, HasBundle
  <2>4. \A p : HasBundle(e, p) <=> HasBundle(d, p)
    BY <2>2 DEF HasBundle
  <2>5. \A p \in DOMAIN e["capabilities"] :
            p = c.plugin \/ (p \in DOMAIN d["capabilities"] /\ e["capabilities"][p] = d["capabilities"][p])
    BY <2>1 DEF Put
  <2> QED  BY <2>2, <2>3, <2>4, <2>5 DEF BundlesFit
<1>8. CASE c.op \in {"register_plugin", "register_plugin_package", "register_plugin_hook",
                     "set_plugin_hooks_enabled", "set_runtime_config", "write_audit_log"}
  <2>1. \E t \in {"plugins", "packages", "hooks", "config", "audit"} : SameBut(d, e, {t})
    <3>1. CASE c.op = "register_plugin"
      BY <3>1, SimpleAfter
    <3>2. CASE c.op = "register_plugin_package"
      BY <3>2, SimpleAfter
    <3>3. CASE c.op \in {"register_plugin_hook", "set_plugin_hooks_enabled"}
      BY <3>3, SimpleAfter
    <3>4. CASE c.op = "set_runtime_config"
      BY <3>4, SimpleAfter
    <3>5. CASE c.op = "write_audit_log"
      BY <3>5, SimpleAfter
    <3> QED  BY <1>8, <3>1, <3>2, <3>3, <3>4, <3>5
  <2>2. \A t \in {"bundles", "revocations", "deployments", "capabilities"} : e[t] = d[t]
    BY <2>1, TablesAre DEF SameBut
  <2> QED  BY <2>2, BundlesSame
<1> QED  BY <1>1, <1>2, <1>3, <1>4, <1>5, <1>6, <1>7, <1>8 DEF Ops, StatusOps

(* The last write about a plugin decides; a signer's revocation disables    *)
(* what has a package of his.                                               *)
LEMMA SentKeepsStatuses ==
    ASSUME NEW W, NEW h \in W, \A w \in W : w.n \in Nat, \A w \in W \ {h} : w.n > h.n,
           NEW d, IsTables(d), NEW c, c = h.call, c.op \in Ops, NEW e, e = After(d, c),
           Packaged(d), NEW f, StatusesAgree(W, d, f)
    PROVE  StatusesAgree(W \ {h}, e, f)
<1> DEFINE V == W \ {h}
<1> SUFFICES ASSUME NEW p
             PROVE  /\ \A w \in V : Sets(w.call, p) /\ ~Later(V, w, p) => p \in DOMAIN f /\ f[p] = w.call.status
                    /\ (\A w \in V : ~About(w.call, p)) /\ p \in DOMAIN e["plugins"]
                          => p \in DOMAIN f /\ f[p] = e["plugins"][p]
                    /\ \A w \in V : Revokes(w.call, SignerOf[p]) /\ Packed(V, e, w.n, p) =>
                          Later(V, w, p) \/ (p \in DOMAIN f /\ f[p] = "disabled")
  BY DEF StatusesAgree
<1>0. /\ \A w \in W : Sets(w.call, p) /\ ~Later(W, w, p) => p \in DOMAIN f /\ f[p] = w.call.status
      /\ (\A w \in W : ~About(w.call, p)) /\ p \in DOMAIN d["plugins"] => p \in DOMAIN f /\ f[p] = d["plugins"][p]
      /\ \A w \in W : Revokes(w.call, SignerOf[p]) /\ Packed(W, d, w.n, p) =>
            Later(W, w, p) \/ (p \in DOMAIN f /\ f[p] = "disabled")
  BY DEF StatusesAgree
<1>1. \A w \in V : w \in W /\ w.n > h.n /\ w.n \in Nat /\ (Later(W, w, p) => Later(V, w, p))
  BY DEF Later
<1>2. ASSUME NEW w \in V, Packed(V, e, w.n, p) PROVE Packed(W, d, w.n, p)
  BY <1>1, <1>2, SendingKeeps
<1>3. ASSUME \A w \in V : ~About(w.call, p), p \in DOMAIN e["plugins"] PROVE p \in DOMAIN f /\ f[p] = e["plugins"][p]
  <2>1. \/ Sets(c, p) /\ e["plugins"][p] = c.status
        \/ /\ ~Sets(c, p) /\ ~Removes(c, p) /\ p \in DOMAIN d["plugins"]
           /\ \/ e["plugins"][p] = d["plugins"][p]
              \/ /\ e["plugins"][p] = "disabled" /\ c.op = "revoke_package_signer"
                 /\ p \in PackagedBy(d, c.signer)
    BY <1>3, PluginsAfter
  <2>2. ~Later(W, h, p)
    BY <1>3 DEF Later
  <2>3. CASE Sets(c, p)
    BY <1>0, <2>1, <2>2, <2>3
  <2>4. CASE ~Sets(c, p) /\ ~Removes(c, p)
    <3>1. \A w \in W : ~About(w.call, p)
      BY <1>3, <2>4 DEF About
    <3>2. p \in DOMAIN f /\ f[p] = d["plugins"][p]
      BY <1>0, <2>1, <2>4, <3>1
    <3>3. CASE c.op = "revoke_package_signer" /\ p \in PackagedBy(d, c.signer) /\ e["plugins"][p] = "disabled"
      <4>1. p \in DOMAIN d["packages"] /\ Revokes(c, SignerOf[p])
        BY <3>3 DEF PackagedBy, Packaged, Revokes
      <4>2. \A j \in W : ~(j.n < h.n)
        BY <1>1
      <4>3. Packed(W, d, h.n, p)
        BY <4>1, <4>2 DEF Packed
      <4> QED  BY <1>0, <2>2, <3>3, <4>1, <4>3
    <3> QED  BY <2>1, <2>4, <3>2, <3>3
  <2> QED  BY <2>1, <2>3, <2>4
<1> QED  BY <1>0, <1>1, <1>2, <1>3

LEMMA SentKeepsDeployments ==
    ASSUME NEW W, NEW h \in W, \A w \in W : w.n \in Nat, \A w \in W \ {h} : w.n > h.n,
           NEW d, IsTables(d), NEW c, c = h.call, c.op \in Ops, NEW e, e = After(d, c),
           NEW records, DeploymentsAgree(W, d, records)
    PROVE  DeploymentsAgree(W \ {h}, e, records)
<1> DEFINE V == W \ {h}
<1>1. ASSUME NEW key \in DOMAIN e["deployments"]
      PROVE  \/ Deploys(c) /\ c.key = key /\ e["deployments"][key] = c.status
             \/ /\ ~(Deploys(c) /\ c.key = key) /\ key \in DOMAIN d["deployments"]
                /\ e["deployments"][key] = d["deployments"][key] \/ e["deployments"][key] \notin Live
  <2>1. CASE Deploys(c)
    <3>1. c.op = "upsert_plugin_deployment"
      BY <2>1 DEF Deploys
    <3>2. /\ e["deployments"][c.key] = c.status
          /\ DOMAIN e["deployments"] \subseteq DOMAIN d["deployments"] \cup {c.key}
          /\ \A k \in DOMAIN e["deployments"] \ {c.key} :
                e["deployments"][k] = d["deployments"][k] \/ e["deployments"][k] \notin Live
      BY <3>1, DeploymentAfter
    <3> QED  BY <2>1, <3>2
  <2>2. CASE ~Deploys(c)
    <3>1. Effect(d, c, e)
      BY AfterIs
    <3>2. Retires(d["deployments"], e["deployments"])
      BY <2>2, <3>1 DEF Effect, Deploys
    <3> QED  BY <2>2, <3>2 DEF Retires
  <2> QED  BY <2>1, <2>2
<1>2. Deploys(c) => OwnKey(records, c.key)
  BY DEF DeploymentsAgree
<1>3. \A key \in DOMAIN e["deployments"] : OwnKey(records, key)
  BY <1>1, <1>2 DEF DeploymentsAgree
<1>4. ASSUME NEW w \in V, Deploys(w.call)
      PROVE  /\ OwnKey(records, w.call.key)
             /\ \/ \E j \in V : j.n > w.n /\ Deploys(j.call) /\ j.call.key = w.call.key
                \/ records[w.call.key[1]][w.call.key[3]] = w.call.status
  <2>1. w \in W /\ w.n > h.n /\ w.n \in Nat /\ h.n \in Nat
    OBVIOUS
  <2>2. /\ OwnKey(records, w.call.key)
        /\ \/ \E j \in W : j.n > w.n /\ Deploys(j.call) /\ j.call.key = w.call.key
           \/ records[w.call.key[1]][w.call.key[3]] = w.call.status
    BY <1>4, <2>1 DEF DeploymentsAgree
  <2>3. \A j \in W : j.n > w.n => j \in V
    BY <2>1
  <2> QED  BY <2>2, <2>3
<1>5. ASSUME NEW key \in DOMAIN e["deployments"], e["deployments"][key] \in Live
      PROVE  \/ \E w \in V : Deploys(w.call) /\ w.call.key = key
             \/ records[key[1]][key[3]] = e["deployments"][key]
  <2>1. CASE Deploys(c) /\ c.key = key /\ e["deployments"][key] = c.status
    <3>1. \/ \E j \in W : j.n > h.n /\ Deploys(j.call) /\ j.call.key = key
          \/ records[key[1]][key[3]] = c.status
      BY <2>1 DEF DeploymentsAgree
    <3>2. \A j \in W : j.n > h.n => j \in V
      OBVIOUS
    <3> QED  BY <2>1, <3>1, <3>2
  <2>2. CASE /\ ~(Deploys(c) /\ c.key = key) /\ key \in DOMAIN d["deployments"]
             /\ e["deployments"][key] = d["deployments"][key]
    <3>1. \/ \E w \in W : Deploys(w.call) /\ w.call.key = key
          \/ records[key[1]][key[3]] = d["deployments"][key]
      BY <1>5, <2>2 DEF DeploymentsAgree
    <3> QED  BY <2>2, <3>1
  <2> QED  BY <1>1, <1>5, <2>1, <2>2
<1> QED  BY <1>3, <1>4, <1>5 DEF DeploymentsAgree

LEMMA SentKeepsAudits ==
    ASSUME NEW W, NEW h \in W, NEW d, IsTables(d), NEW c, c = h.call, c.op \in Ops, NEW e, e = After(d, c),
           NEW known, NEW last \in Nat, AuditsFit(W, d["audit"], known, last)
    PROVE  AuditsFit(W \ {h}, e["audit"], known, last)
<1>1. Effect(d, c, e)
  BY AfterIs
<1>2. e["audit"] = IF Audits(c) THEN Put(d["audit"], c.id, Here) ELSE d["audit"]
  BY <1>1 DEF Effect, Audits
<1>3. \A id \in DOMAIN e["audit"] :
          (Audits(c) /\ id = c.id) \/ (id \in DOMAIN d["audit"] /\ e["audit"][id] = d["audit"][id])
  BY <1>2 DEF Put
<1>4. /\ \A w \in W : Audits(w.call) =>
            /\ w.call.id \in DOMAIN d["audit"] => d["audit"][w.call.id] # Here
            /\ w.call.id[3] \in Nat /\ w.call.id[3] <= last
      /\ \A v, w \in W : Audits(v.call) /\ Audits(w.call) /\ v.call.id = w.call.id => v = w
      /\ \A id \in DOMAIN d["audit"] : d["audit"][id] = Here => id \in DOMAIN known \/ (id[3] \in Nat /\ id[3] <= last)
  BY DEF AuditsFit
<1>5. \A w \in W \ {h} : Audits(w.call) => ~(Audits(c) /\ w.call.id = c.id)
  BY <1>4
<1>6. \A w \in W \ {h} : Audits(w.call) =>
          /\ w.call.id \in DOMAIN e["audit"] => e["audit"][w.call.id] # Here
          /\ w.call.id[3] \in Nat /\ w.call.id[3] <= last
  BY <1>3, <1>4, <1>5
<1>7. \A id \in DOMAIN e["audit"] : e["audit"][id] = Here => id \in DOMAIN known \/ (id[3] \in Nat /\ id[3] <= last)
  BY <1>3, <1>4
<1> QED  BY <1>4, <1>6, <1>7 DEF AuditsFit

LEMMA SentKeepsRegisters ==
    ASSUME NEW W, NEW h \in W, \A w \in W : w.n \in Nat, \A w \in W \ {h} : w.n > h.n,
           NEW d, IsTables(d), h.call.op \in Ops, NEW e, e = After(d, h.call), Registers(W, d)
    PROVE  Registers(W \ {h}, e)
<1> SUFFICES ASSUME NEW w \in W \ {h}, w.call.op = "register_plugin"
             PROVE  /\ w.call.status = "disabled" => Off(W \ {h}, e, w.n, w.call.plugin)
                    /\ w.call.status = "active" =>
                          ~(Packed(W \ {h}, e, w.n, w.call.plugin) /\ Revoked(W \ {h}, e, w.n, SignerOf[w.call.plugin]))
  BY DEF Registers
<1>1. /\ w.call.status = "disabled" => Off(W, d, w.n, w.call.plugin)
      /\ w.call.status = "active" =>
            ~(Packed(W, d, w.n, w.call.plugin) /\ Revoked(W, d, w.n, SignerOf[w.call.plugin]))
  BY DEF Registers
<1>2. w.n \in Nat /\ w.n > h.n
  OBVIOUS
<1>3. \A p : /\ Off(W, d, w.n, p) => Off(W \ {h}, e, w.n, p)
             /\ Packed(W \ {h}, e, w.n, p) => Packed(W, d, w.n, p)
             /\ \A s : Revoked(W \ {h}, e, w.n, s) => Revoked(W, d, w.n, s)
  BY <1>2, SendingKeeps
<1> QED  BY <1>1, <1>3

(* What the commit changes of the trail and the cache's promise.            *)
LEMMA Committed ==
    ASSUME TablesTyped, CacheInv, NEW e, IsTables(e), Packaged(e), Grows(db, e), Commit(e), UNCHANGED <<cache, life>>
    PROVE  /\ TablesTyped' /\ CacheInv' /\ db' = e
           /\ \A i \in DOMAIN updates' : \/ i \in DOMAIN updates /\ updates'[i] = updates[i]
                                         \/ updates'[i] = Changes(db, e)
<1>1. /\ db' = e /\ updates' = Append(updates, Changes(db, e)) /\ Len(updates) < MaxUpdates
      /\ cache' = cache /\ life' = life
  BY DEF Commit
<1>2. /\ IsSeq(updates') /\ Len(updates') = Len(updates) + 1 /\ DOMAIN updates = 1 .. Len(updates)
      /\ Len(updates) \in Nat
      /\ \A i \in DOMAIN updates : updates'[i] = updates[i]
  <2>1. IsSeq(updates)
    BY DEF TablesTyped
  <2>2. DOMAIN updates = 1 .. Len(updates) /\ Len(updates) \in Nat
    BY <2>1, SeqFacts
  <2>3. \A x : /\ IsSeq(Append(updates, x)) /\ Len(Append(updates, x)) = Len(updates) + 1
               /\ \A i \in DOMAIN updates : Append(updates, x)[i] = updates[i]
    BY <2>1, MembersOfAppend
  <2> QED  BY <1>1, <2>2, <2>3
<1>3. DOMAIN updates' = 1 .. Len(updates) + 1 /\ updates'[Len(updates) + 1] = Changes(db, e)
  <2>1. DOMAIN updates' = 1 .. Len(updates')
    BY <1>2, SeqFacts
  <2>2. updates \in Seq(Members(updates))
    BY SeqFacts DEF TablesTyped
  <2> QED  BY <1>1, <1>2, <2>1, <2>2
<1>4. \A i \in DOMAIN updates' : \/ i \in DOMAIN updates /\ updates'[i] = updates[i]
                                 \/ updates'[i] = Changes(db, e)
  BY <1>2, <1>3
<1>5. TablesTyped'
  BY <1>1, <1>2, MirrorAssumption DEF TablesTyped, Packaged
<1>6. CacheInv'
  <2>1. IsSeq(updates)
    BY DEF TablesTyped
  <2>2. \A t \in Tables : Settles(e, Append(updates, Changes(db, e)), cache, t)
    BY <2>1, CommitSettles DEF CacheInv
  <2>3. ConfigSettles(e, Append(updates, Changes(db, e)), cache, life)
    BY <2>1, CommitConfig DEF CacheInv, TablesTyped
  <2> QED  BY <1>1, <2>2, <2>3 DEF CacheInv
<1> QED  BY <1>1, <1>4, <1>5, <1>6

LEMMA ChangedRevocations ==
    ASSUME NEW d, NEW e, NEW S, "revocations" \in Tables,
           \A s \in DOMAIN e["revocations"] : s \in S \/ (s \in DOMAIN d["revocations"] /\ e["revocations"][s] = d["revocations"][s])
    PROVE  DOMAIN Changes(d, e)["revocations"] \subseteq S
BY DEF Changes

LEMMA AcceptedStep ==
    ASSUME MirrorInv, writeQueue # <<>>, Accepts(db, Head(writeQueue).call), Commit(After(db, Head(writeQueue).call)),
           writeQueue' = Tail(writeQueue), applied' = Head(writeQueue).n,
           UNCHANGED <<issued, failed>>, UNCHANGED <<memoryVars, audits, cache, life>>
    PROVE  MirrorInv'
<1> USE DEF MirrorInv, QueueInv
<1>1. PICK h, c, e : h = Head(writeQueue) /\ c = h.call /\ e = After(db, c)
  OBVIOUS
<1>2. PICK W : W = Waiting
  OBVIOUS
<1>3. /\ QueueTyped' /\ ~failed /\ h \in W /\ Waiting' = W \ {h}
      /\ \A w \in W : h.n <= w.n
      /\ \A w \in W \ {h} : w.n > h.n
  <2>1. QueueTyped
    OBVIOUS
  <2>2. /\ QueueTyped' /\ ~failed /\ Head(writeQueue) \in Waiting /\ Waiting' = Waiting \ {Head(writeQueue)}
        /\ \A w \in Waiting : Head(writeQueue).n <= w.n
        /\ \A w \in Waiting' : w.n > Head(writeQueue).n
    BY <2>1, Popped
  <2> QED  BY <1>1, <1>2, <2>2
<1>4. /\ \A w \in W : w.n \in Nat /\ w.n <= issued
      /\ issued \in Nat
  BY <1>2, Numbers DEF QueueTyped
<1>5. c \in {w.call : w \in W} /\ c.op \in Ops /\ \A w \in W : w.call.op \in Ops
  BY <1>1, <1>2, <1>3 DEF WritesTyped
<1>6. IsTables(db) /\ Packaged(db) /\ Accepts(db, c) /\ e = After(db, c) /\ c = h.call
  BY <1>1 DEF TablesTyped, Packaged
<1>7. IsTables(e) /\ Packaged(e) /\ Grows(db, e)
  BY <1>5, <1>6, SentKeepsPackaged
<1>8. /\ plugins' = plugins /\ packages' = packages /\ revokedSigners' = revokedSigners /\ history' = history
      /\ audits' = audits /\ cache' = cache /\ life' = life /\ issued' = issued /\ failed' = failed
  BY DEF memoryVars
<1>9. /\ TablesTyped' /\ CacheInv' /\ db' = e
      /\ \A i \in DOMAIN updates' : \/ i \in DOMAIN updates /\ updates'[i] = updates[i]
                                    \/ updates'[i] = Changes(db, e)
  <2>1. Commit(e)
    BY <1>1
  <2> QED  BY <1>7, <1>8, <2>1, Committed
<1>10. MemoryTyped'
  BY <1>8 DEF MemoryTyped
<1>11. WritesTyped'
  BY <1>3, <1>5 DEF WritesTyped
<1>12. AuditsFit(W \ {h}, e["audit"], cache["audit"], audits)
  <2>1. AuditsFit(W, db["audit"], cache["audit"], audits) /\ audits \in Nat
    BY <1>2 DEF MemoryTyped
  <2> QED  BY <1>3, <1>5, <1>6, <2>1, SentKeepsAudits
<1>13. SignersKnown'
  <2>1. \A s \in DOMAIN e["revocations"] : s \in DOMAIN db["revocations"] \/ Revokes(c, s)
    BY <1>5, <1>6, RevocationsAfter
  <2>2. \A s \in DOMAIN db["revocations"] : e["revocations"][s] = db["revocations"][s] \/ Revokes(c, s)
    BY <1>5, <1>6, RevocationsAfter
  <2>3. \A s : Revokes(c, s) => s \in revokedSigners
    BY <1>1, <1>2, <1>3 DEF Revokes, SignersKnown
  <2>4. DOMAIN Changes(db, e)["revocations"] \subseteq revokedSigners
    <3>1. "revocations" \in Tables
      BY TablesAre
    <3> QED  BY <2>1, <2>2, <2>3, <3>1, ChangedRevocations
  <2>5. \A s \in DOMAIN e["revocations"] : s \in revokedSigners \/ s \in DOMAIN cache["revocations"]
    BY <2>1, <2>3 DEF SignersKnown
  <2>6. \A i \in DOMAIN updates' : DOMAIN updates'[i]["revocations"] \subseteq revokedSigners
    BY <1>9, <2>4 DEF SignersKnown
  <2> QED  BY <1>2, <1>3, <1>8, <1>9, <2>5, <2>6 DEF SignersKnown
<1>14. Registers(W \ {h}, e)
  <2>1. Registers(W, db)
    BY <1>2
  <2> QED  BY <1>3, <1>4, <1>5, <1>6, <2>1, SentKeepsRegisters
<1>15. StatusesFollow'
  <2>1. issued + 1 \in Nat /\ issued + 1 > h.n
    BY <1>3, <1>4
  <2>2. \A p : /\ Off(W, db, issued + 1, p) => Off(W \ {h}, e, issued + 1, p)
               /\ Packed(W \ {h}, e, issued + 1, p) => Packed(W, db, issued + 1, p)
    BY <1>3, <1>4, <1>5, <1>6, <2>1, SendingKeeps
  <2>3. \A p :
            /\ p \in DOMAIN plugins /\ plugins[p] = "disabled" => Off(W, db, issued + 1, p)
            /\ Packed(W, db, issued + 1, p) => p \in packages \/ (life # 1 /\ p \in DOMAIN cache["plugins"])
    BY <1>2, <1>3 DEF StatusesFollow, AllIn
  <2> QED  BY <1>3, <1>8, <1>9, <2>2, <2>3 DEF StatusesFollow, AllIn
<1>16. life = 1 /\ ~failed => StatusesAgree(W \ {h}, e, plugins) /\ DeploymentsAgree(W \ {h}, e, history)
  <2> SUFFICES ASSUME life = 1 PROVE StatusesAgree(W \ {h}, e, plugins) /\ DeploymentsAgree(W \ {h}, e, history)
    OBVIOUS
  <2>1. StatusesAgree(W, db, plugins) /\ DeploymentsAgree(W, db, history)
    BY <1>2, <1>3
  <2>2. StatusesAgree(W \ {h}, e, plugins)
    BY <1>3, <1>4, <1>5, <1>6, <2>1, SentKeepsStatuses
  <2>3. DeploymentsAgree(W \ {h}, e, history)
    BY <1>3, <1>4, <1>5, <1>6, <2>1, SentKeepsDeployments
  <2> QED  BY <2>2, <2>3
<1>17. DisabledAreOut'
  <2>1. Registers(W, db) /\ Out(db)
    BY <1>2, OutIs
  <2>2. Shut(e)
    BY <1>3, <1>4, <1>5, <1>6, <2>1, SentKeepsShut DEF Out
  <2>3. BundlesFit(e)
    BY <1>5, <1>6, <2>1, SentKeepsBundles DEF Out
  <2> QED  BY <1>9, <2>2, <2>3, OutThen DEF Out
<1>18. QueueInv'
  BY <1>3, <1>8, <1>9, <1>11, <1>12, <1>13, <1>14, <1>15, <1>16
<1> QED  BY <1>9, <1>10, <1>17, <1>18

-----------------------------------------------------------------------------
(***************************************************************************)
(* The steps that are no calls: a refusal, a commit past the queue, the    *)
(* cache's news and a restart.                                             *)
(***************************************************************************)
LEMMA RefusedStep ==
    ASSUME MirrorInv, Refused, UNCHANGED dbVars, UNCHANGED <<memoryVars, audits, cache, life>>
    PROVE  MirrorInv'
<1> USE DEF MirrorInv, QueueInv
<1>1. /\ failed' = TRUE /\ writeQueue' = <<>> /\ issued' = issued /\ applied' = applied
      /\ db' = db /\ updates' = updates /\ cache' = cache /\ life' = life /\ audits' = audits
      /\ plugins' = plugins /\ packages' = packages /\ revokedSigners' = revokedSigners /\ history' = history
  BY DEF Refused, dbVars, memoryVars
<1>2. IsSeq(<<>>) /\ Members(<<>>) = {} /\ Len(<<>>) = 0 /\ DOMAIN <<>> = {}
  BY MembersOfFew
<1>3. Waiting' = {}
  BY <1>1, <1>2 DEF Waiting
<1>4. QueueTyped'
  <2>1. \A i \in DOMAIN writeQueue' : writeQueue'[i].n = issued' - Len(writeQueue') + i
    BY <1>1, <1>2
  <2>2. issued' \in Nat /\ issued' <= MaxWrites /\ applied' \in Nat /\ applied' <= issued' /\ Len(writeQueue') <= issued'
    BY <1>1, <1>2 DEF QueueTyped
  <2> QED  BY <1>1, <1>2, <2>1, <2>2 DEF QueueTyped
<1>5. TablesTyped' /\ MemoryTyped' /\ CacheInv' /\ DisabledAreOut'
  <2>1. TablesTyped'  BY <1>1 DEF TablesTyped
  <2>2. MemoryTyped'  BY <1>1 DEF MemoryTyped
  <2>3. CacheInv'  BY <1>1 DEF CacheInv
  <2>4. DisabledAreOut'  BY <1>1, StaysOut
  <2> QED  BY <2>1, <2>2, <2>3, <2>4
<1>6. AuditsFit(Waiting, db["audit"], cache["audit"], audits)'
  BY <1>1, <1>3 DEF AuditsFit
<1>7. SignersKnown'
  BY <1>1, <1>3 DEF SignersKnown
<1>8. WritesTyped' /\ Registers(Waiting, db)' /\ StatusesFollow'
  BY <1>1, <1>3 DEF WritesTyped, Registers, StatusesFollow
<1> QED  BY <1>1, <1>4, <1>5, <1>6, <1>7, <1>8

(* What the queue's invariant says of the tables.                           *)
Mirrored == {"plugins", "packages", "revocations", "deployments"}

LEMMA SidewaysStep ==
    ASSUME MirrorInv, NEW e, IsTables(e), \A t \in Mirrored : e[t] = db[t], Grows(db, e), Out(e), Commit(e),
           \A id \in DOMAIN e["audit"] : id \in DOMAIN db["audit"] \/ e["audit"][id] # Here,
           UNCHANGED <<memoryVars, audits, queueVars, cache, life>>
    PROVE  MirrorInv'
<1> USE DEF MirrorInv, QueueInv
<1>1. /\ plugins' = plugins /\ packages' = packages /\ revokedSigners' = revokedSigners /\ history' = history
      /\ audits' = audits /\ cache' = cache /\ life' = life
      /\ writeQueue' = writeQueue /\ issued' = issued /\ applied' = applied /\ failed' = failed
  BY DEF memoryVars, queueVars
<1>2. /\ e["plugins"] = db["plugins"] /\ e["packages"] = db["packages"] /\ e["revocations"] = db["revocations"]
      /\ e["deployments"] = db["deployments"]
  BY DEF Mirrored
<1>3. /\ TablesTyped' /\ CacheInv' /\ db' = e
      /\ \A i \in DOMAIN updates' : \/ i \in DOMAIN updates /\ updates'[i] = updates[i]
                                    \/ updates'[i] = Changes(db, e)
  <2>1. Packaged(e)
    BY <1>2 DEF Packaged, TablesTyped
  <2> QED  BY <1>1, <2>1, Committed
<1>4. Waiting' = Waiting
  BY <1>1 DEF Waiting
<1>5. MemoryTyped'  BY <1>1 DEF MemoryTyped
<1>6. QueueTyped'  BY <1>1 DEF QueueTyped
<1>7. WritesTyped'  BY <1>4 DEF WritesTyped
<1>8. AuditsFit(Waiting, db["audit"], cache["audit"], audits)'
  <2>1. AuditsFit(Waiting, db["audit"], cache["audit"], audits)
    OBVIOUS
  <2>2. \A id \in DOMAIN e["audit"] :
            e["audit"][id] # Here \/ (id \in DOMAIN db["audit"] /\ e["audit"][id] = db["audit"][id])
    BY TablesAre DEF Grows
  <2>3. AuditsFit(Waiting, e["audit"], cache["audit"], audits)
    BY <2>1, <2>2 DEF AuditsFit
  <2> QED  BY <1>1, <1>3, <1>4, <2>3
<1>9. SignersKnown'
  <2>1. DOMAIN Changes(db, e)["revocations"] \subseteq revokedSigners
    <3>1. "revocations" \in Tables
      BY TablesAre
    <3> QED  BY <1>2, <3>1, ChangedRevocations
  <2>2. \A i \in DOMAIN updates' : DOMAIN updates'[i]["revocations"] \subseteq revokedSigners
    BY <1>3, <2>1 DEF SignersKnown
  <2> QED  BY <1>1, <1>2, <1>3, <1>4, <2>2 DEF SignersKnown
<1>10. \A n, p : /\ Off(Waiting, e, n, p) <=> Off(Waiting, db, n, p)
                 /\ Packed(Waiting, e, n, p) <=> Packed(Waiting, db, n, p)
                 /\ \A s : Revoked(Waiting, e, n, s) <=> Revoked(Waiting, db, n, s)
  BY <1>2 DEF Off, Packed, Revoked
<1>11. Registers(Waiting, db)'
  <2>1. Registers(Waiting, e)
    BY <1>10 DEF Registers
  <2> QED  BY <1>3, <1>4, <2>1
<1>12. StatusesFollow'
  BY <1>1, <1>3, <1>4, <1>10 DEF StatusesFollow, AllIn
<1>13. ASSUME life = 1, ~failed PROVE (StatusesAgree(Waiting, db, plugins) /\ DeploymentsAgree(Waiting, db, history))'
  <2>1. StatusesAgree(Waiting, db, plugins) /\ DeploymentsAgree(Waiting, db, history)
    BY <1>13
  <2>2. StatusesAgree(Waiting, e, plugins)
    BY <1>2, <1>10, <2>1 DEF StatusesAgree
  <2>3. DeploymentsAgree(Waiting, e, history)
    BY <1>2, <2>1 DEF DeploymentsAgree
  <2> QED  BY <1>1, <1>3, <1>4, <2>2, <2>3
<1>14. DisabledAreOut'
  BY <1>3, OutThen
<1>15. QueueInv'
  BY <1>1, <1>6, <1>7, <1>8, <1>9, <1>11, <1>12, <1>13
<1> QED  BY <1>3, <1>5, <1>14, <1>15

LEMMA MenuStep ==
    ASSUME MirrorInv, NEW p, upsertMenuDefinition(p)
    PROVE  MirrorInv'
<1>1. PICK e : e = PutRow(db, "menus", p, "enabled")
  OBVIOUS
<1>2. IsTables(e) /\ SameBut(db, e, {"menus"}) /\ e["menus"] = Put(db["menus"], p, "enabled")
  <2>1. IsTables(db) /\ "menus" \in Tables
    BY TablesAre DEF MirrorInv, TablesTyped
  <2>2. \A key, row : LET x == PutRow(db, "menus", key, row) IN
            IsTables(x) /\ x["menus"] = Put(db["menus"], key, row) /\ SameBut(db, x, {"menus"})
    BY <2>1, TableChanged
  <2> QED  BY <1>1, <2>2
<1>3. /\ \A t \in Tables \ {"menus"} : e[t] = db[t]
      /\ Mirrored \subseteq Tables \ {"menus"}
  BY <1>2, TablesAre DEF SameBut, Mirrored
<1>4. Grows(db, e)
  BY <1>3, TablesAre DEF Grows
<1>5. Out(e)
  <2>1. Out(db)
    BY OutIs DEF MirrorInv
  <2>2. p \in DOMAIN db["plugins"] /\ db["plugins"][p] = "active"
    BY DEF upsertMenuDefinition, MenuAccepted, IsActive, Exists
  <2>a. BundlesFit(e)
    <3>1. \A t \in {"bundles", "revocations", "deployments", "capabilities"} : e[t] = db[t]
      BY <1>3, TablesAre
    <3> QED  BY <2>1, <3>1, BundlesSame DEF Out
  <2>3. e["plugins"] = db["plugins"] /\ e["packages"] = db["packages"] /\ e["revocations"] = db["revocations"]
    BY <1>3 DEF Mirrored
  <2>4. ASSUME NEW t \in Surfaces, NEW q \in DOMAIN e[t], e[t][q] = "enabled"
        PROVE  q \in DOMAIN e["plugins"] /\ e["plugins"][q] # "disabled"
    <3>1. CASE t = "menus"
      BY <1>2, <2>1, <2>2, <2>3, <2>4, <3>1 DEF Put, Out, Shut, Surfaces
    <3>2. CASE t # "menus"
      <4>1. e[t] = db[t]
        BY <1>3, <3>2, TablesAre DEF Surfaces
      <4> QED  BY <2>1, <2>3, <2>4, <4>1 DEF Out, Shut
    <3> QED  BY <3>1, <3>2
  <2>5. Shut(e)
    BY <2>1, <2>3, <2>4 DEF Out, Shut, IsActive, Exists
  <2> QED  BY <2>a, <2>5 DEF Out
<1>6. Commit(e) /\ UNCHANGED <<memoryVars, audits, queueVars, cache, life>>
  BY <1>1 DEF upsertMenuDefinition
<1>7. e["audit"] = db["audit"]
  BY <1>3, TablesAre
<1> QED  BY <1>2, <1>3, <1>4, <1>5, <1>6, <1>7, SidewaysStep

(* A table that says nothing of plugins gains a row of another server.      *)
LEMMA ForeignRow ==
    ASSUME MirrorInv, NEW t \in ScopedTables, NEW key, NEW row, key \notin DOMAIN db[t],
           t = "config" => key[1] # Here, t = "audit" => row # Here,
           Commit(PutRow(db, t, key, row)), UNCHANGED <<memoryVars, audits, queueVars, cache, life>>
    PROVE  MirrorInv'
<1>0. t \in {"config", "audit"} /\ t \in Tables
  BY TablesAre
<1>1. PICK e : e = PutRow(db, t, key, row)
  OBVIOUS
<1>2. IsTables(e) /\ SameBut(db, e, {t}) /\ e[t] = Put(db[t], key, row)
  <2>1. IsTables(db)
    BY DEF MirrorInv, TablesTyped
  <2>2. \A k, r : LET x == PutRow(db, t, k, r) IN
            IsTables(x) /\ x[t] = Put(db[t], k, r) /\ SameBut(db, x, {t})
    BY <1>0, <2>1, TableChanged
  <2> QED  BY <1>1, <2>2
<1>3. /\ \A s \in Tables \ {t} : e[s] = db[s]
      /\ Mirrored \subseteq Tables \ {t} /\ Surfaces \subseteq Tables \ {t}
      /\ {"bundles", "revocations", "deployments", "capabilities"} \subseteq Tables \ {t}
  BY <1>0, <1>2, TablesAre DEF SameBut, Mirrored, Surfaces
<1>a. /\ DOMAIN e[t] = DOMAIN db[t] \cup {key} /\ e[t][key] = row
      /\ \A k \in DOMAIN db[t] : e[t][k] = db[t][k]
  BY <1>2 DEF Put
<1>4. Grows(db, e)
  <2>1. \A s \in Tables : DOMAIN db[s] \subseteq DOMAIN e[s] /\ \A k \in DOMAIN db[s] : e[s][k] = db[s][k]
    BY <1>a, <1>3
  <2>2. \A k \in DOMAIN e["config"] : k \in DOMAIN db["config"] \/ k[1] # Here
    <3>1. CASE t = "config"
      BY <1>a, <3>1
    <3>2. CASE t # "config"
      BY <1>3, <3>2, TablesAre
    <3> QED  BY <3>1, <3>2
  <2>3. ScopedTables \subseteq Tables
    BY TablesAre
  <2> QED  BY <2>1, <2>2, <2>3 DEF Grows
<1>5. Out(e)
  <2>1. Out(db)
    BY OutIs DEF MirrorInv
  <2>2. e["plugins"] = db["plugins"] /\ e["packages"] = db["packages"] /\ e["revocations"] = db["revocations"]
    BY <1>3 DEF Mirrored
  <2>3. \A s \in Surfaces : e[s] = db[s]
    BY <1>3
  <2>4. Shut(e)
    BY <2>1, <2>2, <2>3 DEF Out, Shut, IsActive, Exists
  <2>5. BundlesFit(e)
    BY <1>3, <2>1, BundlesSame DEF Out
  <2> QED  BY <2>4, <2>5 DEF Out
<1>6. \A id \in DOMAIN e["audit"] : id \in DOMAIN db["audit"] \/ e["audit"][id] # Here
  <2>1. CASE t = "audit"
    BY <1>a, <2>1
  <2>2. CASE t # "audit"
    BY <1>3, <2>2, TablesAre
  <2> QED  BY <2>1, <2>2
<1>7. Commit(e)
  BY <1>1
<1>8. \A s \in Mirrored : e[s] = db[s]
  BY <1>3
<1> QED  BY <1>2, <1>4, <1>5, <1>6, <1>7, <1>8, SidewaysStep

LEMMA ForeignSteps ==
    ASSUME MirrorInv, NEW server, NEW key
    PROVE  ForeignConfig(server, key) \/ ForeignAudit(server, key) => MirrorInv'
<1>0. "config" \in ScopedTables /\ "audit" \in ScopedTables
  BY TablesAre
<1>1. ASSUME ForeignConfig(server, key) PROVE MirrorInv'
  <2>1. PICK row : row = MaxVersion + 1
    OBVIOUS
  <2>2. /\ key \notin DOMAIN db["config"] /\ key[1] # Here /\ Commit(PutRow(db, "config", key, row))
        /\ UNCHANGED <<memoryVars, audits, queueVars, cache, life>>
    BY <1>1, <2>1 DEF ForeignConfig
  <2> QED  BY <1>0, <2>2, ForeignRow
<1>2. ASSUME ForeignAudit(server, key) PROVE MirrorInv'
  <2>1. /\ key \notin DOMAIN db["audit"] /\ server # Here /\ Commit(PutRow(db, "audit", key, server))
        /\ UNCHANGED <<memoryVars, audits, queueVars, cache, life>>
    BY <1>2 DEF ForeignAudit
  <2> QED  BY <1>0, <2>1, ForeignRow
<1> QED  BY <1>1, <1>2

(* The cache keeps the keys it has, and learns of no signer revoked that    *)
(* the registry does not know.                                              *)
LEMMA HearingStep ==
    ASSUME MirrorInv, wireCache
    PROVE  MirrorInv'
<1> USE DEF MirrorInv, QueueInv
<1>1. /\ plugins' = plugins /\ packages' = packages /\ revokedSigners' = revokedSigners /\ history' = history
      /\ audits' = audits /\ db' = db /\ life' = life
      /\ writeQueue' = writeQueue /\ issued' = issued /\ applied' = applied /\ failed' = failed
      /\ updates # <<>> /\ updates' = Tail(updates)
  BY DEF wireCache, memoryVars, queueVars
<1>2. PICK last \in HeardLast(Head(updates)) : cache' = Upserted(cache, Head(updates), last)
  BY DEF wireCache
<1>3. PICK r, x : r = Head(updates) /\ x = cache'
  OBVIOUS
<1>4. IsSeq(updates) /\ IsTables(db) /\ IsTables(cache)
  BY DEF TablesTyped
<1>5. /\ DOMAIN updates = 1 .. Len(updates) /\ Len(updates) \in Nat /\ updates \in Seq(Members(updates))
  BY <1>4, SeqFacts
<1>6. /\ Len(updates) >= 1 /\ r = updates[1] /\ Tail(updates) \in Seq(Members(updates))
      /\ Len(Tail(updates)) = Len(updates) - 1
      /\ \A i \in 1 .. Len(updates) - 1 : Tail(updates)[i] = updates[i + 1]
  BY <1>1, <1>3, <1>5
<1>7. \A t \in Tables :
          IsTables(x) /\ DOMAIN x[t] = DOMAIN cache[t] \cup {CacheKey(t, key) : key \in Current(r, t)}
  BY <1>2, <1>3, UpsertedIs
<1>8. /\ "plugins" \in Tables /\ "audit" \in Tables /\ "revocations" \in Tables
  BY TablesAre
<1>9. /\ DOMAIN cache["plugins"] \subseteq DOMAIN x["plugins"] /\ DOMAIN cache["audit"] \subseteq DOMAIN x["audit"]
      /\ DOMAIN cache["revocations"] \subseteq DOMAIN x["revocations"] /\ IsTables(x)
  BY <1>7, <1>8
<1>10. \A s \in DOMAIN x["revocations"] : s \in DOMAIN cache["revocations"] \/ s \in revokedSigners
  <2>1. \A key \in Current(r, "revocations") : CacheKey("revocations", key) \in revokedSigners
    <3>1. DOMAIN r["revocations"] \subseteq revokedSigners
      <4>1. 1 \in DOMAIN updates
        BY <1>5, <1>6
      <4> QED  BY <1>6, <4>1 DEF SignersKnown
    <3> QED  BY <3>1 DEF Current, CacheKey
  <2> QED  BY <1>7, <1>8, <2>1
<1>11. Waiting' = Waiting
  BY <1>1 DEF Waiting
<1>12. TablesTyped'
  <2>1. IsSeq(updates') /\ Len(updates') <= MaxUpdates
    BY <1>1, <1>5, <1>6, MirrorAssumption DEF TablesTyped, IsSeq
  <2> QED  BY <1>1, <1>3, <1>9, <2>1 DEF TablesTyped
<1>13. CacheInv'
  <2>1. \A t \in Tables : Settles(db, Tail(updates), Upserted(cache, Head(updates), last), t)
    BY <1>1, <1>4, HearingSettles DEF CacheInv
  <2>2. ConfigSettles(db, updates, cache, life)
    BY DEF CacheInv
  <2>3. ConfigSettles(db, Tail(updates), cache', life)
    BY <1>1, <1>2, <1>4, <2>2, HearingConfig
  <2> QED  BY <1>1, <1>2, <2>1, <2>3 DEF CacheInv
<1>14. MemoryTyped' /\ QueueTyped' /\ WritesTyped'
  <2>1. MemoryTyped'  BY <1>1 DEF MemoryTyped
  <2>2. QueueTyped'  BY <1>1 DEF QueueTyped
  <2>3. WritesTyped'  BY <1>11 DEF WritesTyped
  <2> QED  BY <2>1, <2>2, <2>3
<1>15. AuditsFit(Waiting, db["audit"], x["audit"], audits)
  <2>1. AuditsFit(Waiting, db["audit"], cache["audit"], audits)
    OBVIOUS
  <2> QED  BY <1>9, <2>1 DEF AuditsFit
<1>16. SignersKnown'
  <2>1. \A s \in DOMAIN db["revocations"] : s \in revokedSigners \/ s \in DOMAIN x["revocations"]
    BY <1>9 DEF SignersKnown
  <2>2. \A i \in DOMAIN updates' : DOMAIN updates'[i]["revocations"] \subseteq revokedSigners
    <3> SUFFICES ASSUME NEW i \in DOMAIN updates' PROVE DOMAIN updates'[i]["revocations"] \subseteq revokedSigners
      OBVIOUS
    <3>1. i \in 1 .. Len(updates) - 1
      BY <1>1, <1>6
    <3>2. updates'[i] = updates[i + 1] /\ i + 1 \in DOMAIN updates
      BY <1>1, <1>5, <1>6, <3>1
    <3> QED  BY <3>2 DEF SignersKnown
  <2>3. \A p \in packages : /\ SignerOf[p] \in DOMAIN x["revocations"] => SignerOf[p] \in revokedSigners
                            /\ SignerOf[p] \in revokedSigners => plugins[p] = "disabled"
    BY <1>10 DEF SignersKnown
  <2> QED  BY <1>1, <1>3, <1>11, <2>1, <2>2, <2>3 DEF SignersKnown
<1>17. StatusesFollow'
  BY <1>1, <1>3, <1>9, <1>11 DEF StatusesFollow, AllIn
<1>18. DisabledAreOut'
  BY <1>1, StaysOut
<1>19. QueueInv'
  BY <1>1, <1>3, <1>11, <1>14, <1>15, <1>16, <1>17
<1> QED  BY <1>12, <1>13, <1>14, <1>18, <1>19

(* A new life knows what the database has, and its cache all of it.         *)
LEMMA RestartStep ==
    ASSUME MirrorInv, Restart
    PROVE  MirrorInv'
<1> USE DEF MirrorInv, QueueInv
<1>1. /\ plugins' = Nothing /\ packages' = {} /\ revokedSigners' = {} /\ history' = [p \in PluginIds |-> <<>>]
      /\ audits' = 0 /\ db' = db /\ life' = life + 1 /\ updates' = <<>>
      /\ writeQueue' = <<>> /\ issued' = 0 /\ applied' = 0 /\ failed' = FALSE
  BY DEF Restart
<1>2. PICK last \in HeardLast(db) : cache' = Upserted(EmptyTables, db, last)
  BY DEF Restart
<1>3. PICK x : x = cache'
  OBVIOUS
<1>4. IsSeq(<<>>) /\ Members(<<>>) = {} /\ Len(<<>>) = 0 /\ DOMAIN <<>> = {} /\ DOMAIN Nothing = {}
  BY MembersOfFew DEF Nothing
<1>5. Waiting' = {}
  BY <1>1, <1>4 DEF Waiting
<1>6. \A t \in Tables :
          IsTables(x) /\ DOMAIN x[t] = DOMAIN EmptyTables[t] \cup {CacheKey(t, key) : key \in Current(db, t)}
  BY <1>2, <1>3, UpsertedIs
<1>7. /\ "plugins" \in Tables /\ "audit" \in Tables /\ "revocations" \in Tables
      /\ \A t \in Tables : EmptyTables[t] = Nothing
  BY TablesAre DEF EmptyTables
<1>8. \A t \in {"plugins", "audit", "revocations"} : \A key \in DOMAIN db[t] :
          (t = "audit" => db[t][key] = Here) => InScope(t, key, db[t][key]) /\ CacheKey(t, key) = key
  BY DEF InScope, ServerOfRow, CacheKey, ScopedTables
<1>9. /\ DOMAIN db["plugins"] \subseteq DOMAIN x["plugins"]
      /\ \A id \in DOMAIN db["audit"] : db["audit"][id] = Here => id \in DOMAIN x["audit"]
      /\ DOMAIN db["revocations"] \subseteq DOMAIN x["revocations"] /\ IsTables(x)
  <2>1. ASSUME NEW t \in {"plugins", "audit", "revocations"}, NEW key \in DOMAIN db[t],
               t = "audit" => db[t][key] = Here
        PROVE  key \in DOMAIN x[t]
    <3>1. key \in Current(db, t) /\ CacheKey(t, key) = key
      BY <1>8, <2>1 DEF Current
    <3>2. t \in Tables
      BY <1>7
    <3> QED  BY <1>6, <3>1, <3>2
  <2> QED  BY <1>6, <1>7, <2>1
<1>10. TablesTyped'
  <2>1. life' \in Nat \ {0}
    BY <1>1 DEF TablesTyped
  <2>2. IsSeq(updates') /\ Len(updates') <= MaxUpdates
    BY <1>1, <1>4, MirrorAssumption
  <2> QED  BY <1>1, <1>3, <1>9, <2>1, <2>2 DEF TablesTyped
<1>11. MemoryTyped'
  <2>1. IsFiniteSet({})
    BY FS_EmptySet
  <2> QED  BY <1>1, <1>4, <2>1 DEF MemoryTyped
<1>12. QueueTyped' /\ WritesTyped'
  <2>1. /\ issued' \in Nat /\ issued' <= MaxWrites /\ applied' \in Nat /\ applied' <= issued'
        /\ Len(writeQueue') <= issued' /\ IsSeq(writeQueue')
    BY <1>1, <1>4, MirrorAssumption
  <2>2. \A i \in DOMAIN writeQueue' : writeQueue'[i].n = issued' - Len(writeQueue') + i
    BY <1>1, <1>4
  <2>3. failed' \in BOOLEAN /\ ~failed'
    BY <1>1
  <2> QED  BY <1>5, <2>1, <2>2, <2>3 DEF QueueTyped, WritesTyped
<1>13. AuditsFit(Waiting, db["audit"], cache["audit"], audits)'
  BY <1>1, <1>3, <1>5, <1>9 DEF AuditsFit
<1>14. SignersKnown'
  BY <1>1, <1>3, <1>4, <1>5, <1>9 DEF SignersKnown
<1>15. Registers(Waiting, db)'
  BY <1>5 DEF Registers
<1>16. life' # 1
  BY <1>1 DEF TablesTyped
<1>17. StatusesFollow'
  <2>1. \A p : Packed({}, db, 0 + 1, p) => p \in DOMAIN x["plugins"]
    BY <1>9 DEF Packed, TablesTyped
  <2> QED  BY <1>1, <1>3, <1>4, <1>5, <1>16, <2>1 DEF StatusesFollow, AllIn
<1>18. CacheInv'
  <2>1. \A t \in Tables : Settles(db, <<>>, Upserted(EmptyTables, db, last), t)
    BY StartSettles
  <2>2. ConfigSettles(db, updates, cache, life) /\ life \in Nat
    BY DEF CacheInv, TablesTyped
  <2>3. ConfigSettles(db, <<>>, cache', life + 1)
    BY <2>2, StartConfig
  <2> QED  BY <1>1, <1>2, <2>1, <2>3 DEF CacheInv
<1>19. DisabledAreOut'
  BY <1>1, StaysOut
<1>20. QueueInv'
  BY <1>12, <1>13, <1>14, <1>15, <1>16, <1>17
<1> QED  BY <1>10, <1>11, <1>18, <1>19, <1>20

-----------------------------------------------------------------------------
(***************************************************************************)
(* What the calls have in common: what they queue fits what they do to the *)
(* registries.                                                             *)
(***************************************************************************)
(* What a call disables or uninstalls it writes so; what it enables it      *)
(* writes last; a package goes only with its plugin.                        *)
StatusesFit(C) ==
    /\ \A p \in DOMAIN plugins' : plugins'[p] = "disabled" =>
          /\ \A c \in C : ~Enables(c, p)
          /\ \/ p \in DOMAIN plugins /\ plugins[p] = "disabled"
             \/ \E c \in C : Disables(c, p)
    /\ \A c \in C : \A p : Packs(c, p) => p \in packages'
    /\ \A p \in packages \ packages' : \E c \in C : Removes(c, p)
    /\ \A c \in C : \A p : Sets(c, p) => p \in DOMAIN plugins' /\ plugins'[p] = c.status
    /\ \A p \in DOMAIN plugins :
          \/ \E c \in C : About(c, p)
          \/ p \in DOMAIN plugins' /\ plugins'[p] = plugins[p]

(* A plugin is registered first and as it is known; one with a package of a *)
(* signer known to be revoked is not registered as active.                  *)
RegistersFit(writes) ==
    \A i \in DOMAIN writes : writes[i].op = "register_plugin" =>
        /\ i = 1
        /\ writes[i].status = "disabled" => writes[i].plugin \in DOMAIN plugins /\ plugins[writes[i].plugin] = "disabled"
        /\ writes[i].status = "active" /\ (writes[i].plugin \in packages \/ writes[i].plugin \in DOMAIN cache["plugins"]) =>
              SignerOf[writes[i].plugin] \notin revokedSigners \cup DOMAIN cache["revocations"]

SignersFit(C) ==
    /\ revokedSigners \subseteq revokedSigners'
    /\ \A c \in C : c.op = "revoke_package_signer" =>
          /\ c.signer \in revokedSigners'
          /\ \A b \in C : b.op # "register_plugin_package"
          /\ \A p \in packages : SignerOf[p] = c.signer => p \in DOMAIN plugins' /\ plugins'[p] = "disabled"
    /\ \A p \in packages' :
          /\ SignerOf[p] \in DOMAIN cache["revocations"] => SignerOf[p] \in revokedSigners'
          /\ SignerOf[p] \in revokedSigners' => plugins'[p] = "disabled"

(* What the manager changed is written.                                     *)
DeploymentsFit(C) ==
    life = 1 =>
        /\ \A p \in PluginIds : DOMAIN history[p] \subseteq DOMAIN history'[p]
        /\ \A p \in PluginIds : \A i \in DOMAIN history[p] :
              \/ history'[p][i] = history[p][i]
              \/ \E c \in C : Deploys(c) /\ c.key = <<p, 1, i>>
        /\ \A c \in C : Deploys(c) =>
              OwnKey(history', c.key) /\ history'[c.key[1]][c.key[3]] = c.status

Fits(writes) ==
    /\ IsSeq(writes) /\ \A c \in Members(writes) : c.op \in Ops
    /\ StatusesFit(Members(writes)) /\ RegistersFit(writes) /\ SignersFit(Members(writes)) /\ DeploymentsFit(Members(writes))

AuditsFollow(writes) ==
    /\ audits' \in Nat /\ audits <= audits'
    /\ \A c \in Members(writes) : Audits(c) =>
          c.id \notin DOMAIN cache["audit"] /\ c.id[3] \in Nat /\ audits < c.id[3] /\ c.id[3] <= audits'
    /\ \A i, j \in DOMAIN writes : Audits(writes[i]) /\ Audits(writes[j]) /\ writes[i].id = writes[j].id => i = j

LEMMA CallStep ==
    ASSUME MirrorInv, NEW writes, Fits(writes), AuditsFollow(writes), Queue(writes), MemoryTyped',
           UNCHANGED <<dbVars, cache, life>>
    PROVE  MirrorInv'
<1> USE DEF MirrorInv, QueueInv
<1>1. db' = db /\ updates' = updates /\ cache' = cache /\ life' = life
  BY DEF dbVars
<1>2. PICK W, N, n : W = Waiting /\ N = Added(issued, writes) /\ n = issued + 1
  OBVIOUS
<1>3. IsSeq(writes) /\ \A c \in Members(writes) : c.op \in Ops
  BY DEF Fits
<1>4. /\ QueueTyped' /\ failed' = failed /\ issued' = issued + Len(writes) /\ Len(writes) \in Nat
      /\ failed => W = {} /\ Waiting' = {}
      /\ ~failed => Waiting' = W \cup N
  <2>1. QueueTyped
    OBVIOUS
  <2>2. /\ QueueTyped' /\ failed' = failed /\ issued' = issued + Len(writes) /\ Len(writes) \in Nat
        /\ failed => Waiting = {} /\ Waiting' = {}
        /\ ~failed => Waiting' = Waiting \cup Added(issued, writes)
    BY <1>3, <2>1, Queued
  <2> QED  BY <1>2, <2>2
<1>5. /\ \A w \in W : w.n \in Nat /\ w.n <= issued /\ w.n < n
      /\ issued \in Nat /\ n \in Nat
  <2>1. issued \in Nat
    BY DEF QueueTyped
  <2>2. \A w \in Waiting : w.n \in Nat /\ 1 <= w.n /\ w.n <= issued
    BY Numbers
  <2> QED  BY <1>2, <2>1, <2>2
<1>6. /\ \A w \in N : w.n \in Nat /\ n <= w.n /\ w.n < issued' + 1 /\ w.call \in Members(writes)
      /\ \A c \in Members(writes) : \E w \in N : w.call = c
      /\ issued' + 1 \in Nat /\ n <= issued' + 1
  <2>1. /\ \A w \in Added(issued, writes) :
              w.n \in Nat /\ issued < w.n /\ w.n <= issued + Len(writes) /\ w.call \in Members(writes)
        /\ \A c \in Members(writes) : \E w \in Added(issued, writes) : w.call = c
    BY <1>3, <1>5, AddedIs
  <2> QED  BY <1>2, <1>4, <1>5, <2>1
<1>7. WritesTyped'
  BY <1>2, <1>3, <1>4, <1>6 DEF WritesTyped
<1>8. TablesTyped' /\ CacheInv' /\ DisabledAreOut'
  <2>1. TablesTyped'  BY <1>1 DEF TablesTyped
  <2>2. CacheInv'  BY <1>1 DEF CacheInv
  <2>3. DisabledAreOut'  BY <1>1, StaysOut
  <2> QED  BY <2>1, <2>2, <2>3
<1>9. \A s : Revoked(W, db, n, s) => s \in revokedSigners \cup DOMAIN cache["revocations"]
  BY <1>2 DEF Revoked, Revokes, SignersKnown
<1>10. ~failed => \A p :
          /\ p \in DOMAIN plugins /\ plugins[p] = "disabled" => Off(W, db, n, p)
          /\ Packed(W, db, n, p) => p \in packages \/ (life # 1 /\ p \in DOMAIN cache["plugins"])
  BY <1>2 DEF StatusesFollow, AllIn
<1>11. AuditsFit(Waiting, db["audit"], cache["audit"], audits)'
  <2>1. AuditsFit(W, db["audit"], cache["audit"], audits) /\ audits \in Nat /\ audits' \in Nat /\ audits <= audits'
    BY <1>2 DEF MemoryTyped, AuditsFollow
  <2>a. /\ \A w \in W : Audits(w.call) =>
              /\ w.call.id \in DOMAIN db["audit"] => db["audit"][w.call.id] # Here
              /\ w.call.id[3] \in Nat /\ w.call.id[3] <= audits
        /\ \A v, w \in W : Audits(v.call) /\ Audits(w.call) /\ v.call.id = w.call.id => v = w
        /\ \A id \in DOMAIN db["audit"] : db["audit"][id] = Here =>
              id \in DOMAIN cache["audit"] \/ (id[3] \in Nat /\ id[3] <= audits)
    BY <2>1 DEF AuditsFit
  <2>2. ASSUME NEW w \in N, Audits(w.call)
        PROVE  /\ w.call.id \in DOMAIN db["audit"] => db["audit"][w.call.id] # Here
               /\ w.call.id[3] \in Nat /\ w.call.id[3] <= audits' /\ audits < w.call.id[3]
    <3>1. w.call.id \notin DOMAIN cache["audit"] /\ w.call.id[3] \in Nat /\ audits < w.call.id[3] /\ w.call.id[3] <= audits'
      BY <1>6, <2>2 DEF AuditsFollow
    <3>2. w.call.id \in DOMAIN db["audit"] /\ db["audit"][w.call.id] = Here => w.call.id[3] <= audits
      BY <2>a, <3>1
    <3> QED  BY <2>1, <3>1, <3>2
  <2>3. ASSUME NEW v \in N, NEW w \in N, Audits(v.call), Audits(w.call), v.call.id = w.call.id PROVE v = w
    <3>1. PICK i \in DOMAIN writes : v = [n |-> issued + i, call |-> writes[i]]
      BY <1>2 DEF Added
    <3>2. PICK j \in DOMAIN writes : w = [n |-> issued + j, call |-> writes[j]]
      BY <1>2 DEF Added
    <3>3. v.call = writes[i] /\ w.call = writes[j]
      BY <3>1, <3>2
    <3>4. i = j
      BY <2>3, <3>3 DEF AuditsFollow
    <3> QED  BY <3>1, <3>2, <3>4
  <2>4. ASSUME NEW v \in W, Audits(v.call)
        PROVE  /\ v.call.id \in DOMAIN db["audit"] => db["audit"][v.call.id] # Here
               /\ v.call.id[3] \in Nat /\ v.call.id[3] <= audits
    BY <2>a, <2>4
  <2>5. ASSUME NEW v \in W, NEW w \in N, Audits(v.call), Audits(w.call) PROVE v.call.id # w.call.id
    <3>1. v.call.id[3] \in Nat /\ v.call.id[3] <= audits
      BY <2>4, <2>5
    <3>2. w.call.id[3] \in Nat /\ audits < w.call.id[3]
      BY <2>2, <2>5
    <3> QED  BY <2>1, <3>1, <3>2
  <2>6. AuditsFit(W \cup N, db["audit"], cache["audit"], audits')
    <3>1. \A w \in W \cup N : Audits(w.call) =>
              /\ w.call.id \in DOMAIN db["audit"] => db["audit"][w.call.id] # Here
              /\ w.call.id[3] \in Nat /\ w.call.id[3] <= audits'
      BY <2>1, <2>2, <2>4
    <3>2. \A v, w \in W \cup N : Audits(v.call) /\ Audits(w.call) /\ v.call.id = w.call.id => v = w
      BY <2>a, <2>3, <2>5
    <3>3. \A id \in DOMAIN db["audit"] : db["audit"][id] = Here =>
              id \in DOMAIN cache["audit"] \/ (id[3] \in Nat /\ id[3] <= audits')
      BY <2>1, <2>a
    <3> QED  BY <3>1, <3>2, <3>3 DEF AuditsFit
  <2>7. AuditsFit({}, db["audit"], cache["audit"], audits')
    BY <2>6 DEF AuditsFit
  <2> QED  BY <1>1, <1>4, <2>6, <2>7
<1>12. SignersKnown'
  <2>0. SignersFit(Members(writes))
    BY DEF Fits
  <2>1. \A w \in Waiting' : w.call.op = "revoke_package_signer" => w.call.signer \in revokedSigners'
    <3>1. \A w \in N : w.call.op = "revoke_package_signer" => w.call.signer \in revokedSigners'
      BY <1>6, <2>0 DEF SignersFit
    <3>2. \A w \in W : w.call.op = "revoke_package_signer" => w.call.signer \in revokedSigners'
      BY <1>2, <2>0 DEF SignersFit, SignersKnown
    <3> QED  BY <1>4, <3>1, <3>2
  <2> QED  BY <1>1, <2>0, <2>1 DEF SignersKnown, SignersFit
<1>13. Registers(Waiting, db)'
  <2>1. CASE failed
    BY <1>4, <2>1 DEF Registers
  <2>2. CASE ~failed
    <3>1. ASSUME NEW w \in W, w.call.op = "register_plugin"
          PROVE  /\ w.call.status = "disabled" => Off(W \cup N, db, w.n, w.call.plugin)
                 /\ w.call.status = "active" =>
                      ~(Packed(W \cup N, db, w.n, w.call.plugin) /\ Revoked(W \cup N, db, w.n, SignerOf[w.call.plugin]))
      <4>1. w.n \in Nat /\ \A v \in N : v.n \in Nat /\ w.n <= v.n
        BY <1>5, <1>6
      <4>2. \A p : /\ Off(W \cup N, db, w.n, p) <=> Off(W, db, w.n, p)
                   /\ Packed(W \cup N, db, w.n, p) <=> Packed(W, db, w.n, p)
                   /\ \A s : Revoked(W \cup N, db, w.n, s) <=> Revoked(W, db, w.n, s)
        BY <4>1, PastStays
      <4> QED  BY <1>2, <3>1, <4>2 DEF Registers
    <3>2. ASSUME NEW w \in N, w.call.op = "register_plugin"
          PROVE  /\ w.call.status = "disabled" => Off(W \cup N, db, w.n, w.call.plugin)
                 /\ w.call.status = "active" =>
                      ~(Packed(W \cup N, db, w.n, w.call.plugin) /\ Revoked(W \cup N, db, w.n, SignerOf[w.call.plugin]))
      <4>1. PICK i \in DOMAIN writes : w = [n |-> issued + i, call |-> writes[i]]
        BY <1>2 DEF Added
      <4>2. w.n = issued + i /\ w.call = writes[i]
        BY <4>1
      <4> DEFINE p == w.call.plugin
      <4>3. /\ i = 1
            /\ w.call.status = "disabled" => p \in DOMAIN plugins /\ plugins[p] = "disabled"
            /\ w.call.status = "active" /\ (p \in packages \/ p \in DOMAIN cache["plugins"]) =>
                  SignerOf[p] \notin revokedSigners \cup DOMAIN cache["revocations"]
        BY <3>2, <4>2 DEF Fits, RegistersFit
      <4>4. w.n = n /\ \A v \in N : v.n \in Nat /\ n <= v.n
        BY <1>2, <1>6, <4>2, <4>3
      <4> HIDE DEF p
      <4>5. /\ Off(W \cup N, db, n, p) <=> Off(W, db, n, p)
            /\ Packed(W \cup N, db, n, p) <=> Packed(W, db, n, p)
            /\ \A s : Revoked(W \cup N, db, n, s) <=> Revoked(W, db, n, s)
        BY <1>5, <4>4, PastStays
      <4>6. w.call.status = "disabled" => Off(W \cup N, db, n, p)
        BY <1>10, <2>2, <4>3, <4>5
      <4>7. w.call.status = "active" => ~(Packed(W \cup N, db, n, p) /\ Revoked(W \cup N, db, n, SignerOf[p]))
        BY <1>9, <1>10, <2>2, <4>3, <4>5
      <4> QED  BY <4>4, <4>6, <4>7 DEF p
    <3>3. Registers(W \cup N, db)
      BY <3>1, <3>2 DEF Registers
    <3> QED  BY <1>1, <1>4, <2>2, <3>3
  <2> QED  BY <2>1, <2>2
<1>14. ASSUME ~failed, NEW p
       PROVE  /\ (\A w \in N : ~Enables(w.call, p)) /\ Off(W, db, n, p) => Off(W \cup N, db, issued' + 1, p)
              /\ (\A w \in N : ~Enables(w.call, p)) /\ (\E w \in N : Disables(w.call, p))
                    => Off(W \cup N, db, issued' + 1, p)
              /\ (\A w \in N : ~Packs(w.call, p)) /\ Packed(W \cup N, db, issued' + 1, p)
                    => Packed(W, db, n, p) /\ \A w \in N : ~Removes(w.call, p)
  BY <1>5, <1>6, NewWritesFollow
<1>15. StatusesFollow'
  <2> SUFFICES ASSUME ~failed, NEW p
               PROVE  /\ p \in DOMAIN plugins' /\ plugins'[p] = "disabled" => Off(W \cup N, db, issued' + 1, p)
                      /\ Packed(W \cup N, db, issued' + 1, p)
                            => p \in packages' \/ (life # 1 /\ p \in DOMAIN cache["plugins"])
    BY <1>1, <1>4 DEF StatusesFollow, AllIn
  <2>0. StatusesFit(Members(writes))
    BY DEF Fits
  <2>1. ASSUME p \in DOMAIN plugins', plugins'[p] = "disabled" PROVE Off(W \cup N, db, issued' + 1, p)
    <3>1. /\ \A c \in Members(writes) : ~Enables(c, p)
          /\ \/ p \in DOMAIN plugins /\ plugins[p] = "disabled"
             \/ \E c \in Members(writes) : Disables(c, p)
      BY <2>0, <2>1 DEF StatusesFit
    <3>2. \A w \in N : ~Enables(w.call, p)
      BY <1>6, <3>1
    <3>3. CASE p \in DOMAIN plugins /\ plugins[p] = "disabled"
      BY <1>10, <1>14, <3>2, <3>3
    <3>4. CASE \E c \in Members(writes) : Disables(c, p)
      BY <1>6, <1>14, <3>2, <3>4
    <3> QED  BY <3>1, <3>3, <3>4
  <2>2. ASSUME Packed(W \cup N, db, issued' + 1, p), p \notin packages'
        PROVE  life # 1 /\ p \in DOMAIN cache["plugins"]
    <3>1. \A w \in N : ~Packs(w.call, p)
      BY <1>6, <2>0, <2>2 DEF StatusesFit
    <3>2. Packed(W, db, n, p) /\ \A w \in N : ~Removes(w.call, p)
      BY <1>14, <2>2, <3>1
    <3>3. p \notin packages
      BY <1>6, <2>0, <2>2, <3>2 DEF StatusesFit
    <3> QED  BY <1>10, <3>2, <3>3
  <2> QED  BY <2>1, <2>2
<1>16. ASSUME life = 1, ~failed PROVE StatusesAgree(W \cup N, db, plugins')
  <2> SUFFICES ASSUME NEW p
               PROVE  /\ \A w \in W \cup N : Sets(w.call, p) /\ ~Later(W \cup N, w, p)
                            => p \in DOMAIN plugins' /\ plugins'[p] = w.call.status
                      /\ (\A w \in W \cup N : ~About(w.call, p)) /\ p \in DOMAIN db["plugins"]
                            => p \in DOMAIN plugins' /\ plugins'[p] = db["plugins"][p]
                      /\ \A w \in W \cup N : Revokes(w.call, SignerOf[p]) /\ Packed(W \cup N, db, w.n, p) =>
                            Later(W \cup N, w, p) \/ (p \in DOMAIN plugins' /\ plugins'[p] = "disabled")
    BY DEF StatusesAgree
  <2>0. StatusesFit(Members(writes)) /\ SignersFit(Members(writes)) /\ StatusesAgree(W, db, plugins)
    BY <1>2, <1>16 DEF Fits
  <2>1. /\ \A w \in W : Sets(w.call, p) /\ ~Later(W, w, p) => p \in DOMAIN plugins /\ plugins[p] = w.call.status
        /\ (\A w \in W : ~About(w.call, p)) /\ p \in DOMAIN db["plugins"]
              => p \in DOMAIN plugins /\ plugins[p] = db["plugins"][p]
        /\ \A w \in W : Revokes(w.call, SignerOf[p]) /\ Packed(W, db, w.n, p) =>
              Later(W, w, p) \/ (p \in DOMAIN plugins /\ plugins[p] = "disabled")
    BY <2>0 DEF StatusesAgree
  <2>2. (\A w \in N : ~About(w.call, p)) /\ p \in DOMAIN plugins => p \in DOMAIN plugins' /\ plugins'[p] = plugins[p]
    BY <1>6, <2>0 DEF StatusesFit
  <2>3. \A v \in W : \A w \in N : v.n < w.n
    BY <1>5, <1>6
  <2>4. \A w \in W : Later(W, w, p) => Later(W \cup N, w, p)
    BY DEF Later
  <2>5. \A w \in W : (\E v \in N : About(v.call, p)) => Later(W \cup N, w, p)
    BY <1>5, <1>6, <2>3 DEF Later
  <2>6. ASSUME NEW w \in W \cup N, Sets(w.call, p), ~Later(W \cup N, w, p)
        PROVE  p \in DOMAIN plugins' /\ plugins'[p] = w.call.status
    <3>1. CASE w \in N
      BY <1>6, <2>0, <2>6, <3>1 DEF StatusesFit
    <3>2. CASE w \in W
      BY <2>1, <2>2, <2>4, <2>5, <2>6, <3>2
    <3> QED  BY <3>1, <3>2
  <2>7. ASSUME \A w \in W \cup N : ~About(w.call, p), p \in DOMAIN db["plugins"]
        PROVE  p \in DOMAIN plugins' /\ plugins'[p] = db["plugins"][p]
    BY <2>1, <2>2, <2>7
  <2>8. ASSUME NEW w \in W \cup N, Revokes(w.call, SignerOf[p]), Packed(W \cup N, db, w.n, p)
        PROVE  Later(W \cup N, w, p) \/ (p \in DOMAIN plugins' /\ plugins'[p] = "disabled")
    <3>1. CASE w \in W
      <4>1. w.n \in Nat /\ \A v \in N : v.n \in Nat /\ w.n <= v.n
        BY <1>5, <1>6, <3>1
      <4>2. Packed(W, db, w.n, p)
        BY <2>8, <4>1, PastStays
      <4> QED  BY <2>1, <2>2, <2>4, <2>5, <2>8, <3>1, <4>2
    <3>2. CASE w \in N
      <4>1. w.call \in Members(writes) /\ w.call.op = "revoke_package_signer" /\ w.call.signer = SignerOf[p]
        BY <1>6, <2>8, <3>2 DEF Revokes
      <4>2. /\ \A v \in N : ~Packs(v.call, p)
            /\ p \in packages => p \in DOMAIN plugins' /\ plugins'[p] = "disabled"
        BY <1>6, <2>0, <4>1 DEF SignersFit, Packs
      <4>3. Packed(W, db, n, p)
        <5> DEFINE M == {v \in N : v.n < w.n}
        <5>1. Packed(W \cup M, db, w.n, p)
          <6>1. \A v : v.n < w.n => (v \in W \cup N <=> v \in W \cup M)
            OBVIOUS
          <6> HIDE DEF M
          <6> QED  BY <2>8, <6>1 DEF Packed
        <5>2. \A v \in M : v.n \in Nat /\ n <= v.n /\ v.n < w.n /\ ~Packs(v.call, p)
          BY <1>6, <4>2
        <5>3. n <= w.n /\ w.n \in Nat
          BY <1>6, <3>2
        <5> HIDE DEF M
        <5> QED  BY <1>5, <5>1, <5>2, <5>3, NewWritesFollow
      <4>4. p \in packages
        BY <1>10, <1>16, <4>3
      <4> QED  BY <4>2, <4>4
    <3> QED  BY <3>1, <3>2
  <2> QED  BY <2>6, <2>7, <2>8
<1>17. ASSUME life = 1, ~failed PROVE DeploymentsAgree(W \cup N, db, history')
  <2>0. DeploymentsFit(Members(writes)) /\ DeploymentsAgree(W, db, history)
    BY <1>2, <1>17 DEF Fits
  <2>1. /\ \A p \in PluginIds : DOMAIN history[p] \subseteq DOMAIN history'[p]
        /\ \A p \in PluginIds : \A i \in DOMAIN history[p] :
              \/ history'[p][i] = history[p][i]
              \/ \E c \in Members(writes) : Deploys(c) /\ c.key = <<p, 1, i>>
        /\ \A c \in Members(writes) : Deploys(c) =>
              OwnKey(history', c.key) /\ history'[c.key[1]][c.key[3]] = c.status
    BY <1>17, <2>0 DEF DeploymentsFit
  <2>2. \A key : OwnKey(history, key) => OwnKey(history', key)
    BY <2>1 DEF OwnKey
  <2>3. ASSUME NEW key, OwnKey(history, key)
        PROVE  \/ history'[key[1]][key[3]] = history[key[1]][key[3]]
               \/ \E w \in N : Deploys(w.call) /\ w.call.key = key
    <3>1. key[1] \in PluginIds /\ key[3] \in DOMAIN history[key[1]] /\ key = <<key[1], 1, key[3]>>
      BY <2>3 DEF OwnKey
    <3>2. \/ history'[key[1]][key[3]] = history[key[1]][key[3]]
          \/ \E c \in Members(writes) : Deploys(c) /\ c.key = key
      BY <2>1, <3>1
    <3> QED  BY <1>6, <3>2
  <2>4. \A v \in W : \A w \in N : w.n > v.n
    BY <1>5, <1>6
  <2>5. \A w \in N : Deploys(w.call) =>
            OwnKey(history', w.call.key) /\ history'[w.call.key[1]][w.call.key[3]] = w.call.status
    BY <1>6, <2>1
  <2>6. \A key \in DOMAIN db["deployments"] : OwnKey(history', key)
    BY <2>0, <2>2 DEF DeploymentsAgree
  <2>7. ASSUME NEW w \in W \cup N, Deploys(w.call)
        PROVE  /\ OwnKey(history', w.call.key)
               /\ \/ \E j \in W \cup N : j.n > w.n /\ Deploys(j.call) /\ j.call.key = w.call.key
                  \/ history'[w.call.key[1]][w.call.key[3]] = w.call.status
    <3>1. CASE w \in N
      BY <2>5, <2>7, <3>1
    <3>2. CASE w \in W
      <4>1. /\ OwnKey(history, w.call.key)
            /\ \/ \E j \in W : j.n > w.n /\ Deploys(j.call) /\ j.call.key = w.call.key
               \/ history[w.call.key[1]][w.call.key[3]] = w.call.status
        BY <2>0, <2>7, <3>2 DEF DeploymentsAgree
      <4>2. \/ history'[w.call.key[1]][w.call.key[3]] = history[w.call.key[1]][w.call.key[3]]
            \/ \E v \in N : Deploys(v.call) /\ v.call.key = w.call.key
        BY <2>3, <4>1
      <4> QED  BY <2>2, <2>4, <3>2, <4>1, <4>2
    <3> QED  BY <3>1, <3>2
  <2>8. ASSUME NEW key \in DOMAIN db["deployments"], db["deployments"][key] \in Live
        PROVE  \/ \E w \in W \cup N : Deploys(w.call) /\ w.call.key = key
               \/ history'[key[1]][key[3]] = db["deployments"][key]
    <3>1. /\ OwnKey(history, key)
          /\ \/ \E w \in W : Deploys(w.call) /\ w.call.key = key
             \/ history[key[1]][key[3]] = db["deployments"][key]
      BY <2>0, <2>8 DEF DeploymentsAgree
    <3> QED  BY <2>3, <3>1
  <2> QED  BY <2>6, <2>7, <2>8 DEF DeploymentsAgree
<1>18. ASSUME life = 1, ~failed PROVE (StatusesAgree(Waiting, db, plugins) /\ DeploymentsAgree(Waiting, db, history))'
  BY <1>1, <1>4, <1>16, <1>17, <1>18
<1>19. QueueInv'
  BY <1>1, <1>4, <1>7, <1>11, <1>12, <1>13, <1>15, <1>18
<1> QED  BY <1>8, <1>19

LEMMA ConcatPlaces ==
    ASSUME NEW s, NEW t, IsSeq(s), IsSeq(t)
    PROVE  \A i \in DOMAIN (s \o t) :
              \/ i \in DOMAIN s /\ (s \o t)[i] = s[i]
              \/ i - Len(s) \in DOMAIN t /\ (s \o t)[i] = t[i - Len(s)] /\ i \in Int /\ i - Len(s) \in Int
<1> DEFINE R == Members(s) \cup Members(t)
<1>1. s \in Seq(Members(s)) /\ t \in Seq(Members(t)) /\ Len(s) \in Nat /\ Len(t) \in Nat
      /\ DOMAIN s = 1 .. Len(s) /\ DOMAIN t = 1 .. Len(t)
  BY SeqFacts
<1>2. s \in Seq(R) /\ t \in Seq(R)
  <2>1. Members(s) \subseteq R /\ Members(t) \subseteq R
    OBVIOUS
  <2> HIDE DEF R
  <2>2. \A S : S \subseteq R => Seq(S) \subseteq Seq(R)
    BY SeqMonotonic
  <2> QED  BY <1>1, <2>1, <2>2
<1> HIDE DEF R
<1>3. /\ s \o t \in Seq(R) /\ Len(s \o t) = Len(s) + Len(t)
      /\ \A i \in 1 .. Len(s) + Len(t) : (s \o t)[i] = IF i <= Len(s) THEN s[i] ELSE t[i - Len(s)]
  BY <1>2, ConcatProperties
<1>4. DOMAIN (s \o t) = 1 .. Len(s) + Len(t)
  BY <1>3
<1> TAKE i \in DOMAIN (s \o t)
<1>5. CASE i <= Len(s)
  BY <1>1, <1>3, <1>4, <1>5
<1>6. CASE i > Len(s)
  <2>1. i - Len(s) \in DOMAIN t /\ i \in Int /\ i - Len(s) \in Int
    BY <1>1, <1>4, <1>6
  <2>2. (s \o t)[i] = t[i - Len(s)]
    BY <1>1, <1>3, <1>4, <1>6
  <2> QED  BY <2>1, <2>2
<1> QED  BY <1>1, <1>4, <1>5, <1>6

(* The entries written are those the cache lacks, each under its number.    *)
LEMMA AuditWrites ==
    ASSUME NEW entries, IsSeq(entries), audits \in Nat
    PROVE  /\ IsSeq(mirrorPluginAuditLogs(entries)) /\ Len(entries) \in Nat
           /\ \A c \in Members(mirrorPluginAuditLogs(entries)) :
                 /\ c.op = "write_audit_log" /\ c.id \notin DOMAIN cache["audit"]
                 /\ c.id[3] \in Nat /\ audits < c.id[3] /\ c.id[3] <= audits + Len(entries)
           /\ \A i, j \in DOMAIN mirrorPluginAuditLogs(entries) :
                 mirrorPluginAuditLogs(entries)[i].id = mirrorPluginAuditLogs(entries)[j].id => i = j
<1> DEFINE missing == {i \in DOMAIN entries : AuditId(entries[i], audits + i) \notin DOMAIN cache.audit}
           order == InOrder(missing)
           L == [i \in DOMAIN order |-> [op |-> "write_audit_log",
                                         id |-> AuditId(entries[order[i]], audits + order[i])]]
<1>1. mirrorPluginAuditLogs(entries) = L
  BY DEF mirrorPluginAuditLogs
<1>2. DOMAIN entries = 1 .. Len(entries) /\ Len(entries) \in Nat
  BY SeqFacts
<1>3. /\ missing \in SUBSET (1 .. Len(entries))
      /\ \A i \in missing : AuditId(entries[i], audits + i) \notin DOMAIN cache["audit"]
  BY <1>2
<1>4. /\ IsSeq(order) /\ Members(order) = missing
      /\ DOMAIN order = 1 .. Len(order) /\ Len(order) \in Nat
      /\ \A i, j \in DOMAIN order : order[i] = order[j] => i = j
  <2> HIDE DEF missing
  <2> QED  BY <1>2, <1>3, InOrderIs
<1> HIDE DEF missing
<1> HIDE DEF order
<1>5. \A i \in DOMAIN order : order[i] \in missing
  BY <1>4 DEF Members
<1>6. ASSUME NEW i \in DOMAIN order
      PROVE  /\ L[i].op = "write_audit_log" /\ L[i].id \notin DOMAIN cache["audit"]
             /\ L[i].id[3] = audits + order[i] /\ order[i] \in 1 .. Len(entries)
  <2>1. L[i].op = "write_audit_log" /\ L[i].id = AuditId(entries[order[i]], audits + order[i])
    OBVIOUS
  <2>2. L[i].id[3] = audits + order[i]
    BY <2>1 DEF AuditId
  <2>3. order[i] \in missing /\ order[i] \in 1 .. Len(entries)
    BY <1>3, <1>5
  <2> QED  BY <1>3, <2>1, <2>2, <2>3
<1>7. DOMAIN L = DOMAIN order
  OBVIOUS
<1> HIDE DEF L
<1>8. IsSeq(L)
  <2>1. L \in Seq(Members(L))
    <3>1. L \in [1 .. Len(order) -> Members(L)]
      BY <1>4, <1>7 DEF Members, L
    <3> QED  BY <1>4, <3>1
  <2> QED  BY <2>1 DEF IsSeq
<1>9. ASSUME NEW c \in Members(L)
      PROVE  /\ c.op = "write_audit_log" /\ c.id \notin DOMAIN cache["audit"]
             /\ c.id[3] \in Nat /\ audits < c.id[3] /\ c.id[3] <= audits + Len(entries)
  <2>1. PICK i \in DOMAIN order : c = L[i]
    BY <1>7 DEF Members
  <2>2. PICK m : m = order[i]
    OBVIOUS
  <2>3. c.id[3] = audits + m /\ m \in 1 .. Len(entries)
    BY <1>6, <2>1, <2>2
  <2>4. c.id[3] \in Nat /\ audits < c.id[3] /\ c.id[3] <= audits + Len(entries)
    BY <1>2, <2>3
  <2> QED  BY <1>6, <2>1, <2>4
<1>10. ASSUME NEW i \in DOMAIN L, NEW j \in DOMAIN L, L[i].id = L[j].id PROVE i = j
  <2>1. audits + order[i] = audits + order[j] /\ order[i] \in 1 .. Len(entries) /\ order[j] \in 1 .. Len(entries)
    BY <1>6, <1>7, <1>10
  <2>2. order[i] = order[j]
    BY <1>2, <2>1
  <2> QED  BY <1>4, <1>7, <2>2
<1> QED  BY <1>1, <1>2, <1>8, <1>9, <1>10

(* Calls that say nothing of plugins, packages and signers.                 *)
Idle(c) == c.op \notin StatusOps \cup {"uninstall_plugin", "register_plugin_package", "revoke_package_signer"}

LEMMA IdleCalls ==
    ASSUME NEW R, NEW C, R \subseteq C, \A c \in C \ R : Idle(c), StatusesFit(R), SignersFit(R)
    PROVE  StatusesFit(C) /\ SignersFit(C)
<1>1. \A c \in C \ R : \A p : ~Sets(c, p) /\ ~Removes(c, p) /\ ~Packs(c, p) /\ ~Enables(c, p)
                              /\ c.op # "revoke_package_signer" /\ c.op # "register_plugin_package"
  BY DEF Idle, Sets, Removes, Packs, Enables
<1>2. ASSUME NEW p \in DOMAIN plugins', plugins'[p] = "disabled"
      PROVE  /\ \A c \in C : ~Enables(c, p)
             /\ \/ p \in DOMAIN plugins /\ plugins[p] = "disabled"
                \/ \E c \in C : Disables(c, p)
  <2>1. /\ \A c \in R : ~Enables(c, p)
        /\ \/ p \in DOMAIN plugins /\ plugins[p] = "disabled"
           \/ \E c \in R : Disables(c, p)
    BY <1>2 DEF StatusesFit
  <2> QED  BY <1>1, <2>1
<1>3. \A c \in C : \A p : Packs(c, p) => p \in packages'
  BY <1>1 DEF StatusesFit
<1>4. \A p \in packages \ packages' : \E c \in C : Removes(c, p)
  BY DEF StatusesFit
<1>5. \A c \in C : \A p : Sets(c, p) => p \in DOMAIN plugins' /\ plugins'[p] = c.status
  <2>1. \A c \in R : \A p : Sets(c, p) => p \in DOMAIN plugins' /\ plugins'[p] = c.status
    BY DEF StatusesFit
  <2> QED  BY <1>1, <2>1
<1>6. \A p \in DOMAIN plugins : \/ \E c \in C : About(c, p)
                                \/ p \in DOMAIN plugins' /\ plugins'[p] = plugins[p]
  <2>1. \A p \in DOMAIN plugins : \/ \E c \in R : About(c, p)
                                  \/ p \in DOMAIN plugins' /\ plugins'[p] = plugins[p]
    BY DEF StatusesFit
  <2> QED  BY <2>1
<1>7. StatusesFit(C)
  BY <1>2, <1>3, <1>4, <1>5, <1>6 DEF StatusesFit
<1>8. ASSUME NEW c \in C, c.op = "revoke_package_signer"
      PROVE  /\ c.signer \in revokedSigners'
             /\ \A b \in C : b.op # "register_plugin_package"
             /\ \A p \in packages : SignerOf[p] = c.signer => p \in DOMAIN plugins' /\ plugins'[p] = "disabled"
  <2>1. c \in R
    BY <1>1, <1>8
  <2> QED  BY <1>1, <1>8, <2>1 DEF SignersFit
<1>9. SignersFit(C)
  BY <1>8 DEF SignersFit
<1> QED  BY <1>7, <1>9

(* A call that leaves the registries' plugins alone, and says nothing of    *)
(* them, fits.                                                              *)
LEMMA StillFits ==
    ASSUME MirrorInv, UNCHANGED <<plugins, packages, revokedSigners>>
    PROVE  StatusesFit({}) /\ SignersFit({})
<1>1. plugins' = plugins /\ packages' = packages /\ revokedSigners' = revokedSigners
  OBVIOUS
<1>2. StatusesFit({})
  BY <1>1 DEF StatusesFit
<1>3. SignersKnown
  BY DEF MirrorInv, QueueInv
<1>4. SignersFit({})
  BY <1>1, <1>3 DEF SignersFit, SignersKnown
<1> QED  BY <1>2, <1>4

LEMMA NoDeployments ==
    ASSUME MirrorInv, NEW C, history' = history, \A c \in C : ~Deploys(c)
    PROVE  DeploymentsFit(C)
BY DEF DeploymentsFit

(* A call and the entries it leaves in the registry's audit.                *)
LEMMA AuditedCall ==
    ASSUME MirrorInv, NEW pre, IsSeq(pre), \A c \in Members(pre) : c.op \in Ops /\ ~Audits(c),
           NEW R, R \subseteq Members(pre), \A c \in Members(pre) \ R : Idle(c),
           StatusesFit(R), SignersFit(R), RegistersFit(pre), DeploymentsFit(Members(pre)),
           NEW entries, IsSeq(entries), Audited(pre, entries), MemoryTyped', UNCHANGED <<dbVars, cache, life>>
    PROVE  MirrorInv'
<1>0. audits \in Nat
  BY DEF MirrorInv, MemoryTyped
<1>1. PICK L : L = mirrorPluginAuditLogs(entries)
  OBVIOUS
<1>2. /\ IsSeq(L) /\ Len(entries) \in Nat
      /\ \A c \in Members(L) :
            /\ c.op = "write_audit_log" /\ c.id \notin DOMAIN cache["audit"]
            /\ c.id[3] \in Nat /\ audits < c.id[3] /\ c.id[3] <= audits + Len(entries)
      /\ \A i, j \in DOMAIN L : L[i].id = L[j].id => i = j
  BY <1>0, <1>1, AuditWrites
<1>3. PICK writes : writes = pre \o L
  OBVIOUS
<1>4. Queue(writes) /\ audits' = audits + Len(entries)
  BY <1>1, <1>3 DEF Audited
<1>5. /\ IsSeq(writes) /\ Members(writes) = Members(pre) \cup Members(L)
      /\ \A i \in DOMAIN writes :
            \/ i \in DOMAIN pre /\ writes[i] = pre[i]
            \/ i - Len(pre) \in DOMAIN L /\ writes[i] = L[i - Len(pre)] /\ i \in Int /\ i - Len(pre) \in Int
  BY <1>2, <1>3, MembersOfConcat, ConcatPlaces
<1>6. \A c \in Members(L) : Idle(c) /\ c.op \in Ops /\ ~Deploys(c)
  BY <1>2 DEF Idle, Ops, StatusOps, Deploys
<1>7. StatusesFit(Members(writes)) /\ SignersFit(Members(writes))
  <2>1. PICK C : C = Members(writes)
    OBVIOUS
  <2>2. R \subseteq C /\ \A c \in C \ R : Idle(c)
    BY <1>5, <1>6, <2>1
  <2>3. StatusesFit(C) /\ SignersFit(C)
    BY <2>2, IdleCalls
  <2> QED  BY <2>1, <2>3
<1>8. \A i \in DOMAIN L : L[i] \in Members(L)
  BY DEF Members
<1>9. RegistersFit(writes)
  <2> SUFFICES ASSUME NEW i \in DOMAIN writes, writes[i].op = "register_plugin"
               PROVE  i \in DOMAIN pre /\ writes[i] = pre[i]
    BY DEF RegistersFit
  <2>1. CASE i - Len(pre) \in DOMAIN L /\ writes[i] = L[i - Len(pre)]
    <3>1. writes[i].op = "write_audit_log"
      BY <1>2, <1>8, <2>1
    <3> QED  BY <3>1
  <2> QED  BY <1>5, <2>1
<1>10. DeploymentsFit(Members(writes))
  <2>1. \A c \in Members(writes) : Deploys(c) => c \in Members(pre)
    BY <1>5, <1>6
  <2> QED  BY <1>5, <2>1 DEF DeploymentsFit
<1>11. Fits(writes)
  BY <1>5, <1>6, <1>7, <1>9, <1>10 DEF Fits
<1>12. AuditsFollow(writes)
  <2>1. audits' \in Nat /\ audits <= audits'
    BY <1>0, <1>2, <1>4
  <2>2. \A c \in Members(writes) : Audits(c) =>
            c.id \notin DOMAIN cache["audit"] /\ c.id[3] \in Nat /\ audits < c.id[3] /\ c.id[3] <= audits'
    BY <1>2, <1>4, <1>5
  <2>3. ASSUME NEW i \in DOMAIN writes, NEW j \in DOMAIN writes,
               Audits(writes[i]), Audits(writes[j]), writes[i].id = writes[j].id
        PROVE  i = j
    <3>1. \A k \in DOMAIN writes : Audits(writes[k]) =>
              k - Len(pre) \in DOMAIN L /\ writes[k] = L[k - Len(pre)] /\ k \in Int /\ k - Len(pre) \in Int
      <4>1. \A k \in DOMAIN pre : ~Audits(pre[k])
        BY DEF Members
      <4> QED  BY <1>5, <4>1
    <3>2. i - Len(pre) = j - Len(pre) /\ i \in Int /\ j \in Int
      BY <1>2, <2>3, <3>1
    <3>3. Len(pre) \in Nat
      BY SeqFacts
    <3> QED  BY <3>2, <3>3
  <2> QED  BY <2>1, <2>2, <2>3 DEF AuditsFollow
<1> QED  BY <1>4, <1>11, <1>12, CallStep

(* A call of the manager or of the control plane leaves no entry.           *)
LEMMA QueuedCall ==
    ASSUME MirrorInv, NEW pre, IsSeq(pre), \A c \in Members(pre) : c.op \in Ops /\ ~Audits(c) /\ Idle(c),
           DeploymentsFit(Members(pre)), Queue(pre), UNCHANGED <<plugins, packages, revokedSigners, audits>>,
           MemoryTyped', UNCHANGED <<dbVars, cache, life>>
    PROVE  MirrorInv'
<1>1. StatusesFit(Members(pre)) /\ SignersFit(Members(pre))
  <2>1. StatusesFit({}) /\ SignersFit({})
    BY StillFits
  <2>2. PICK C, R : C = Members(pre) /\ R = {}
    OBVIOUS
  <2>3. StatusesFit(C) /\ SignersFit(C)
    BY <2>1, <2>2, IdleCalls
  <2> QED  BY <2>2, <2>3
<1>2. RegistersFit(pre)
  <2>1. \A i \in DOMAIN pre : pre[i].op # "register_plugin"
    BY DEF Members, Idle, StatusOps
  <2> QED  BY <2>1 DEF RegistersFit
<1>3. Fits(pre)
  BY <1>1, <1>2 DEF Fits
<1>4. AuditsFollow(pre)
  <2>1. audits \in Nat /\ audits' = audits
    BY DEF MirrorInv, MemoryTyped
  <2>2. \A i \in DOMAIN pre : ~Audits(pre[i])
    BY DEF Members
  <2> QED  BY <2>1, <2>2 DEF AuditsFollow
<1> QED  BY <1>3, <1>4, CallStep

-----------------------------------------------------------------------------
(***************************************************************************)
(* What each call queues.                                                  *)
(***************************************************************************)
LEMMA Alongside ==
    ASSUME NEW s, IsSeq(s), NEW f, f = [i \in DOMAIN s |-> f[i]]
    PROVE  IsSeq(f) /\ Members(f) = {f[i] : i \in DOMAIN s}
<1>1. DOMAIN s = 1 .. Len(s) /\ Len(s) \in Nat
  BY SeqFacts
<1>2. DOMAIN f = 1 .. Len(s) /\ f = [i \in 1 .. Len(s) |-> f[i]]
  BY <1>1
<1>3. f \in [1 .. Len(s) -> Members(f)]
  BY <1>2 DEF Members
<1>4. f \in Seq(Members(f))
  BY <1>1, <1>3
<1> QED  BY <1>1, <1>2, <1>4 DEF IsSeq, Members

LEMMA SetToSeqIs ==
    ASSUME NEW S, IsFiniteSet(S)
    PROVE  IsSeq(SetToSeq(S)) /\ Members(SetToSeq(S)) = S
<1> DEFINE f == SetToSeq(S)
           c == Cardinality(S)
<1>1. c \in Nat /\ IsFiniteSet(1 .. c) /\ Cardinality(1 .. c) = c
  <2>1. c \in Nat
    BY FS_CardinalityType
  <2> HIDE DEF c
  <2>2. IsFiniteSet(1 .. c) /\ Cardinality(1 .. c) = c
    BY <2>1, FS_Interval
  <2> QED  BY <2>1, <2>2
<1>2. \E g \in [1 .. c -> S] : IsInjective(g)
  <2>1. ExistsBijection(1 .. c, S)
    <3>1. Cardinality(1 .. c) = Cardinality(S)
      BY <1>1 DEF c
    <3> HIDE DEF c
    <3> QED  BY <1>1, <3>1, FS_SameCardinalityBij
  <2> HIDE DEF c
  <2> QED  BY <2>1 DEF ExistsBijection, Bijection, Injection
<1>3. f \in [1 .. c -> S] /\ IsInjective(f)
  BY <1>2 DEF SetToSeq
<1> HIDE DEF f
<1>4. f \in Surjection(1 .. c, S)
  <2>1. f \in Injection(1 .. c, S)
    BY <1>3 DEF Injection
  <2>2. Cardinality(1 .. c) = Cardinality(S)
    BY <1>1 DEF c
  <2> HIDE DEF c
  <2> QED  BY <1>1, <2>1, <2>2, FS_Injection
<1> HIDE DEF c
<1>5. f \in Seq(S) /\ DOMAIN f = 1 .. c
  BY <1>1, <1>3
<1>6. Members(f) = S
  BY <1>3, <1>4, <1>5 DEF Members, Surjection
<1> QED  BY <1>5, <1>6 DEF IsSeq, f

(* Every deployment the manager changed is written as it is now.            *)
LEMMA DeploymentWrites ==
    ASSUME MirrorInv, NEW p \in PluginIds, NEW records, IsSeq(records), Len(history[p]) <= Len(records),
           history' = [history EXCEPT ![p] = records]
    PROVE  /\ IsSeq(mirrorDeployment(p, records))
           /\ \A c \in Members(mirrorDeployment(p, records)) : c.op = "upsert_plugin_deployment"
           /\ \A C : /\ Members(mirrorDeployment(p, records)) \subseteq C
                     /\ \A c \in C : Deploys(c) => c \in Members(mirrorDeployment(p, records))
                     => DeploymentsFit(C)
           /\ history' = [q \in PluginIds |-> history'[q]] /\ \A q \in PluginIds : IsSeq(history'[q])
<1> DEFINE changed == {i \in DOMAIN records : i > Len(history[p]) \/ history[p][i] # records[i]}
           order == InOrder(changed)
           L == [i \in DOMAIN order |-> [op |-> "upsert_plugin_deployment",
                                         key |-> DeploymentKey(p, order[i]), status |-> records[order[i]]]]
<1>1. mirrorDeployment(p, records) = L
  BY DEF mirrorDeployment
<1>2. history = [q \in PluginIds |-> history[q]] /\ \A q \in PluginIds : IsSeq(history[q])
  BY DEF MirrorInv, MemoryTyped
<1>3. /\ history' = [q \in PluginIds |-> history'[q]]
      /\ history'[p] = records /\ \A q \in PluginIds \ {p} : history'[q] = history[q]
  BY <1>2
<1>4. DOMAIN records = 1 .. Len(records) /\ Len(records) \in Nat
  BY SeqFacts
<1>5. DOMAIN history[p] = 1 .. Len(history[p]) /\ Len(history[p]) \in Nat
  BY <1>2, SeqFacts
<1>6. \A q \in PluginIds : IsSeq(history'[q])
  BY <1>2, <1>3
<1>7. changed \in SUBSET (1 .. Len(records)) /\ changed \subseteq DOMAIN records
  BY <1>4
<1>8. \A i \in DOMAIN history[p] : i \in DOMAIN records /\ (i \in changed \/ records[i] = history[p][i])
  BY <1>4, <1>5
<1>9. IsSeq(order) /\ Members(order) = changed
  <2> HIDE DEF changed
  <2> QED  BY <1>4, <1>7, InOrderIs
<1> HIDE DEF changed
<1> HIDE DEF order
<1>10. \A i \in DOMAIN order : L[i].op = "upsert_plugin_deployment"
                                /\ L[i].key = <<p, life, order[i]>> /\ L[i].status = records[order[i]]
  BY DEF DeploymentKey
<1>11. L = [i \in DOMAIN order |-> L[i]]
  OBVIOUS
<1> HIDE DEF L
<1>12. IsSeq(L) /\ Members(L) = {L[i] : i \in DOMAIN order}
  BY <1>9, <1>11, Alongside
<1>13. \A c \in Members(L) : c.op = "upsert_plugin_deployment"
  BY <1>10, <1>12
<1>14. ASSUME NEW c \in Members(L), life = 1
       PROVE  OwnKey(history', c.key) /\ history'[c.key[1]][c.key[3]] = c.status
  <2>1. PICK i \in DOMAIN order : c = L[i]
    BY <1>12
  <2>2. order[i] \in DOMAIN records
    BY <1>7, <1>9 DEF Members
  <2>3. c.key = <<p, 1, order[i]>> /\ c.status = records[order[i]]
    BY <1>10, <1>14, <2>1
  <2>4. c.key[1] = p /\ c.key[3] = order[i]
    BY <2>3
  <2>5. OwnKey(history', c.key)
    BY <1>3, <2>2, <2>3, <2>4 DEF OwnKey
  <2> QED  BY <1>3, <2>3, <2>4, <2>5
<1>15. ASSUME NEW i \in changed, life = 1
       PROVE  \E c \in Members(L) : Deploys(c) /\ c.key = <<p, 1, i>>
  <2>1. PICK j \in DOMAIN order : order[j] = i
    BY <1>9 DEF Members
  <2>2. L[j] \in Members(L) /\ L[j].key = <<p, 1, i>> /\ Deploys(L[j])
    BY <1>10, <1>12, <1>15, <2>1 DEF Deploys
  <2> QED  BY <2>2
<1>16. ASSUME NEW C, Members(L) \subseteq C, \A c \in C : Deploys(c) => c \in Members(L)
       PROVE  DeploymentsFit(C)
  <2> SUFFICES ASSUME life = 1
               PROVE  /\ \A q \in PluginIds : DOMAIN history[q] \subseteq DOMAIN history'[q]
                      /\ \A q \in PluginIds : \A i \in DOMAIN history[q] :
                            \/ history'[q][i] = history[q][i]
                            \/ \E c \in C : Deploys(c) /\ c.key = <<q, 1, i>>
                      /\ \A c \in C : Deploys(c) =>
                            OwnKey(history', c.key) /\ history'[c.key[1]][c.key[3]] = c.status
    BY DEF DeploymentsFit
  <2>1. ASSUME NEW q \in PluginIds PROVE DOMAIN history[q] \subseteq DOMAIN history'[q]
    BY <1>3, <1>8
  <2>2. ASSUME NEW q \in PluginIds, NEW i \in DOMAIN history[q]
        PROVE  \/ history'[q][i] = history[q][i]
               \/ \E c \in C : Deploys(c) /\ c.key = <<q, 1, i>>
    <3>1. CASE q # p
      BY <1>3, <3>1
    <3>2. CASE q = p
      <4>1. i \in changed \/ history'[q][i] = history[q][i]
        BY <1>3, <1>8, <3>2
      <4> QED  BY <1>15, <1>16, <3>2, <4>1
    <3> QED  BY <3>1, <3>2
  <2>3. \A c \in C : Deploys(c) => OwnKey(history', c.key) /\ history'[c.key[1]][c.key[3]] = c.status
    BY <1>14, <1>16
  <2> QED  BY <2>1, <2>2, <2>3
<1> QED  BY <1>1, <1>3, <1>6, <1>12, <1>13, <1>16

LEMMA KilledIs ==
    ASSUME MirrorInv, NEW p \in PluginIds
    PROVE  IsSeq(KilledOf(p)) /\ Len(history[p]) <= Len(KilledOf(p))
<1>1. IsSeq(history[p])
  BY DEF MirrorInv, MemoryTyped
<1>2. DOMAIN history[p] = 1 .. Len(history[p]) /\ Len(history[p]) \in Nat
  BY <1>1, SeqFacts
<1>3. KilledOf(p) = [i \in DOMAIN history[p] |-> KilledOf(p)[i]]
  BY DEF KilledOf
<1>4. IsSeq(KilledOf(p))
  BY <1>1, <1>3, Alongside
<1>5. DOMAIN KilledOf(p) = DOMAIN history[p]
  BY <1>3
<1>6. DOMAIN KilledOf(p) = 1 .. Len(KilledOf(p)) /\ Len(KilledOf(p)) \in Nat
  BY <1>4, SeqFacts
<1> QED  BY <1>2, <1>4, <1>5, <1>6

(* A call of the manager: the bundle's writes, and the deployments changed. *)
LEMMA ManagerCall ==
    ASSUME MirrorInv, NEW p \in PluginIds, NEW records, IsSeq(records), Len(history[p]) <= Len(records),
           history' = [history EXCEPT ![p] = records], NEW pre, IsSeq(pre),
           \A c \in Members(pre) : c.op \in Ops /\ Idle(c) /\ ~Audits(c) /\ ~Deploys(c),
           Queue(pre \o mirrorDeployment(p, records)),
           UNCHANGED <<plugins, packages, revokedSigners, audits, dbVars, cache, life>>
    PROVE  MirrorInv'
<1>0. UNCHANGED <<plugins, packages, revokedSigners, audits>> /\ UNCHANGED <<dbVars, cache, life>>
  OBVIOUS
<1>1. PICK L, writes : L = mirrorDeployment(p, records) /\ writes = pre \o L
  OBVIOUS
<1>2. /\ IsSeq(L) /\ \A c \in Members(L) : c.op = "upsert_plugin_deployment"
      /\ \A C : Members(L) \subseteq C /\ (\A c \in C : Deploys(c) => c \in Members(L)) => DeploymentsFit(C)
      /\ history' = [q \in PluginIds |-> history'[q]] /\ \A q \in PluginIds : IsSeq(history'[q])
  BY <1>1, DeploymentWrites
<1>3. IsSeq(writes) /\ Members(writes) = Members(pre) \cup Members(L)
  BY <1>1, <1>2, MembersOfConcat
<1>4. \A c \in Members(writes) : c.op \in Ops /\ ~Audits(c) /\ Idle(c)
  BY <1>2, <1>3 DEF Ops, StatusOps, Audits, Idle
<1>5. DeploymentsFit(Members(writes))
  <2>1. PICK C : C = Members(writes)
    OBVIOUS
  <2>2. Members(L) \subseteq C /\ \A c \in C : Deploys(c) => c \in Members(L)
    BY <1>3, <2>1
  <2> QED  BY <1>2, <2>1, <2>2
<1>6. MemoryTyped'
  <2>1. MemoryTyped
    BY DEF MirrorInv
  <2> QED  BY <1>0, <1>2, <2>1 DEF MemoryTyped
<1> QED  BY <1>0, <1>1, <1>3, <1>4, <1>5, <1>6, QueuedCall

LEMMA DeployedStep ==
    ASSUME MirrorInv, NEW p \in PluginIds, NEW records, IsSeq(records), Len(history[p]) <= Len(records),
           history' = [history EXCEPT ![p] = records], Queue(mirrorDeployment(p, records)),
           UNCHANGED <<plugins, packages, revokedSigners, audits, dbVars, cache, life>>
    PROVE  MirrorInv'
<1>1. IsSeq(<<>>) /\ Members(<<>>) = {}
  BY MembersOfFew
<1>2. PICK L : L = mirrorDeployment(p, records)
  OBVIOUS
<1>3. <<>> \o L = L
  <2>1. IsSeq(L)
    BY <1>2, DeploymentWrites
  <2>2. L \in Seq(Members(L))
    BY <2>1, SeqFacts
  <2> QED  BY <2>2, ConcatEmptySeq
<1>4. Queue(<<>> \o mirrorDeployment(p, records))
  BY <1>2, <1>3
<1>5. PICK pre : pre = <<>>
  OBVIOUS
<1> QED  BY <1>1, <1>4, <1>5, ManagerCall

LEMMA ConfigStep == MirrorInv /\ setConfig => MirrorInv'
<1> SUFFICES ASSUME MirrorInv, setConfig PROVE MirrorInv'
  OBVIOUS
<1>1. PICK w, pre : w = [op |-> "set_runtime_config", version |-> config + 1] /\ pre = <<w>>
  OBVIOUS
<1>2. /\ Queue(pre) /\ history' = history
      /\ UNCHANGED <<plugins, packages, revokedSigners, audits>> /\ UNCHANGED <<dbVars, cache, life>>
  BY <1>1 DEF setConfig
<1>3. IsSeq(pre) /\ Members(pre) = {w} /\ w.op = "set_runtime_config"
  BY <1>1, MembersOfFew
<1>4. \A c \in Members(pre) : c.op \in Ops /\ ~Audits(c) /\ Idle(c) /\ ~Deploys(c)
  BY <1>3 DEF Ops, StatusOps, Audits, Idle, Deploys
<1>5. DeploymentsFit(Members(pre))
  <2>1. PICK C : C = Members(pre)
    OBVIOUS
  <2> QED  BY <1>2, <1>4, <2>1, NoDeployments
<1>6. MemoryTyped'
  BY <1>2 DEF MirrorInv, MemoryTyped
<1> QED  BY <1>2, <1>3, <1>4, <1>5, <1>6, QueuedCall

LEMMA BundleSteps ==
    ASSUME MirrorInv, NEW p \in PluginIds
    PROVE  /\ registerPluginBundle(p) => MirrorInv'
           /\ revokePluginBundle(p) => MirrorInv'
           /\ killPlugin(p) => MirrorInv'
<1>1. ASSUME registerPluginBundle(p) PROVE MirrorInv'
  <2>1. PICK v, w, pre : /\ v = Write("register_plugin_bundle", p) /\ w = Write("upsert_plugin_capability", p)
                         /\ pre = <<v, w>>
    OBVIOUS
  <2>2. /\ Queue(pre) /\ history' = history
        /\ UNCHANGED <<plugins, packages, revokedSigners, audits>> /\ UNCHANGED <<dbVars, cache, life>>
    BY <1>1, <2>1 DEF registerPluginBundle
  <2>3. /\ IsSeq(pre) /\ Members(pre) = {v, w}
        /\ v.op = "register_plugin_bundle" /\ w.op = "upsert_plugin_capability"
    BY <2>1, MembersOfFew DEF Write
  <2>4. \A c \in Members(pre) : c.op \in Ops /\ ~Audits(c) /\ Idle(c) /\ ~Deploys(c)
    BY <2>3 DEF Ops, StatusOps, Audits, Idle, Deploys
  <2>5. DeploymentsFit(Members(pre))
    <3>1. PICK C : C = Members(pre)
      OBVIOUS
    <3> QED  BY <2>2, <2>4, <3>1, NoDeployments
  <2>6. MemoryTyped'
    BY <2>2 DEF MirrorInv, MemoryTyped
  <2> QED  BY <2>2, <2>3, <2>4, <2>5, <2>6, QueuedCall
<1>2. PICK records : records = KilledOf(p)
  OBVIOUS
<1>3. IsSeq(records) /\ Len(history[p]) <= Len(records)
  BY <1>2, KilledIs
<1>4. ASSUME revokePluginBundle(p) PROVE MirrorInv'
  <2>1. PICK w, pre : w = Write("revoke_plugin_bundle", p) /\ pre = <<w>>
    OBVIOUS
  <2>2. /\ history' = [history EXCEPT ![p] = records]
        /\ Queue(pre \o mirrorDeployment(p, records))
        /\ UNCHANGED <<plugins, packages, revokedSigners, audits, dbVars, cache, life>>
    BY <1>2, <1>4, <2>1 DEF revokePluginBundle
  <2>3. IsSeq(pre) /\ Members(pre) = {w} /\ w.op = "revoke_plugin_bundle"
    BY <2>1, MembersOfFew DEF Write
  <2>4. \A c \in Members(pre) : c.op \in Ops /\ Idle(c) /\ ~Audits(c) /\ ~Deploys(c)
    BY <2>3 DEF Ops, StatusOps, Audits, Idle, Deploys
  <2> QED  BY <1>3, <2>2, <2>3, <2>4, ManagerCall
<1>5. ASSUME killPlugin(p) PROVE MirrorInv'
  <2>1. /\ history' = [history EXCEPT ![p] = records] /\ Queue(mirrorDeployment(p, records))
        /\ UNCHANGED <<plugins, packages, revokedSigners, audits, dbVars, cache, life>>
    BY <1>2, <1>5 DEF killPlugin
  <2> QED  BY <1>3, <2>1, DeployedStep
<1> QED  BY <1>1, <1>4, <1>5

LEMMA DeploymentSteps ==
    ASSUME MirrorInv, NEW p \in PluginIds
    PROVE  /\ requestPluginDeployment(p) => MirrorInv'
           /\ \A i \in DOMAIN history[p] : approvePluginDeployment(p, i) => MirrorInv'
           /\ \A i \in DOMAIN history[p] : rollbackPluginDeployment(p, i) => MirrorInv'
           /\ \A i \in DOMAIN history[p] : failPluginDeployment(p, i) => MirrorInv'
<1>1. PICK h : h = history[p]
  OBVIOUS
<1>2. IsSeq(h) /\ DOMAIN h = 1 .. Len(h) /\ Len(h) \in Nat
  <2>1. IsSeq(h)
    BY <1>1 DEF MirrorInv, MemoryTyped
  <2> QED  BY <2>1, SeqFacts
<1>3. ASSUME NEW records, IsSeq(records), Len(h) <= Len(records), Deployed(p, records)
      PROVE  MirrorInv'
  <2>1. /\ history' = [history EXCEPT ![p] = records] /\ Queue(mirrorDeployment(p, records))
        /\ UNCHANGED <<plugins, packages, revokedSigners, audits, dbVars, cache, life>>
    BY <1>3 DEF Deployed
  <2> QED  BY <1>1, <1>3, <2>1, DeployedStep
<1>4. ASSUME NEW s, s = [i \in DOMAIN h |-> s[i]]
      PROVE  IsSeq(s) /\ Len(h) <= Len(s)
             /\ \A x : IsSeq(Append(s, x)) /\ Len(h) <= Len(Append(s, x))
  <2>1. IsSeq(s)
    BY <1>2, <1>4, Alongside
  <2>2. DOMAIN s = DOMAIN h
    BY <1>4
  <2>3. DOMAIN s = 1 .. Len(s) /\ Len(s) \in Nat
    BY <2>1, SeqFacts
  <2>4. Len(h) = Len(s)
    BY <1>2, <2>2, <2>3
  <2>5. ASSUME NEW x PROVE IsSeq(Append(s, x)) /\ Len(Append(s, x)) = Len(s) + 1
    BY <2>1, MembersOfAppend
  <2> QED  BY <2>1, <2>3, <2>4, <2>5
<1>5. ASSUME requestPluginDeployment(p) PROVE MirrorInv'
  <2>1. PICK records : records = Append(h, "pending")
    OBVIOUS
  <2>2. Deployed(p, records)
    BY <1>1, <1>5, <2>1 DEF requestPluginDeployment
  <2>3. h = [i \in DOMAIN h |-> h[i]]
    <3>1. h \in Seq(Members(h))
      BY <1>2, SeqFacts
    <3> QED  BY <3>1
  <2>4. IsSeq(records) /\ Len(h) <= Len(records)
    BY <1>4, <2>1, <2>3
  <2> QED  BY <1>3, <2>2, <2>4
<1>6. ASSUME NEW i \in DOMAIN history[p], approvePluginDeployment(p, i) PROVE MirrorInv'
  <2>1. PICK records : records = [j \in DOMAIN h |->
                                   IF j = i THEN "active" ELSE IF h[j] = "active" THEN "rolled_back" ELSE h[j]]
    OBVIOUS
  <2>2. Deployed(p, records)
    BY <1>1, <1>6, <2>1 DEF approvePluginDeployment
  <2>3. IsSeq(records) /\ Len(h) <= Len(records)
    <3>1. records = [j \in DOMAIN h |-> records[j]]
      BY <2>1
    <3> QED  BY <1>4, <3>1
  <2> QED  BY <1>3, <2>2, <2>3
<1>7. ASSUME NEW i \in DOMAIN history[p], NEW status
      PROVE  /\ IsSeq(With(h, i, status)) /\ Len(h) <= Len(With(h, i, status))
             /\ \A x : /\ IsSeq(Append(With(h, i, status), x))
                       /\ Len(h) <= Len(Append(With(h, i, status), x))
  <2>1. PICK s : s = With(h, i, status)
    OBVIOUS
  <2>2. s = [j \in DOMAIN h |-> s[j]]
    BY <2>1 DEF With
  <2> QED  BY <1>4, <2>1, <2>2
<1>8. ASSUME NEW i \in DOMAIN history[p], rollbackPluginDeployment(p, i) PROVE MirrorInv'
  <2>1. PICK records : records = Append(With(h, i, "rolled_back"), "active")
    OBVIOUS
  <2>2. Deployed(p, records)
    BY <1>1, <1>8, <2>1 DEF rollbackPluginDeployment
  <2>3. IsSeq(records) /\ Len(h) <= Len(records)
    BY <1>7, <2>1
  <2> QED  BY <1>3, <2>2, <2>3
<1>9. ASSUME NEW i \in DOMAIN history[p], failPluginDeployment(p, i) PROVE MirrorInv'
  <2>1. PICK r, s : r = With(h, i, "failed") /\ s = Append(With(h, i, "failed"), "active")
    OBVIOUS
  <2>2. Deployed(p, r) \/ Deployed(p, s)
    BY <1>1, <1>9, <2>1 DEF failPluginDeployment
  <2>3. IsSeq(r) /\ Len(h) <= Len(r) /\ IsSeq(s) /\ Len(h) <= Len(s)
    BY <1>7, <2>1
  <2> QED  BY <1>3, <2>2, <2>3
<1> QED  BY <1>5, <1>6, <1>8, <1>9

(* What a call leaves in memory, and in the audit, has its shape.           *)
LEMMA MemoryKeeps ==
    ASSUME MirrorInv, NEW entries, IsSeq(entries), audits' = audits + Len(entries),
           IsFiniteSet(DOMAIN plugins'), \A p \in DOMAIN plugins' : plugins'[p] \in Statuses,
           packages' \subseteq DOMAIN plugins', history' = history
    PROVE  MemoryTyped'
<1>1. audits' \in Nat
  <2>1. Len(entries) \in Nat
    BY SeqFacts
  <2> QED  BY <2>1 DEF MirrorInv, MemoryTyped
<1> QED  BY <1>1 DEF MirrorInv, MemoryTyped

LEMMA HookWrites ==
    ASSUME NEW p, NEW status
    PROVE  /\ IsSeq(mirrorPluginHooks(p, status))
           /\ \A c \in Members(mirrorPluginHooks(p, status)) : c.op = "register_plugin_hook"
<1>1. PICK w : w = Write("register_plugin_hook", p)
  OBVIOUS
<1>2. w.op = "register_plugin_hook"
  BY <1>1 DEF Write
<1>3. IsSeq(<<>>) /\ Members(<<>>) = {} /\ IsSeq(<<w>>) /\ Members(<<w>>) = {w}
  BY MembersOfFew
<1>4. mirrorPluginHooks(p, status) = <<w>> \/ mirrorPluginHooks(p, status) = <<>>
  BY <1>1 DEF mirrorPluginHooks
<1> QED  BY <1>2, <1>3, <1>4

(* Installing keeps a plugin's status; a package comes of a signer neither  *)
(* the registry nor the cache has as revoked.                               *)
LEMMA InstallFits ==
    ASSUME MirrorInv, NEW p \in PluginIds, plugins' = Put(plugins, p, StatusOf(p)),
           revokedSigners' = revokedSigners,
           \/ packages' = packages
           \/ packages' = packages \cup {p} /\ SignerOf[p] \notin revokedSigners \cup DOMAIN cache["revocations"],
           NEW C, \A c \in C : \/ c = RegisterWrite(p, StatusOf(p))
                               \/ c = Write("register_plugin_package", p) /\ p \in packages'
    PROVE  /\ StatusesFit(C) /\ SignersFit(C)
           /\ IsFiniteSet(DOMAIN plugins') /\ \A q \in DOMAIN plugins' : plugins'[q] \in Statuses
           /\ packages' \subseteq DOMAIN plugins'
<1>1. MemoryTyped /\ SignersKnown
  BY DEF MirrorInv, QueueInv
<1>2. PICK s : s = StatusOf(p)
  OBVIOUS
<1>3. /\ DOMAIN plugins' = DOMAIN plugins \cup {p} /\ plugins'[p] = s
      /\ \A q \in DOMAIN plugins : plugins'[q] = plugins[q]
      /\ s \in Statuses /\ (s # "installed" => p \in DOMAIN plugins /\ plugins[p] = s)
  BY <1>1, <1>2 DEF Put, StatusOf, MemoryTyped, Statuses
<1>4. \A c \in C : \/ c.op = "register_plugin" /\ c.plugin = p /\ c.status = s
                   \/ c.op = "register_plugin_package" /\ c.plugin = p /\ p \in packages'
  BY <1>2 DEF RegisterWrite, Write
<1>5. ASSUME NEW q \in DOMAIN plugins', plugins'[q] = "disabled"
      PROVE  (\A c \in C : ~Enables(c, q)) /\ q \in DOMAIN plugins /\ plugins[q] = "disabled"
  <2>1. q \in DOMAIN plugins /\ plugins[q] = "disabled"
    BY <1>3, <1>5
  <2>2. \A c \in C : Sets(c, q) => c.status = "disabled"
    BY <1>3, <1>4, <1>5 DEF Sets, StatusOps
  <2> QED  BY <2>1, <2>2 DEF Enables
<1>6. StatusesFit(C)
  <2>1. \A c \in C : \A q : Packs(c, q) => q \in packages'
    BY <1>4 DEF Packs
  <2>2. \A c \in C : \A q : Sets(c, q) => q \in DOMAIN plugins' /\ plugins'[q] = c.status
    BY <1>3, <1>4 DEF Sets, StatusOps
  <2>3. packages \subseteq packages'
    OBVIOUS
  <2> QED  BY <1>3, <1>5, <2>1, <2>2, <2>3 DEF StatusesFit
<1>7. SignersFit(C)
  <2>1. \A c \in C : c.op # "revoke_package_signer"
    BY <1>4
  <2>2. ASSUME NEW q \in packages'
        PROVE  /\ SignerOf[q] \in DOMAIN cache["revocations"] => SignerOf[q] \in revokedSigners
               /\ SignerOf[q] \in revokedSigners => plugins'[q] = "disabled"
    <3>1. CASE q \in packages
      <4>1. q \in DOMAIN plugins
        BY <1>1, <3>1 DEF MemoryTyped
      <4> QED  BY <1>1, <1>3, <3>1, <4>1 DEF SignersKnown
    <3>2. CASE q \notin packages
      BY <2>2, <3>2
    <3> QED  BY <3>1, <3>2
  <2> QED  BY <2>1, <2>2 DEF SignersFit
<1>8. IsFiniteSet(DOMAIN plugins')
  <2>1. IsFiniteSet(DOMAIN plugins \cup {p})
    BY <1>1, FS_AddElement DEF MemoryTyped
  <2> QED  BY <1>3, <2>1
<1>9. \A q \in DOMAIN plugins' : plugins'[q] \in Statuses
  BY <1>1, <1>3 DEF MemoryTyped
<1>10. packages' \subseteq DOMAIN plugins'
  BY <1>1, <1>3 DEF MemoryTyped
<1> QED  BY <1>6, <1>7, <1>8, <1>9, <1>10

(* A plugin whose package is of a signer known to be revoked is disabled.   *)
LEMMA RegisterFits ==
    ASSUME MirrorInv, NEW p, NEW writes,
           \A i \in DOMAIN writes : writes[i].op = "register_plugin" =>
              i = 1 /\ writes[i].plugin = p /\ writes[i].status = StatusOf(p),
           p \in DOMAIN cache["plugins"] => SignerOf[p] \notin revokedSigners \cup DOMAIN cache["revocations"]
    PROVE  RegistersFit(writes)
<1>1. SignersKnown
  BY DEF MirrorInv, QueueInv
<1>2. StatusOf(p) \in {"disabled", "active"} => p \in DOMAIN plugins /\ plugins[p] = StatusOf(p)
  BY DEF StatusOf
<1>3. StatusOf(p) = "active" /\ (p \in packages \/ p \in DOMAIN cache["plugins"]) =>
          SignerOf[p] \notin revokedSigners \cup DOMAIN cache["revocations"]
  BY <1>1, <1>2 DEF SignersKnown
<1> QED  BY <1>2, <1>3 DEF RegistersFit

LEMMA InstallStep ==
    ASSUME MirrorInv, NEW p \in PluginIds, installPlugin(p)
    PROVE  MirrorInv'
<1>1. PICK e, entries, w, a, b, pre :
          /\ e = <<"install", p>> /\ entries = <<e>>
          /\ w = RegisterWrite(p, StatusOf(p))
          /\ a = (IF p \in DOMAIN cache.plugins THEN <<>> ELSE <<w>>)
          /\ b = mirrorPluginHooks(p, StatusOf(p)) /\ pre = a \o b
  OBVIOUS
<1>2. /\ plugins' = Put(plugins, p, StatusOf(p)) /\ Audited(pre, entries)
      /\ packages' = packages /\ revokedSigners' = revokedSigners /\ history' = history
      /\ UNCHANGED <<dbVars, cache, life>>
  BY <1>1 DEF installPlugin
<1>3. IsSeq(entries)
  BY <1>1, MembersOfFew
<1>4. w.op = "register_plugin" /\ w.plugin = p /\ w.status = StatusOf(p)
  BY <1>1 DEF RegisterWrite
<1>5. /\ IsSeq(<<>>) /\ Members(<<>>) = {} /\ IsSeq(<<w>>) /\ Members(<<w>>) = {w} /\ Len(<<w>>) = 1
      /\ DOMAIN <<w>> = {1} /\ <<w>>[1] = w
  <2>1. /\ IsSeq(<<>>) /\ Members(<<>>) = {} /\ IsSeq(<<w>>) /\ Members(<<w>>) = {w} /\ Len(<<w>>) = 1
    BY MembersOfFew
  <2>2. DOMAIN <<w>> = {1} /\ <<w>>[1] = w
    OBVIOUS
  <2> QED  BY <2>1, <2>2
<1>6. IsSeq(a) /\ Members(a) \subseteq {w} /\ \A i \in DOMAIN a : i = 1
  BY <1>1, <1>5
<1>7. IsSeq(b) /\ \A c \in Members(b) : c.op = "register_plugin_hook"
  BY <1>1, HookWrites
<1>8. /\ IsSeq(pre) /\ Members(pre) = Members(a) \cup Members(b)
      /\ \A i \in DOMAIN pre : \/ i \in DOMAIN a /\ pre[i] = a[i]
                               \/ i - Len(a) \in DOMAIN b /\ pre[i] = b[i - Len(a)]
  <2>1. IsSeq(pre) /\ Members(pre) = Members(a) \cup Members(b)
    BY <1>1, <1>6, <1>7, MembersOfConcat
  <2>2. \A i \in DOMAIN (a \o b) :
            \/ i \in DOMAIN a /\ (a \o b)[i] = a[i]
            \/ i - Len(a) \in DOMAIN b /\ (a \o b)[i] = b[i - Len(a)] /\ i \in Int /\ i - Len(a) \in Int
    BY <1>6, <1>7, ConcatPlaces
  <2> QED  BY <1>1, <2>1, <2>2
<1>9. \A c \in Members(pre) : c.op \in Ops /\ ~Audits(c) /\ ~Deploys(c)
  BY <1>4, <1>6, <1>7, <1>8 DEF Ops, StatusOps, Audits, Deploys
<1>10. PICK R : R = Members(a)
  OBVIOUS
<1>11. R \subseteq Members(pre) /\ \A c \in Members(pre) \ R : Idle(c)
  BY <1>7, <1>8, <1>10 DEF Idle, StatusOps
<1>12. /\ StatusesFit(R) /\ SignersFit(R)
       /\ IsFiniteSet(DOMAIN plugins') /\ \A q \in DOMAIN plugins' : plugins'[q] \in Statuses
       /\ packages' \subseteq DOMAIN plugins'
  <2>1. \A c \in R : c = RegisterWrite(p, StatusOf(p))
    BY <1>1, <1>6, <1>10
  <2> QED  BY <1>2, <2>1, InstallFits
<1>13. RegistersFit(pre)
  <2>1. CASE p \in DOMAIN cache["plugins"]
    <3>1. \A c \in Members(pre) : c.op # "register_plugin"
      BY <1>1, <1>5, <1>7, <1>8, <2>1
    <3>2. \A i \in DOMAIN pre : pre[i].op # "register_plugin"
      BY <3>1 DEF Members
    <3> QED  BY <3>2 DEF RegistersFit
  <2>2. CASE p \notin DOMAIN cache["plugins"]
    <3>1. ASSUME NEW i \in DOMAIN pre, pre[i].op = "register_plugin"
          PROVE  i = 1 /\ pre[i].plugin = p /\ pre[i].status = StatusOf(p)
      <4>1. \A j \in DOMAIN b : b[j].op = "register_plugin_hook"
        BY <1>7 DEF Members
      <4>2. i \in DOMAIN a /\ pre[i] = a[i]
        BY <1>8, <3>1, <4>1
      <4>3. a[i] \in Members(a)
        BY <4>2 DEF Members
      <4> QED  BY <1>4, <1>6, <4>2, <4>3
    <3> QED  BY <2>2, <3>1, RegisterFits
  <2> QED  BY <2>1, <2>2
<1>14. DeploymentsFit(Members(pre))
  <2>1. PICK C : C = Members(pre)
    OBVIOUS
  <2> QED  BY <1>2, <1>9, <2>1, NoDeployments
<1>15. MemoryTyped'
  <2>1. audits' = audits + Len(entries)
    BY <1>2 DEF Audited
  <2> QED  BY <1>2, <1>3, <1>12, <2>1, MemoryKeeps
<1> QED  BY <1>2, <1>3, <1>8, <1>9, <1>11, <1>12, <1>13, <1>14, <1>15, AuditedCall

LEMMA PackageStep ==
    ASSUME MirrorInv, NEW p \in PluginIds, installPluginPackage(p)
    PROVE  MirrorInv'
<1>1. PICK e, entries, v, w, a, b, pre :
          /\ e = <<"package_install", p>> /\ entries = <<e>>
          /\ v = RegisterWrite(p, StatusOf(p)) /\ w = Write("register_plugin_package", p)
          /\ a = <<v, w>> /\ b = mirrorPluginHooks(p, StatusOf(p)) /\ pre = a \o b
  OBVIOUS
<1>2. /\ plugins' = Put(plugins, p, StatusOf(p)) /\ Audited(pre, entries)
      /\ packages' = packages \cup {p} /\ revokedSigners' = revokedSigners /\ history' = history
      /\ SignerOf[p] \notin revokedSigners \cup DOMAIN cache["revocations"]
      /\ UNCHANGED <<dbVars, cache, life>>
  BY <1>1 DEF installPluginPackage, assertPackageSignerNotRevoked
<1>3. IsSeq(entries)
  BY <1>1, MembersOfFew
<1>4. /\ v.op = "register_plugin" /\ v.plugin = p /\ v.status = StatusOf(p)
      /\ w.op = "register_plugin_package"
  BY <1>1 DEF RegisterWrite, Write
<1>5. IsSeq(a) /\ Members(a) = {v, w}
  BY <1>1, MembersOfFew
<1>6. DOMAIN a = {1, 2} /\ a[1] = v /\ a[2] = w
  BY <1>1
<1>7. IsSeq(b) /\ \A c \in Members(b) : c.op = "register_plugin_hook"
  BY <1>1, HookWrites
<1>8. /\ IsSeq(pre) /\ Members(pre) = Members(a) \cup Members(b)
      /\ \A i \in DOMAIN pre : \/ i \in DOMAIN a /\ pre[i] = a[i]
                               \/ i - Len(a) \in DOMAIN b /\ pre[i] = b[i - Len(a)]
  <2>1. IsSeq(pre) /\ Members(pre) = Members(a) \cup Members(b)
    BY <1>1, <1>5, <1>7, MembersOfConcat
  <2>2. \A i \in DOMAIN (a \o b) :
            \/ i \in DOMAIN a /\ (a \o b)[i] = a[i]
            \/ i - Len(a) \in DOMAIN b /\ (a \o b)[i] = b[i - Len(a)] /\ i \in Int /\ i - Len(a) \in Int
    BY <1>5, <1>7, ConcatPlaces
  <2> QED  BY <1>1, <2>1, <2>2
<1>9. \A c \in Members(pre) : c.op \in Ops /\ ~Audits(c) /\ ~Deploys(c)
  BY <1>4, <1>5, <1>7, <1>8 DEF Ops, StatusOps, Audits, Deploys
<1>10. PICK R : R = Members(a)
  OBVIOUS
<1>11. R \subseteq Members(pre) /\ \A c \in Members(pre) \ R : Idle(c)
  BY <1>7, <1>8, <1>10 DEF Idle, StatusOps
<1>12. /\ StatusesFit(R) /\ SignersFit(R)
       /\ IsFiniteSet(DOMAIN plugins') /\ \A q \in DOMAIN plugins' : plugins'[q] \in Statuses
       /\ packages' \subseteq DOMAIN plugins'
  <2>1. \A c \in R : \/ c = RegisterWrite(p, StatusOf(p))
                     \/ c = Write("register_plugin_package", p) /\ p \in packages'
    BY <1>1, <1>2, <1>5, <1>10
  <2> QED  BY <1>2, <2>1, InstallFits
<1>13. RegistersFit(pre)
  <2>1. ASSUME NEW i \in DOMAIN pre, pre[i].op = "register_plugin"
        PROVE  i = 1 /\ pre[i].plugin = p /\ pre[i].status = StatusOf(p)
    <3>1. \A j \in DOMAIN b : b[j].op = "register_plugin_hook"
      BY <1>7 DEF Members
    <3>2. i \in DOMAIN a /\ pre[i] = a[i]
      BY <1>8, <2>1, <3>1
    <3> QED  BY <1>4, <1>6, <2>1, <3>2
  <2> QED  BY <1>2, <2>1, RegisterFits
<1>14. DeploymentsFit(Members(pre))
  <2>1. PICK C : C = Members(pre)
    OBVIOUS
  <2> QED  BY <1>2, <1>9, <2>1, NoDeployments
<1>15. MemoryTyped'
  <2>1. audits' = audits + Len(entries)
    BY <1>2 DEF Audited
  <2> QED  BY <1>2, <1>3, <1>12, <2>1, MemoryKeeps
<1> QED  BY <1>2, <1>3, <1>8, <1>9, <1>11, <1>12, <1>13, <1>14, <1>15, AuditedCall

LEMMA UninstallStep ==
    ASSUME MirrorInv, NEW p \in PluginIds, uninstallPlugin(p)
    PROVE  MirrorInv'
<1>1. PICK e, entries, w, pre :
          /\ e = <<"uninstall", p>> /\ entries = (IF p \in DOMAIN plugins THEN <<e>> ELSE <<>>)
          /\ w = Write("uninstall_plugin", p) /\ pre = <<w>>
  OBVIOUS
<1>2. /\ plugins' = Without(plugins, {p}) /\ Audited(pre, entries)
      /\ packages' = packages \ {p} /\ revokedSigners' = revokedSigners /\ history' = history
      /\ UNCHANGED <<dbVars, cache, life>>
  BY <1>1 DEF uninstallPlugin
<1>3. IsSeq(entries)
  BY <1>1, MembersOfFew
<1>4. MemoryTyped /\ SignersKnown
  BY DEF MirrorInv, QueueInv
<1>5. w.op = "uninstall_plugin" /\ w.plugin = p
  BY <1>1 DEF Write
<1>6. IsSeq(pre) /\ Members(pre) = {w}
  BY <1>1, MembersOfFew
<1>7. \A c \in Members(pre) : c.op \in Ops /\ ~Audits(c) /\ ~Deploys(c)
  BY <1>5, <1>6 DEF Ops, StatusOps, Audits, Deploys
<1>8. /\ DOMAIN plugins' = DOMAIN plugins \ {p}
      /\ \A q \in DOMAIN plugins' : plugins'[q] = plugins[q]
  BY <1>2 DEF Without
<1>9. PICK R : R = {w}
  OBVIOUS
<1>10. StatusesFit(R)
  <2>1. Removes(w, p)
    BY <1>5 DEF Removes
  <2>2. \A q : ~Sets(w, q) /\ ~Packs(w, q)
    BY <1>5 DEF Sets, Packs, StatusOps
  <2>3. \A q \in packages \ packages' : q = p
    BY <1>2
  <2> QED  BY <1>8, <1>9, <2>1, <2>2, <2>3 DEF StatusesFit, Enables, About
<1>11. SignersFit(R)
  <2>1. \A c \in R : c.op # "revoke_package_signer"
    BY <1>5, <1>9
  <2>2. \A q \in packages' : q \in packages /\ q \in DOMAIN plugins'
    BY <1>2, <1>4, <1>8 DEF MemoryTyped
  <2> QED  BY <1>2, <1>4, <1>8, <2>1, <2>2 DEF SignersFit, SignersKnown
<1>12. RegistersFit(pre)
  <2>1. \A i \in DOMAIN pre : pre[i].op # "register_plugin"
    BY <1>5, <1>6 DEF Members
  <2> QED  BY <2>1 DEF RegistersFit
<1>13. DeploymentsFit(Members(pre))
  <2>1. PICK C : C = Members(pre)
    OBVIOUS
  <2> QED  BY <1>2, <1>7, <2>1, NoDeployments
<1>14. MemoryTyped'
  <2>1. audits' = audits + Len(entries)
    BY <1>2 DEF Audited
  <2>2. IsFiniteSet(DOMAIN plugins')
    <3>1. IsFiniteSet(DOMAIN plugins) /\ DOMAIN plugins' \subseteq DOMAIN plugins
      BY <1>4, <1>8 DEF MemoryTyped
    <3>2. \A S, T : T \subseteq S /\ IsFiniteSet(S) => IsFiniteSet(T)
      BY FS_Subset
    <3> QED  BY <3>1, <3>2
  <2>3. packages' \subseteq DOMAIN plugins' /\ \A q \in DOMAIN plugins' : plugins'[q] \in Statuses
    BY <1>2, <1>4, <1>8 DEF MemoryTyped
  <2> QED  BY <1>2, <1>3, <2>1, <2>2, <2>3, MemoryKeeps
<1>15. R \subseteq Members(pre) /\ \A c \in Members(pre) \ R : Idle(c)
  BY <1>6, <1>9
<1> QED  BY <1>2, <1>3, <1>6, <1>7, <1>10, <1>11, <1>12, <1>13, <1>14, <1>15, AuditedCall

(* A plugin enabled has no package of a signer revoked; one disabled is     *)
(* written so, or was so.                                                   *)
LEMMA ToggleFits ==
    ASSUME MirrorInv, NEW p \in DOMAIN plugins, NEW status \in Statuses, plugins' = [plugins EXCEPT ![p] = status],
           packages' = packages, revokedSigners' = revokedSigners,
           status = "disabled" \/ (p \in packages => SignerOf[p] \notin revokedSigners),
           NEW C, C = {StatusWrite(p, status)} \/ (C = {} /\ plugins[p] = status)
    PROVE  /\ StatusesFit(C) /\ SignersFit(C)
           /\ IsFiniteSet(DOMAIN plugins') /\ \A q \in DOMAIN plugins' : plugins'[q] \in Statuses
           /\ packages' \subseteq DOMAIN plugins'
<1>1. MemoryTyped /\ SignersKnown
  BY DEF MirrorInv, QueueInv
<1>2. /\ DOMAIN plugins' = DOMAIN plugins /\ plugins'[p] = status
      /\ \A q \in DOMAIN plugins \ {p} : plugins'[q] = plugins[q]
  OBVIOUS
<1>3. \A c \in C : c.op = "set_plugin_status" /\ c.plugin = p /\ c.status = status
  BY DEF StatusWrite
<1>4. \A c \in C : \A q : /\ Sets(c, q) <=> q = p
                          /\ ~Packs(c, q) /\ ~Removes(c, q)
  BY <1>3 DEF Sets, Packs, Removes, StatusOps
<1>5. plugins[p] # status => \E c \in C : Sets(c, p) /\ c.status = status
  BY <1>3, <1>4
<1>6. StatusesFit(C)
  <2>1. ASSUME NEW q \in DOMAIN plugins', plugins'[q] = "disabled"
        PROVE  /\ \A c \in C : ~Enables(c, q)
               /\ \/ q \in DOMAIN plugins /\ plugins[q] = "disabled"
                  \/ \E c \in C : Disables(c, q)
    <3>1. \A c \in C : ~Enables(c, q)
      BY <1>2, <1>3, <1>4, <2>1 DEF Enables
    <3>2. CASE q = p
      BY <1>2, <1>5, <2>1, <3>1, <3>2 DEF Disables
    <3>3. CASE q # p
      BY <1>2, <2>1, <3>1, <3>3
    <3> QED  BY <3>2, <3>3
  <2>2. \A c \in C : \A q : Sets(c, q) => q \in DOMAIN plugins' /\ plugins'[q] = c.status
    BY <1>2, <1>3, <1>4
  <2>3. \A q \in DOMAIN plugins : \/ \E c \in C : About(c, q)
                                  \/ q \in DOMAIN plugins' /\ plugins'[q] = plugins[q]
    BY <1>2, <1>5 DEF About
  <2> QED  BY <1>4, <2>1, <2>2, <2>3 DEF StatusesFit
<1>7. SignersFit(C)
  <2>1. \A c \in C : c.op # "revoke_package_signer"
    BY <1>3
  <2>2. \A q \in packages : q \in DOMAIN plugins
    BY <1>1 DEF MemoryTyped
  <2>3. \A q \in packages : SignerOf[q] \in revokedSigners => plugins'[q] = "disabled"
    BY <1>1, <1>2, <2>2 DEF SignersKnown
  <2> QED  BY <1>1, <2>1, <2>3 DEF SignersFit, SignersKnown
<1>8. IsFiniteSet(DOMAIN plugins') /\ \A q \in DOMAIN plugins' : plugins'[q] \in Statuses
  BY <1>1, <1>2 DEF MemoryTyped
<1>9. packages' \subseteq DOMAIN plugins'
  BY <1>1, <1>2 DEF MemoryTyped
<1> QED  BY <1>6, <1>7, <1>8, <1>9

LEMMA EnableStep ==
    ASSUME MirrorInv, NEW p \in PluginIds, enablePlugin(p)
    PROVE  MirrorInv'
<1>1. PICK e, entries, w, b, pre :
          /\ e = <<"enable", p>> /\ entries = <<e>> /\ w = StatusWrite(p, "active")
          /\ b = mirrorPluginHooks(p, "active") /\ pre = Append(b, w)
  OBVIOUS
<1>2. /\ p \in DOMAIN plugins /\ (p \in packages => SignerOf[p] \notin revokedSigners)
      /\ plugins' = [plugins EXCEPT ![p] = "active"] /\ Audited(pre, entries)
      /\ packages' = packages /\ revokedSigners' = revokedSigners /\ history' = history
      /\ UNCHANGED <<dbVars, cache, life>>
  BY <1>1 DEF enablePlugin
<1>3. IsSeq(entries)
  BY <1>1, MembersOfFew
<1>4. w.op = "set_plugin_status"
  BY <1>1 DEF StatusWrite
<1>5. IsSeq(b) /\ \A c \in Members(b) : c.op = "register_plugin_hook"
  BY <1>1, HookWrites
<1>6. IsSeq(pre) /\ Members(pre) = Members(b) \cup {w}
  BY <1>1, <1>5, MembersOfAppend
<1>7. \A c \in Members(pre) : c.op \in Ops /\ ~Audits(c) /\ ~Deploys(c) /\ c.op # "register_plugin"
  BY <1>4, <1>5, <1>6 DEF Ops, StatusOps, Audits, Deploys
<1>8. PICK R : R = {w}
  OBVIOUS
<1>9. R \subseteq Members(pre) /\ \A c \in Members(pre) \ R : Idle(c)
  BY <1>5, <1>6, <1>8 DEF Idle, StatusOps
<1>10. /\ StatusesFit(R) /\ SignersFit(R)
       /\ IsFiniteSet(DOMAIN plugins') /\ \A q \in DOMAIN plugins' : plugins'[q] \in Statuses
       /\ packages' \subseteq DOMAIN plugins'
  <2>1. PICK status : status = "active"
    OBVIOUS
  <2>2. status \in Statuses /\ R = {StatusWrite(p, status)}
    BY <1>1, <1>8, <2>1 DEF Statuses
  <2> QED  BY <1>2, <2>1, <2>2, ToggleFits
<1>11. RegistersFit(pre)
  BY <1>7 DEF RegistersFit, Members
<1>12. DeploymentsFit(Members(pre))
  <2>1. PICK C : C = Members(pre)
    OBVIOUS
  <2> QED  BY <1>2, <1>7, <2>1, NoDeployments
<1>13. MemoryTyped'
  <2>1. audits' = audits + Len(entries)
    BY <1>2 DEF Audited
  <2> QED  BY <1>2, <1>3, <1>10, <2>1, MemoryKeeps
<1> QED  BY <1>2, <1>3, <1>6, <1>7, <1>9, <1>10, <1>11, <1>12, <1>13, AuditedCall

LEMMA DisableStep ==
    ASSUME MirrorInv, NEW p \in PluginIds, disablePlugin(p)
    PROVE  MirrorInv'
<1>1. PICK e, entries : e = <<"disable", p>> /\ entries = <<e>>
  OBVIOUS
<1>2. IsSeq(entries)
  BY <1>1, MembersOfFew
<1>3. /\ p \in DOMAIN plugins /\ plugins' = [plugins EXCEPT ![p] = "disabled"]
      /\ packages' = packages /\ revokedSigners' = revokedSigners
      /\ UNCHANGED <<dbVars, cache, life>>
  BY DEF disablePlugin
<1>4. ASSUME NEW C, C = {StatusWrite(p, "disabled")} \/ (C = {} /\ plugins[p] = "disabled")
      PROVE  /\ StatusesFit(C) /\ SignersFit(C)
             /\ IsFiniteSet(DOMAIN plugins') /\ \A q \in DOMAIN plugins' : plugins'[q] \in Statuses
             /\ packages' \subseteq DOMAIN plugins'
  <2>1. PICK status : status = "disabled"
    OBVIOUS
  <2>2. status \in Statuses /\ (C = {StatusWrite(p, status)} \/ (C = {} /\ plugins[p] = status))
    BY <1>4, <2>1 DEF Statuses
  <2> QED  BY <1>3, <2>1, <2>2, ToggleFits
<1>5. CASE plugins[p] = "disabled"
  <2>1. PICK pre, R : pre = <<>> /\ R = {}
    OBVIOUS
  <2>2. Audited(pre, entries) /\ history' = history
    BY <1>1, <1>5, <2>1 DEF disablePlugin
  <2>3. IsSeq(pre) /\ Members(pre) = {}
    BY <2>1, MembersOfFew
  <2>4. /\ StatusesFit(R) /\ SignersFit(R)
        /\ IsFiniteSet(DOMAIN plugins') /\ \A q \in DOMAIN plugins' : plugins'[q] \in Statuses
        /\ packages' \subseteq DOMAIN plugins'
    BY <1>4, <1>5, <2>1
  <2>5. RegistersFit(pre)
    BY <2>3 DEF RegistersFit, Members
  <2>6. DeploymentsFit(Members(pre))
    <3>1. PICK C : C = Members(pre)
      OBVIOUS
    <3> QED  BY <2>2, <2>3, <3>1, NoDeployments
  <2>7. MemoryTyped'
    <3>1. audits' = audits + Len(entries)
      BY <2>2 DEF Audited
    <3> QED  BY <1>2, <2>2, <2>4, <3>1, MemoryKeeps
  <2>8. R \subseteq Members(pre) /\ \A c \in Members(pre) \ R : Idle(c)
    BY <2>1, <2>3
  <2> QED  BY <1>2, <1>3, <2>2, <2>3, <2>4, <2>5, <2>6, <2>7, <2>8, AuditedCall
<1>6. CASE plugins[p] # "disabled"
  <2>1. PICK records : records = KilledOf(p)
    OBVIOUS
  <2>2. IsSeq(records) /\ Len(history[p]) <= Len(records)
    BY <2>1, KilledIs
  <2>3. PICK v, w, a, L, f, z, pre :
            /\ v = Write("set_plugin_hooks_enabled", p) /\ w = StatusWrite(p, "disabled")
            /\ a = (IF p \in HookedPlugins THEN <<v>> ELSE <<>>) /\ L = mirrorDeployment(p, records)
            /\ f = a \o L /\ z = <<w>> /\ pre = f \o z
    OBVIOUS
  <2>4. history' = [history EXCEPT ![p] = records] /\ Audited(pre, entries)
    BY <1>1, <1>6, <2>1, <2>3 DEF disablePlugin, killDeploymentsForDisabledPlugin
  <2>5. v.op = "set_plugin_hooks_enabled" /\ w.op = "set_plugin_status"
    BY <2>3 DEF Write, StatusWrite
  <2>6. /\ IsSeq(L) /\ \A c \in Members(L) : c.op = "upsert_plugin_deployment"
        /\ \A C : Members(L) \subseteq C /\ (\A c \in C : Deploys(c) => c \in Members(L)) => DeploymentsFit(C)
        /\ history' = [q \in PluginIds |-> history'[q]] /\ \A q \in PluginIds : IsSeq(history'[q])
    BY <2>2, <2>3, <2>4, DeploymentWrites
  <2>7. IsSeq(a) /\ Members(a) \subseteq {v} /\ IsSeq(z) /\ Members(z) = {w}
    BY <2>3, MembersOfFew
  <2>8. IsSeq(f) /\ Members(f) = Members(a) \cup Members(L)
    BY <2>3, <2>6, <2>7, MembersOfConcat
  <2>9. IsSeq(pre) /\ Members(pre) = Members(f) \cup {w}
    BY <2>3, <2>7, <2>8, MembersOfConcat
  <2>10. \A c \in Members(pre) : c.op \in Ops /\ ~Audits(c) /\ c.op # "register_plugin"
    BY <2>5, <2>6, <2>7, <2>8, <2>9 DEF Ops, StatusOps, Audits
  <2>11. PICK R : R = {w}
    OBVIOUS
  <2>12. R \subseteq Members(pre) /\ \A c \in Members(pre) \ R : Idle(c)
    BY <2>5, <2>6, <2>7, <2>8, <2>9, <2>11 DEF Idle, StatusOps
  <2>13. /\ StatusesFit(R) /\ SignersFit(R)
         /\ IsFiniteSet(DOMAIN plugins') /\ \A q \in DOMAIN plugins' : plugins'[q] \in Statuses
         /\ packages' \subseteq DOMAIN plugins'
    BY <1>4, <2>3, <2>11
  <2>14. RegistersFit(pre)
    BY <2>10 DEF RegistersFit, Members
  <2>15. DeploymentsFit(Members(pre))
    <3>1. PICK C : C = Members(pre)
      OBVIOUS
    <3>2. Members(L) \subseteq C /\ \A c \in C : Deploys(c) => c \in Members(L)
      BY <2>5, <2>7, <2>8, <2>9, <3>1 DEF Deploys
    <3> QED  BY <2>6, <3>1, <3>2
  <2>16. MemoryTyped'
    <3>1. audits' = audits + Len(entries)
      BY <2>4 DEF Audited
    <3>2. audits' \in Nat
      <4>1. audits \in Nat
        BY DEF MirrorInv, MemoryTyped
      <4>2. Len(entries) \in Nat
        BY <1>2, SeqFacts
      <4> QED  BY <3>1, <4>1, <4>2
    <3> QED  BY <2>6, <2>13, <3>2 DEF MemoryTyped
  <2> QED  BY <1>2, <1>3, <2>4, <2>9, <2>10, <2>12, <2>13, <2>14, <2>15, <2>16, AuditedCall
<1> QED  BY <1>5, <1>6

(* A signer revoked: what came of it is disabled, and written so.           *)
LEMMA RevokeStep ==
    ASSUME MirrorInv, NEW s, revokePackageSigner(s)
    PROVE  MirrorInv'
<1>1. PICK D : D = {p \in packages \cap DOMAIN plugins : SignerOf[p] = s /\ plugins[p] # "disabled"}
  OBVIOUS
<1>2. PICK order : order = SetToSeq(D)
  OBVIOUS
<1>3. PICK v, a, m, pre, e, k, l, entries :
          /\ v = [op |-> "revoke_package_signer", signer |-> s] /\ a = <<v>>
          /\ m = [i \in DOMAIN order |-> StatusWrite(order[i], "disabled")] /\ pre = a \o m
          /\ e = <<"package_signer_revoked", s>> /\ k = [i \in DOMAIN order |-> <<"disable", order[i]>>]
          /\ l = <<e>> /\ entries = k \o l
  OBVIOUS
<1>4. /\ revokedSigners' = revokedSigners \cup {s} /\ packages' = packages /\ history' = history
      /\ plugins' = [p \in DOMAIN plugins |-> IF p \in D THEN "disabled" ELSE plugins[p]]
      /\ Audited(pre, entries) /\ UNCHANGED <<dbVars, cache, life>>
  BY <1>1, <1>2, <1>3 DEF revokePackageSigner
<1>5. MemoryTyped /\ SignersKnown
  BY DEF MirrorInv, QueueInv
<1>6. IsSeq(order) /\ Members(order) = D
  <2>1. IsFiniteSet(DOMAIN plugins) /\ D \subseteq DOMAIN plugins
    BY <1>1, <1>5 DEF MemoryTyped
  <2>2. \A S, T : T \subseteq S /\ IsFiniteSet(S) => IsFiniteSet(T)
    BY FS_Subset
  <2>3. IsFiniteSet(D)
    BY <2>1, <2>2
  <2> QED  BY <1>2, <2>3, SetToSeqIs
<1>7. IsSeq(m) /\ Members(m) = {m[i] : i \in DOMAIN order}
  <2>1. m = [i \in DOMAIN order |-> m[i]]
    BY <1>3
  <2> QED  BY <1>6, <2>1, Alongside
<1>8. IsSeq(entries)
  <2>1. k = [i \in DOMAIN order |-> k[i]]
    BY <1>3
  <2>2. IsSeq(k)
    BY <1>6, <2>1, Alongside
  <2>3. IsSeq(l)
    BY <1>3, MembersOfFew
  <2> QED  BY <1>3, <2>2, <2>3, MembersOfConcat
<1>9. v.op = "revoke_package_signer" /\ v.signer = s
  BY <1>3
<1>10. /\ \A c \in Members(m) : c.op = "set_plugin_status" /\ c.plugin \in D /\ c.status = "disabled"
       /\ \A p \in D : \E c \in Members(m) : c.plugin = p
  <2>1. \A i \in DOMAIN order :
            m[i].op = "set_plugin_status" /\ m[i].plugin = order[i] /\ m[i].status = "disabled"
    BY <1>3 DEF StatusWrite
  <2>2. {order[i] : i \in DOMAIN order} = D
    BY <1>6 DEF Members
  <2>3. ASSUME NEW c \in Members(m) PROVE c.op = "set_plugin_status" /\ c.plugin \in D /\ c.status = "disabled"
    <3>1. PICK i \in DOMAIN order : c = m[i]
      BY <1>7
    <3> QED  BY <2>1, <2>2, <3>1
  <2>4. ASSUME NEW p \in D PROVE \E c \in Members(m) : c.plugin = p
    <3>1. PICK i \in DOMAIN order : order[i] = p
      BY <2>2
    <3> QED  BY <1>7, <2>1, <3>1
  <2> QED  BY <2>3, <2>4
<1>11. IsSeq(pre) /\ Members(pre) = {v} \cup Members(m)
  <2>1. IsSeq(a) /\ Members(a) = {v}
    BY <1>3, MembersOfFew
  <2>2. IsSeq(a \o m) /\ Members(a \o m) = Members(a) \cup Members(m)
    BY <1>7, <2>1, MembersOfConcat
  <2> QED  BY <1>3, <2>1, <2>2
<1>12. \A c \in Members(pre) : c.op \in Ops /\ ~Audits(c) /\ ~Deploys(c)
                               /\ c.op # "register_plugin" /\ c.op # "register_plugin_package"
  BY <1>9, <1>10, <1>11 DEF Ops, StatusOps, Audits, Deploys
<1>13. PICK R : R = Members(pre)
  OBVIOUS
<1>14. /\ DOMAIN plugins' = DOMAIN plugins /\ \A p \in D : p \in DOMAIN plugins /\ plugins'[p] = "disabled"
       /\ \A p \in DOMAIN plugins \ D : plugins'[p] = plugins[p]
       /\ \A p \in DOMAIN plugins : plugins[p] = "disabled" => plugins'[p] = "disabled"
  BY <1>1, <1>4
<1>15. \A p \in packages : p \in DOMAIN plugins /\ (SignerOf[p] = s => plugins'[p] = "disabled")
  BY <1>1, <1>5, <1>14 DEF MemoryTyped
<1>16. /\ \A c \in R : \A p : Sets(c, p) => p \in D /\ c.status = "disabled"
       /\ \A c \in R : \A p : ~Packs(c, p) /\ ~Removes(c, p)
       /\ \A p \in D : \E c \in R : Sets(c, p) /\ c.status = "disabled"
  <2>1. \A c \in R : c = v \/ c \in Members(m)
    BY <1>11, <1>13
  <2>2. \A p : ~Sets(v, p) /\ ~Packs(v, p) /\ ~Removes(v, p)
    BY <1>9 DEF Sets, Packs, Removes, StatusOps
  <2>3. \A c \in Members(m) : \A p : ~Packs(c, p) /\ ~Removes(c, p) /\ (Sets(c, p) <=> c.plugin = p)
    BY <1>10 DEF Sets, Packs, Removes, StatusOps
  <2>4. \A p \in D : \E c \in R : Sets(c, p) /\ c.status = "disabled"
    BY <1>10, <1>11, <1>13, <2>3
  <2> QED  BY <1>10, <2>1, <2>2, <2>3, <2>4
<1>17. StatusesFit(R)
  <2>1. \A p \in DOMAIN plugins' : plugins'[p] = "disabled" =>
            /\ \A c \in R : ~Enables(c, p)
            /\ \/ p \in DOMAIN plugins /\ plugins[p] = "disabled"
               \/ \E c \in R : Disables(c, p)
    BY <1>14, <1>16 DEF Enables, Disables
  <2>2. \A c \in R : \A p : Sets(c, p) => p \in DOMAIN plugins' /\ plugins'[p] = c.status
    BY <1>14, <1>16
  <2>3. \A p \in DOMAIN plugins : \/ \E c \in R : About(c, p)
                                  \/ p \in DOMAIN plugins' /\ plugins'[p] = plugins[p]
    BY <1>14, <1>16 DEF About
  <2> QED  BY <1>4, <1>16, <2>1, <2>2, <2>3 DEF StatusesFit
<1>18. SignersFit(R)
  <2>1. ASSUME NEW c \in R, c.op = "revoke_package_signer"
        PROVE  c.signer = s
    BY <1>9, <1>10, <1>11, <1>13, <2>1
  <2>2. \A c \in R : c.op # "register_plugin_package"
    BY <1>12, <1>13
  <2>3. \A p \in packages : SignerOf[p] \in revokedSigners' => plugins'[p] = "disabled"
    BY <1>4, <1>5, <1>14, <1>15 DEF SignersKnown
  <2>4. \A p \in packages : SignerOf[p] \in DOMAIN cache["revocations"] => SignerOf[p] \in revokedSigners'
    BY <1>4, <1>5 DEF SignersKnown
  <2> QED  BY <1>4, <1>14, <1>15, <2>1, <2>2, <2>3, <2>4 DEF SignersFit
<1>19. RegistersFit(pre)
  BY <1>12 DEF RegistersFit, Members
<1>20. DeploymentsFit(Members(pre))
  <2>1. PICK C : C = Members(pre)
    OBVIOUS
  <2> QED  BY <1>4, <1>12, <2>1, NoDeployments
<1>21. MemoryTyped'
  <2>1. audits' = audits + Len(entries)
    BY <1>4 DEF Audited
  <2>2. IsFiniteSet(DOMAIN plugins') /\ packages' \subseteq DOMAIN plugins'
    BY <1>4, <1>5, <1>14 DEF MemoryTyped
  <2>3. \A p \in DOMAIN plugins' : plugins'[p] \in Statuses
    BY <1>5, <1>14 DEF MemoryTyped, Statuses
  <2> QED  BY <1>4, <1>8, <2>1, <2>2, <2>3, MemoryKeeps
<1>22. R \subseteq Members(pre) /\ \A c \in Members(pre) \ R : Idle(c)
  BY <1>13
<1> QED  BY <1>4, <1>8, <1>11, <1>12, <1>17, <1>18, <1>19, <1>20, <1>21, <1>22, AuditedCall

-----------------------------------------------------------------------------
(***************************************************************************)
(* Every step keeps the invariant.                                         *)
(***************************************************************************)
LEMMA SendStep == MirrorInv /\ enqueueWrite => MirrorInv'
<1> SUFFICES ASSUME MirrorInv, enqueueWrite PROVE MirrorInv'
  OBVIOUS
<1>1. writeQueue # <<>> /\ UNCHANGED <<memoryVars, audits, cache, life>>
  BY DEF enqueueWrite
<1>2. CASE /\ Accepts(db, Head(writeQueue).call) /\ Commit(After(db, Head(writeQueue).call))
           /\ writeQueue' = Tail(writeQueue) /\ applied' = Head(writeQueue).n
           /\ UNCHANGED <<issued, failed>>
  BY <1>1, <1>2, AcceptedStep
<1>3. CASE Refused /\ UNCHANGED dbVars
  BY <1>1, <1>3, RefusedStep
<1> QED  BY <1>2, <1>3 DEF enqueueWrite

LEMMA StutterStep == MirrorInv /\ UNCHANGED vars => MirrorInv'
<1> SUFFICES ASSUME MirrorInv, UNCHANGED vars PROVE MirrorInv'
  OBVIOUS
<1>1. /\ plugins' = plugins /\ packages' = packages /\ revokedSigners' = revokedSigners /\ history' = history
      /\ audits' = audits /\ writeQueue' = writeQueue /\ issued' = issued /\ applied' = applied
      /\ failed' = failed /\ db' = db /\ updates' = updates /\ cache' = cache /\ life' = life
  BY DEF vars, memoryVars, queueVars, dbVars
<1>2. TablesTyped' /\ MemoryTyped' /\ CacheInv'
  BY <1>1 DEF MirrorInv, TablesTyped, MemoryTyped, CacheInv
<1>3. DisabledAreOut'
  BY <1>1, StaysOut DEF MirrorInv
<1>4. Waiting' = Waiting /\ AllIn' = AllIn
  BY <1>1 DEF Waiting, AllIn
<1>5. QueueTyped' /\ WritesTyped' /\ SignersKnown'
  BY <1>1, <1>4 DEF MirrorInv, QueueInv, QueueTyped, WritesTyped, SignersKnown
<1>6. StatusesFollow'
  BY <1>1, <1>4 DEF MirrorInv, QueueInv, StatusesFollow
<1>7. QueueInv'
  BY <1>1, <1>4, <1>5, <1>6 DEF MirrorInv, QueueInv
<1> QED  BY <1>2, <1>3, <1>7 DEF MirrorInv

LEMMA NextKeepsInvariant == MirrorInv /\ [Next]_vars => MirrorInv'
<1> SUFFICES ASSUME MirrorInv, [Next]_vars PROVE MirrorInv'
  OBVIOUS
<1>1. ASSUME NEW p \in PluginIds, PluginCall(p) PROVE MirrorInv'
  BY <1>1, InstallStep, PackageStep, UninstallStep, EnableStep, DisableStep, RevokeStep DEF PluginCall
<1>2. ASSUME NEW p \in PluginIds, DeploymentCall(p) PROVE MirrorInv'
  BY <1>2, BundleSteps, DeploymentSteps DEF DeploymentCall
<1> QED  BY <1>1, <1>2, MenuStep, ConfigStep, ForeignSteps, SendStep, HearingStep, RestartStep, StutterStep DEF Next

LEMMA MirrorInvariant == Spec => []MirrorInv
BY InitGivesInvariant, NextKeepsInvariant, PTL DEF Spec

LEMMA MirrorInvIsOut == MirrorInv => DisabledAreOut
BY DEF MirrorInv

(* The queue of writes is in line in every state, through every call, every *)
(* refusal and every restart: numbered in order, emptied for good by a      *)
(* refusal, and an entry of the registry's audit neither twice in it nor    *)
(* under an id the database has from this server, whatever other servers    *)
(* write under the same ids (service.ts:1911-1934).                         *)
THEOREM WritesStayInLine == Spec => []QueueIsSound
BY MirrorInvariant, InvariantImplies, PTL

(* As long as nothing was refused or lost, a queue that has run dry leaves  *)
(* the database agreeing with the registry on every plugin, and no          *)
(* deployment live there that the manager does not have so                  *)
(* (service.ts:562-592, 1505-1590, 2032-2050).                              *)
THEOREM DatabaseFollowsMemory == Spec => []MirrorIsCurrent
BY MirrorInvariant, InvariantImplies, PTL

(* Whatever the order rows are told in, a cache that trails nothing has the *)
(* rows of the database, save those of other servers and of plugins         *)
(* uninstalled, and the configuration value this life set whatever earlier  *)
(* lives and other servers set (adapter.ts:1533-2433).                      *)
THEOREM CacheFollowsDatabase == Spec => []CacheSettles
BY MirrorInvariant, InvariantImplies, PTL

(* A disabled plugin offers nothing, one whose package is of a signer       *)
(* revoked is not active, and of such a signer's bundle nothing is          *)
(* registered, deployed or enabled, in the database and across the lives of *)
(* the service that mirrors into it (plugins.rs:170-460, 921-1105, 1464,    *)
(* service.ts:461, menus.rs:19).                                            *)
THEOREM DisabledStayOut == Spec => []DisabledAreOut
BY MirrorInvariant, MirrorInvIsOut, PTL
=============================================================================
