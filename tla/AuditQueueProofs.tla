-------------------------- MODULE AuditQueueProofs --------------------------
(***************************************************************************)
(* No audit message is ever lost and none overtakes another, for any       *)
(* number of messages, of calls that throw and of deaths; and there are no  *)
(* more duplicates than those failures make.                               *)
(***************************************************************************)
EXTENDS AuditQueue, SequenceTheorems, FiniteSetTheorems, WellFoundedInduction, TLAPS

-----------------------------------------------------------------------------
\* Induction, with what is to be shown of an element written as membership in a set

\* A set of numbers that is not empty has a least one.
LEMMA LeastNumber ==
  ASSUME NEW S \in SUBSET Nat, S # {}
  PROVE  \E m \in S : \A k \in S : m <= k
<1> DEFINE Less == OpToRel(<, Nat)
<1>1. PICK m \in S : \A k \in S : ~ (<<k, m>> \in Less)
  BY NatLessThanWellFounded, WFMin
<1>2. \A i, j \in Nat : i < j => <<i, j>> \in Less
  BY SMT DEF OpToRel
<1> HIDE DEF Less
<1>3. \A k \in S : ~ (k < m)
  BY <1>1, <1>2
<1>4. QED
  BY <1>3

\* What holds of 0 and goes from a number to the next holds of all.
LEMMA NumberInduction ==
  ASSUME NEW G, 0 \in G, \A k \in Nat : k \in G => k + 1 \in G
  PROVE  \A n \in Nat : n \in G
<1> SUFFICES ASSUME NEW n \in Nat, n \notin G
             PROVE  FALSE
  OBVIOUS
<1>1. PICK m \in Nat \ G : \A k \in Nat \ G : m <= k
  BY LeastNumber
<1>2. m # 0 /\ m - 1 \in Nat /\ m - 1 \in G
  BY <1>1
<1>3. QED
  BY <1>1, <1>2

\* What holds of a set when it holds of the proper subsets holds of all.
LEMMA SubsetInduction ==
  ASSUME NEW S, IsFiniteSet(S), NEW G,
         \A T \in SUBSET S : (\A U \in SUBSET T : U # T => U \in G) => T \in G
  PROVE  \A T \in SUBSET S : T \in G
<1> SUFFICES ASSUME NEW B \in SUBSET S, B \notin G
             PROVE  FALSE
  OBVIOUS
<1> DEFINE Bad == {T \in SUBSET S : T \notin G}
           Sizes == {Cardinality(T) : T \in Bad}
<1>1. \A T \in SUBSET S : IsFiniteSet(T) /\ Cardinality(T) \in Nat
  BY FS_Subset, FS_CardinalityType
<1>2. Sizes \in SUBSET Nat /\ Sizes # {}
  BY <1>1
<1>3. PICK m \in Sizes : \A k \in Sizes : m <= k
  BY <1>2, LeastNumber
<1>4. PICK T \in Bad : Cardinality(T) = m
  BY <1>3
<1>5. ASSUME NEW U \in SUBSET T, U # T
      PROVE  U \in G
  <2>1. IsFiniteSet(T) /\ Cardinality(U) <= Cardinality(T) /\ Cardinality(U) # Cardinality(T)
    BY <1>1, <1>4, <1>5, FS_Subset
  <2>2. U \in SUBSET S /\ Cardinality(U) \in Nat /\ Cardinality(T) \in Nat
    BY <1>1, <1>4
  <2>3. ~ (m <= Cardinality(U))
    BY <1>4, <2>1, <2>2
  <2>4. QED
    BY <1>3, <2>2, <2>3
<1>6. QED
  BY <1>4, <1>5

-----------------------------------------------------------------------------
\* Sums over a finite set, the way MapThenSumSet adds them up

Some(s) == CHOOSE x \in s : TRUE

\* The sums of d over the subsets of S.
Sums(S, d) ==
  CHOOSE f : f = [s \in SUBSET S |-> IF s = {} THEN 0 ELSE d[Some(s)] + f[s \ {Some(s)}]]

\* There is such a function: the sums over ever larger subsets.
LEMMA SumsExist ==
  ASSUME NEW S, IsFiniteSet(S), NEW d
  PROVE  \A s \in SUBSET S :
           Sums(S, d)[s] = IF s = {} THEN 0 ELSE d[Some(s)] + Sums(S, d)[s \ {Some(s)}]
<1> DEFINE Turn(f, s) == IF s = {} THEN 0 ELSE d[Some(s)] + f[s \ {Some(s)}]
           Loop(f, k) == f = [s \in {t \in SUBSET S : Cardinality(t) <= k} |-> Turn(f, s)]
<1>1. /\ Cardinality(S) \in Nat
      /\ \A s \in SUBSET S : /\ IsFiniteSet(s) /\ Cardinality(s) \in Nat
                             /\ Cardinality(s) <= Cardinality(S)
  BY FS_Subset, FS_CardinalityType
<1>2. \A s \in SUBSET S : s # {} =>
        /\ Some(s) \in s /\ s \ {Some(s)} \in SUBSET S
        /\ Cardinality(s \ {Some(s)}) = Cardinality(s) - 1
  BY <1>1, FS_RemoveElement DEF Some
<1>3. \A k \in Nat : \E f : Loop(f, k)
  <2> DEFINE G == {k \in Nat : \E f : Loop(f, k)}
  <2>1. 0 \in G
    <3> DEFINE f == [s \in {t \in SUBSET S : Cardinality(t) <= 0} |-> 0]
    <3>1. \A s \in SUBSET S : Cardinality(s) <= 0 => s = {}
      BY <1>1, FS_EmptySet
    <3>2. Loop(f, 0)
      BY <3>1
    <3>3. QED
      BY <3>2
  <2>2. ASSUME NEW k \in Nat, k \in G
        PROVE  k + 1 \in G
    <3>0. k \in Nat /\ k + 1 \in Nat
      BY <2>2
    <3>1. PICK f : Loop(f, k)
      BY <2>2
    <3> DEFINE Small(i) == {t \in SUBSET S : Cardinality(t) <= i}
               h == [s \in Small(k + 1) |-> Turn(f, s)]
    <3>2. \A s \in Small(k + 1) : s # {} => s \ {Some(s)} \in Small(k)
      BY <1>1, <1>2
    <3>3. \A s \in Small(k) : s \in Small(k + 1)
      BY <1>1
    <3>4. \A s \in Small(k) : h[s] = f[s]
      BY <3>1, <3>3
    <3>5. \A s \in Small(k + 1) : Turn(h, s) = Turn(f, s)
      <4> HIDE DEF h, Small
      <4>1. QED
        BY <3>2, <3>4
    <3>6. Loop(h, k + 1)
      <4>1. h = [s \in Small(k + 1) |-> Turn(f, s)]
        OBVIOUS
      <4> HIDE DEF h, Turn
      <4>2. QED
        BY <3>5, <4>1
    <3> HIDE DEF Loop, h
    <3>7. \E e : Loop(e, k + 1)
      BY <3>6
    <3>8. QED
      BY <3>0, <3>7
  <2> HIDE DEF Loop
  <2>3. \A k \in Nat : k \in G
    <3> HIDE DEF G
    <3>1. QED
      BY <2>1, <2>2, NumberInduction
  <2>4. QED
    BY <2>3
<1>4. {t \in SUBSET S : Cardinality(t) <= Cardinality(S)} = SUBSET S
  BY <1>1
<1>5. \E f : f = [s \in SUBSET S |-> Turn(f, s)]
  <2> HIDE DEF Turn
  <2>1. PICK f : Loop(f, Cardinality(S))
    <3> HIDE DEF Loop
    <3>1. QED
      BY <1>1, <1>3
  <2>2. QED
    BY <1>4, <2>1
<1>6. Sums(S, d) = CHOOSE f : f = [s \in SUBSET S |-> Turn(f, s)]
  BY DEF Sums
<1> HIDE DEF Turn, Loop
<1>7. Sums(S, d) = [s \in SUBSET S |-> Turn(Sums(S, d), s)]
  BY <1>5, <1>6
<1>8. \A s \in SUBSET S : Sums(S, d)[s] = Turn(Sums(S, d), s)
  <2> DEFINE g == Sums(S, d)
  <2>1. g = [s \in SUBSET S |-> Turn(g, s)]
    BY <1>7
  <2> HIDE DEF g
  <2>2. \A s \in SUBSET S : g[s] = Turn(g, s)
    BY <2>1
  <2>3. QED
    BY <2>2 DEF g
<1>9. QED
  BY <1>8 DEF Turn

\* Sums of numbers are numbers.
LEMMA SumsType ==
  ASSUME NEW S, IsFiniteSet(S), NEW d \in [S -> Nat]
  PROVE  \A s \in SUBSET S : Sums(S, d)[s] \in Nat
<1> DEFINE f == Sums(S, d)
           G == {s \in SUBSET S : f[s] \in Nat}
<1>1. \A s \in SUBSET S : f[s] = IF s = {} THEN 0 ELSE d[Some(s)] + f[s \ {Some(s)}]
  BY SumsExist
<1> HIDE DEF f
<1>2. ASSUME NEW s \in SUBSET S, \A t \in SUBSET s : t # s => t \in G
      PROVE  s \in G
  <2>1. CASE s = {}
    <3>1. f[s] = 0
      BY <1>1, <2>1
    <3>2. QED
      BY <3>1
  <2>2. CASE s # {}
    <3>1. Some(s) \in s
      BY <2>2 DEF Some
    <3>2. s \ {Some(s)} \in G
      BY <1>2, <3>1
    <3>3. f[s] = d[Some(s)] + f[s \ {Some(s)}]
      BY <1>1, <2>2
    <3>4. d[Some(s)] \in Nat /\ f[s \ {Some(s)}] \in Nat
      BY <3>1, <3>2
    <3>5. f[s] \in Nat
      BY <3>3, <3>4
    <3>6. QED
      BY <3>5
  <2>3. QED
    BY <2>1, <2>2
<1>3. \A s \in SUBSET S : s \in G
  <2> HIDE DEF G
  <2>1. QED
    BY <1>2, SubsetInduction
<1>4. QED
  BY <1>3 DEF f

\* A function that is zero everywhere has no sum to speak of.
LEMMA SumOfZeros ==
  ASSUME NEW S, IsFiniteSet(S), NEW d \in [S -> {0}]
  PROVE  Sums(S, d)[S] = 0
<1> DEFINE f == Sums(S, d)
           G == {s \in SUBSET S : f[s] = 0}
<1>1. \A s \in SUBSET S : f[s] = IF s = {} THEN 0 ELSE d[Some(s)] + f[s \ {Some(s)}]
  BY SumsExist
<1> HIDE DEF f
<1>2. ASSUME NEW s \in SUBSET S, \A t \in SUBSET s : t # s => t \in G
      PROVE  s \in G
  <2>1. CASE s = {}
    BY <1>1, <2>1
  <2>2. CASE s # {}
    <3>1. Some(s) \in s
      BY <2>2 DEF Some
    <3>2. s \ {Some(s)} \in G
      BY <1>2, <3>1
    <3>3. QED
      BY <1>1, <2>2, <3>1, <3>2
  <2>3. QED
    BY <2>1, <2>2
<1>3. S \in G
  <2> HIDE DEF G
  <2>1. QED
    BY <1>2, SubsetInduction
<1>4. QED
  BY <1>3 DEF f

\* A function that changes at one point changes the sum by as much.
LEMMA SumChanges ==
  ASSUME NEW S, IsFiniteSet(S), NEW d \in [S -> Nat], NEW e \in [S -> Nat], NEW x \in S,
         \A y \in S : y # x => e[y] = d[y]
  PROVE  Sums(S, e)[S] + d[x] = Sums(S, d)[S] + e[x]
<1> DEFINE f == Sums(S, d)
           g == Sums(S, e)
           Right(s) == IF x \in s THEN g[s] + d[x] = f[s] + e[x] ELSE g[s] = f[s]
           G == {s \in SUBSET S : Right(s)}
<1>1. /\ \A s \in SUBSET S : f[s] = IF s = {} THEN 0 ELSE d[Some(s)] + f[s \ {Some(s)}]
      /\ \A s \in SUBSET S : g[s] = IF s = {} THEN 0 ELSE e[Some(s)] + g[s \ {Some(s)}]
      /\ \A s \in SUBSET S : f[s] \in Nat /\ g[s] \in Nat
  <2>1. \A s \in SUBSET S : f[s] = IF s = {} THEN 0 ELSE d[Some(s)] + f[s \ {Some(s)}]
    BY SumsExist
  <2>2. \A s \in SUBSET S : g[s] = IF s = {} THEN 0 ELSE e[Some(s)] + g[s \ {Some(s)}]
    <3>1. ASSUME NEW c
          PROVE  \A s \in SUBSET S :
                   Sums(S, c)[s] = IF s = {} THEN 0 ELSE c[Some(s)] + Sums(S, c)[s \ {Some(s)}]
      BY SumsExist
    <3>2. QED
      BY <3>1
  <2>3. \A s \in SUBSET S : f[s] \in Nat
    BY SumsType
  <2>4. \A s \in SUBSET S : g[s] \in Nat
    BY SumsType
  <2> HIDE DEF f, g
  <2>5. QED
    BY <2>1, <2>2, <2>3, <2>4
<1> HIDE DEF f, g
<1>2. ASSUME NEW s \in SUBSET S, \A t \in SUBSET s : t # s => t \in G
      PROVE  s \in G
  <2>1. CASE s = {}
    BY <1>1, <2>1
  <2>2. CASE s # {}
    <3> DEFINE y == Some(s)
               t == s \ {y}
    <3>1. y \in s /\ y \in S /\ t \in SUBSET s /\ t # s /\ t \in SUBSET S
      BY <2>2 DEF Some
    <3>2. Right(t)
      BY <1>2, <3>1
    <3>3. f[s] = d[y] + f[t] /\ g[s] = e[y] + g[t]
      BY <1>1, <2>2
    <3>4. f[t] \in Nat /\ g[t] \in Nat /\ d[y] \in Nat /\ e[y] \in Nat /\ d[x] \in Nat /\ e[x] \in Nat
      BY <1>1, <3>1
    <3> HIDE DEF y
    <3>5. CASE y = x
      <4>1. g[t] = f[t] /\ x \in s
        BY <3>1, <3>2, <3>5
      <4>2. QED
        BY <3>3, <3>4, <3>5, <4>1
    <3>6. CASE y # x
      <4>1. e[y] = d[y] /\ (x \in s <=> x \in t)
        BY <3>1, <3>6
      <4> HIDE DEF t
      <4>2. Right(s)
        BY <3>2, <3>3, <3>4, <4>1
      <4>3. QED
        BY <4>2
    <3>7. QED
      BY <3>5, <3>6
  <2>3. QED
    BY <2>1, <2>2
<1>3. S \in G
  <2> HIDE DEF G
  <2>1. QED
    BY <1>2, SubsetInduction
<1>4. QED
  BY <1>3 DEF f, g

\* The messages that were sent on.
Copied == {m \in Messages : local[m] > 0 \/ documents[m] > 0}

\* How many messages have left the audit queue.
Taken == Len(arrivals) - Len(queue)

\* The queue is what is left of the arrivals, which are all different.
Order ==
  /\ Taken \in Nat
  /\ \A i \in 1 .. Len(queue) : queue[i] = arrivals[Taken + i]
  /\ \A i, j \in 1 .. Len(arrivals) : arrivals[i] = arrivals[j] => i = j

\* What has left the queue was sent; behind its head nothing was.
Progress ==
  /\ \A i \in 1 .. Taken : arrivals[i] \in Copied
  /\ \A i \in Taken + 2 .. Len(arrivals) : arrivals[i] \notin Copied
  /\ Copied \subseteq Seen
  /\ listener = "sent" => queue[1] \in Copied

SavedIsStored == saved => \A m \in handled : documents[m] > 0

IInv == TypeOK /\ Order /\ Progress /\ SavedIsStored

-----------------------------------------------------------------------------
\* Nothing has come, and nothing was stored.
LEMMA InitHolds == Init => IInv
  BY BoundsAssumption DEF Init, IInv, TypeOK, Order, Progress, SavedIsStored, Taken, Copied, Seen

\* Each step keeps the types.
LEMMA NextTypes == TypeOK /\ [Next]_vars => TypeOK'
<1> SUFFICES ASSUME TypeOK, [Next]_vars
             PROVE  TypeOK'
  OBVIOUS
<1> USE BoundsAssumption DEF TypeOK, delivery, reception, failures
<1>1. ASSUME NEW m \in Messages, Arrive(m)
      PROVE  TypeOK'
  <2>1. arrivals' \in Seq(Messages) /\ queue' \in Seq(Messages) /\ queue' # <<>>
    <3>1. arrivals \in Seq(Messages) /\ queue \in Seq(Messages)
      OBVIOUS
    <3>2. arrivals' = Append(arrivals, m) /\ queue' = Append(queue, m)
      BY <1>1 DEF Arrive
    <3> HIDE DEF TypeOK
    <3>3. Append(arrivals, m) \in Seq(Messages)
      BY <3>1, AppendProperties
    <3>4. Append(queue, m) \in Seq(Messages) /\ Append(queue, m) # <<>>
      BY <3>1, AppendProperties
    <3>5. QED
      BY <3>2, <3>3, <3>4
  <2>2. QED
    BY <1>1, <2>1 DEF Arrive
<1>2. CASE Receive
  BY <1>2 DEF Receive
<1>3. CASE Map
  BY <1>3 DEF Map
<1>4. CASE SendLocal
  <2>1. Head(queue) \in Messages
    BY <1>4 DEF SendLocal
  <2>2. local' \in [Messages -> Nat] /\ \A m \in handled : local'[m] > 0
    BY <1>4, <2>1 DEF SendLocal
  <2>3. QED
    BY <1>4, <2>2 DEF SendLocal
<1>5. CASE Commit
  BY <1>5 DEF Commit
<1>6. CASE Abort
  BY <1>6 DEF Abort
<1>7. ASSUME NEW m \in Messages, Handle(m)
      PROVE  TypeOK'
  BY <1>7 DEF Handle
<1>8. ASSUME NEW m \in Messages, Append_Document(m)
      PROVE  TypeOK'
  <2>1. documents' \in [Messages -> Nat]
    BY <1>8 DEF Append_Document
  <2>2. QED
    BY <1>8, <2>1 DEF Append_Document
<1>9. ASSUME NEW m \in Messages, Handled(m)
      PROVE  TypeOK'
  <2>1. local[m] \in Nat /\ local[m] > 0
    BY <1>9 DEF Handled
  <2>2. local' \in [Messages -> Nat]
    BY <1>9, <2>1 DEF Handled
  <2>3. QED
    BY <1>9, <2>2 DEF Handled
<1>10. CASE Call_Throws
  BY <1>10 DEF Call_Throws
<1>11. CASE Handler_Throws
  BY <1>11 DEF Handler_Throws
<1>12. CASE Die
  BY <1>12 DEF Die
<1>13. CASE UNCHANGED vars
  BY <1>13 DEF vars
<1>14. QED
  BY <1>1, <1>2, <1>3, <1>4, <1>5, <1>6, <1>7, <1>8, <1>9, <1>10, <1>11, <1>12, <1>13
     DEF Next, queue_PeekCompleted, Audit_Handler

\* Each step keeps that what was saved is among the documents: only the handler stores, and nothing deletes.
LEMMA NextSaved == TypeOK /\ SavedIsStored /\ [Next]_vars => SavedIsStored'
<1> SUFFICES ASSUME TypeOK, SavedIsStored, [Next]_vars
             PROVE  SavedIsStored'
  OBVIOUS
<1> USE DEF delivery, reception
<1>1. CASE \E m \in Messages : Append_Document(m)
  BY <1>1 DEF Append_Document, SavedIsStored, TypeOK
<1>2. CASE UNCHANGED <<handled, saved, documents>>
  BY <1>2 DEF SavedIsStored
<1>3. CASE ~ saved'
  BY <1>3 DEF SavedIsStored
<1>4. QED
  BY <1>1, <1>2, <1>3
     DEF Next, Arrive, queue_PeekCompleted, Receive, Map, SendLocal, Commit, Abort,
         Audit_Handler, Handle, Handled, Call_Throws, Handler_Throws, Die, vars

\* What a step does to the copies: the listener makes one of the first message
\* of the queue, and no other step makes or takes away the first of a message.
LEMMA CopiesStep ==
  ASSUME TypeOK, SavedIsStored, [Next]_vars
  PROVE  IF SendLocal THEN Copied' = Copied \cup {Head(queue)} ELSE Copied' = Copied
<1> USE DEF delivery, reception, Copied
<1>1. CASE SendLocal
  <2>1. Head(queue) \in Messages
    BY <1>1 DEF SendLocal, TypeOK
  <2>2. QED
    BY <1>1, <2>1 DEF SendLocal, TypeOK
<1>2. CASE \E m \in Messages : Append_Document(m)
  <2> SUFFICES ASSUME NEW m \in Messages, Append_Document(m)
               PROVE  Copied' = Copied /\ ~ SendLocal
    BY <1>2
  <2>1. local[m] > 0
    BY DEF Append_Document, TypeOK
  <2>2. ~ SendLocal
    BY DEF Append_Document, SendLocal, TypeOK
  <2>3. QED
    BY <2>1, <2>2 DEF Append_Document, TypeOK
<1>3. CASE \E m \in Messages : Handled(m)
  <2> SUFFICES ASSUME NEW m \in Messages, Handled(m)
               PROVE  Copied' = Copied /\ ~ SendLocal
    BY <1>3
  <2>1. documents[m] > 0
    BY DEF Handled, SavedIsStored
  <2>2. ~ SendLocal
    BY DEF Handled, SendLocal, TypeOK
  <2>3. QED
    BY <2>1, <2>2 DEF Handled, TypeOK
<1>4. CASE ~ SendLocal /\ UNCHANGED <<local, documents>>
  BY <1>4
<1>5. QED
  BY <1>1, <1>2, <1>3, <1>4
     DEF Next, Arrive, queue_PeekCompleted, Receive, Map, Commit, Abort, Audit_Handler,
         Handle, Call_Throws, Handler_Throws, Die, vars

\* Each step keeps the order of the messages and what is known of the copies.
LEMMA NextOrder == IInv /\ [Next]_vars => Order' /\ Progress'
<1> SUFFICES ASSUME IInv, [Next]_vars
             PROVE  Order' /\ Progress'
  OBVIOUS
<1> USE DEF delivery, reception, failures
<1>0. TypeOK /\ Order /\ Progress
  BY DEF IInv
<1>1. /\ Len(arrivals) \in Nat /\ Len(queue) \in Nat /\ Taken \in Nat
      /\ Len(arrivals) = Taken + Len(queue)
      /\ \A i \in 1 .. Len(arrivals) : arrivals[i] \in Messages
  BY <1>0 DEF TypeOK, Order, Taken
<1>2. IF SendLocal THEN Copied' = Copied \cup {Head(queue)} ELSE Copied' = Copied
  BY CopiesStep DEF IInv
<1>3. ASSUME NEW m \in Messages, Arrive(m)
      PROVE  Order' /\ Progress'
  <2>1. Len(queue') = Len(queue) + 1 /\ Len(arrivals') = Len(arrivals) + 1
    BY <1>0, <1>3 DEF Arrive, TypeOK
  <2>2. Taken' = Taken
    BY <1>1, <2>1 DEF Taken
  <2>3. /\ \A i \in 1 .. Len(arrivals) : arrivals'[i] = arrivals[i]
        /\ arrivals'[Len(arrivals) + 1] = m
    BY <1>0, <1>3 DEF Arrive, TypeOK
  <2>4. /\ \A i \in 1 .. Len(queue) : queue'[i] = queue[i]
        /\ queue'[Len(queue) + 1] = m
    BY <1>0, <1>3 DEF Arrive, TypeOK
  <2>5. m \notin Seen /\ \A i \in 1 .. Len(arrivals) : arrivals[i] # m
    BY <1>3 DEF Arrive, Seen
  <2>6. Copied' = Copied /\ m \notin Copied
    <3>1. ~ SendLocal
      BY <1>3, <2>1, <1>1 DEF SendLocal
    <3>2. QED
      BY <1>0, <1>2, <2>5, <3>1 DEF Progress
  <2>7. \A i \in 1 .. Len(queue') : queue'[i] = arrivals'[Taken + i]
    <3> SUFFICES ASSUME NEW i \in 1 .. Len(queue')
                 PROVE  queue'[i] = arrivals'[Taken + i]
      OBVIOUS
    <3>1. CASE i \in 1 .. Len(queue)
      BY <1>0, <1>1, <2>3, <2>4, <3>1 DEF Order
    <3>2. CASE i = Len(queue) + 1
      BY <1>1, <2>3, <2>4, <3>2
    <3>3. QED
      BY <1>1, <2>1, <3>1, <3>2
  <2>8. \A i, j \in 1 .. Len(arrivals') : arrivals'[i] = arrivals'[j] => i = j
    <3> SUFFICES ASSUME NEW i \in 1 .. Len(arrivals'), NEW j \in 1 .. Len(arrivals'),
                        arrivals'[i] = arrivals'[j]
                 PROVE  i = j
      OBVIOUS
    <3>1. CASE i \in 1 .. Len(arrivals) /\ j \in 1 .. Len(arrivals)
      BY <1>0, <2>3, <3>1 DEF Order
    <3>2. CASE i = Len(arrivals) + 1 \/ j = Len(arrivals) + 1
      BY <1>1, <2>1, <2>3, <2>5, <3>2
    <3>3. QED
      BY <1>1, <2>1, <3>1, <3>2
  <2>9. Order'
    BY <1>1, <2>2, <2>7, <2>8 DEF Order
  <2>10. \A i \in 1 .. Taken : arrivals'[i] \in Copied
    BY <1>0, <1>1, <2>3 DEF Progress
  <2>11. \A i \in Taken + 2 .. Len(arrivals') : arrivals'[i] \notin Copied
    <3> SUFFICES ASSUME NEW i \in Taken + 2 .. Len(arrivals')
                 PROVE  arrivals'[i] \notin Copied
      OBVIOUS
    <3>1. CASE i = Len(arrivals) + 1
      BY <2>3, <2>6, <3>1
    <3>2. CASE i # Len(arrivals) + 1
      <4>1. i \in Taken + 2 .. Len(arrivals) /\ i \in 1 .. Len(arrivals)
        BY <1>1, <2>1, <3>2
      <4>2. QED
        BY <1>0, <2>3, <4>1 DEF Progress
    <3>3. QED
      BY <3>1, <3>2
  <2>12. Seen \subseteq Seen'
    BY <1>1, <2>1, <2>3 DEF Seen
  <2>13. listener' = "sent" => queue'[1] \in Copied
    <3> SUFFICES ASSUME listener = "sent"
                 PROVE  queue'[1] \in Copied
      BY <1>3 DEF Arrive
    <3>1. 1 \in 1 .. Len(queue)
      BY <1>0 DEF TypeOK
    <3>2. QED
      BY <1>0, <2>4, <3>1 DEF Progress
  <2>14. QED
    BY <1>0, <2>2, <2>6, <2>9, <2>10, <2>11, <2>12, <2>13 DEF Progress
<1>4. CASE SendLocal
  <2>1. /\ Head(queue) = queue[1] /\ 1 \in 1 .. Len(queue)
        /\ UNCHANGED <<arrivals, queue>>
    BY <1>0, <1>4 DEF SendLocal, TypeOK
  <2>2. Copied' = Copied \cup {queue[1]}
    BY <1>4, <1>2, <2>1
  <2>3. queue[1] = arrivals[Taken + 1] /\ Taken + 1 \in 1 .. Len(arrivals)
    BY <1>0, <1>1, <2>1 DEF Order
  <2>4. Taken' = Taken /\ Seen' = Seen /\ Order'
    BY <1>0, <2>1 DEF Taken, Seen, Order
  <2>5. \A i \in Taken + 2 .. Len(arrivals) : arrivals[i] \notin Copied'
    <3> SUFFICES ASSUME NEW i \in Taken + 2 .. Len(arrivals)
                 PROVE  arrivals[i] \notin Copied'
      OBVIOUS
    <3>1. i \in 1 .. Len(arrivals) /\ i # Taken + 1
      BY <1>1
    <3>2. arrivals[i] # queue[1]
      BY <1>0, <2>3, <3>1 DEF Order
    <3>3. QED
      BY <1>0, <2>2, <3>2 DEF Progress
  <2>6. queue[1] \in Seen
    BY <2>3 DEF Seen
  <2>7. QED
    BY <1>0, <2>1, <2>2, <2>4, <2>5, <2>6 DEF Progress
<1>5. CASE Commit
  <2>1. /\ 1 \in 1 .. Len(queue)
        /\ Len(queue') = Len(queue) - 1
        /\ \A i \in 1 .. Len(queue') : queue'[i] = queue[i + 1]
        /\ arrivals' = arrivals /\ listener = "sent" /\ listener' # "sent"
    BY <1>0, <1>5 DEF Commit, TypeOK
  <2>2. Copied' = Copied
    <3>1. ~ SendLocal
      BY <1>5 DEF Commit, SendLocal
    <3>2. QED
      BY <1>2, <3>1
  <2>3. Taken' = Taken + 1
    BY <1>1, <2>1 DEF Taken
  <2>4. queue[1] = arrivals[Taken + 1] /\ queue[1] \in Copied
    BY <1>0, <2>1 DEF Order, Progress
  <2>5. \A i \in 1 .. Len(queue') : queue'[i] = arrivals[Taken' + i]
    <3> SUFFICES ASSUME NEW i \in 1 .. Len(queue')
                 PROVE  queue'[i] = arrivals[Taken' + i]
      OBVIOUS
    <3>1. i + 1 \in 1 .. Len(queue) /\ Taken' + i = Taken + (i + 1)
      BY <1>1, <2>1, <2>3
    <3>2. QED
      BY <1>0, <2>1, <3>1 DEF Order
  <2>6. Order'
    BY <1>0, <1>1, <2>1, <2>3, <2>5 DEF Order
  <2>7. \A i \in 1 .. Taken' : arrivals[i] \in Copied
    BY <1>0, <1>1, <2>3, <2>4 DEF Progress
  <2>8. \A i \in Taken' + 2 .. Len(arrivals) : arrivals[i] \notin Copied
    <3> SUFFICES ASSUME NEW i \in Taken' + 2 .. Len(arrivals)
                 PROVE  arrivals[i] \notin Copied
      OBVIOUS
    <3>1. i \in Taken + 2 .. Len(arrivals)
      BY <1>1, <2>3
    <3>2. QED
      BY <1>0, <3>1 DEF Progress
  <2>9. QED
    BY <1>0, <2>1, <2>2, <2>6, <2>7, <2>8 DEF Progress, Seen
<1>6. CASE /\ ~ SendLocal /\ UNCHANGED <<arrivals, queue>>
           /\ listener' = "sent" => listener = "sent"
  BY <1>0, <1>6, <1>2 DEF Order, Progress, Taken, Seen
<1>7. QED
  BY <1>0, <1>3, <1>4, <1>5, <1>6
     DEF Next, queue_PeekCompleted, Receive, Map, Abort, Audit_Handler, Handle,
         Append_Document, Handled, Call_Throws, Handler_Throws, Die, vars, TypeOK

\* The strengthening holds in every state.
LEMMA Inductive == Spec => []IInv
<1>1. IInv /\ [Next]_vars => IInv'
  BY NextTypes, NextSaved, NextOrder DEF IInv
<1>2. QED
  BY <1>1, InitHolds, PTL DEF Spec

-----------------------------------------------------------------------------
\* Queues, handler and documents keep their types.
THEOREM AuditTypes == Spec => []TypeOK
<1>1. IInv => TypeOK
  BY DEF IInv
<1>2. QED
  BY <1>1, Inductive, PTL

\* An audit message is in one of the queues or stored at every instant,
\* whatever throws and whenever the process dies.
THEOREM NoMessageLost == Spec => []NothingLost
<1>1. IInv => NothingLost
  <2> SUFFICES ASSUME IInv, NEW i \in 1 .. Len(arrivals)
               PROVE  arrivals[i] \in Queued \/ arrivals[i] \in Copied
    BY DEF NothingLost, Seen, Copied
  <2>1. Taken \in Nat /\ Len(queue) \in Nat /\ Len(arrivals) = Taken + Len(queue)
    BY DEF IInv, TypeOK, Order, Taken
  <2>2. CASE i \in 1 .. Taken
    BY <2>2 DEF IInv, Progress
  <2>3. CASE i \notin 1 .. Taken
    <3>1. i - Taken \in 1 .. Len(queue) /\ Taken + (i - Taken) = i
      BY <2>1, <2>3
    <3>2. queue[i - Taken] = arrivals[i]
      BY <3>1 DEF IInv, Order
    <3>3. QED
      BY <3>1, <3>2 DEF Queued
  <2>4. QED
    BY <2>2, <2>3
<1>2. QED
  BY <1>1, Inductive, PTL

\* No message is sent on before one that came earlier.
THEOREM NoOvertaking == Spec => []SentInOrder
<1>1. IInv => SentInOrder
  <2> SUFFICES ASSUME IInv, NEW i \in 1 .. Len(arrivals), NEW j \in 1 .. Len(arrivals),
                      i < j, Copies(arrivals[j]) > 0
               PROVE  Copies(arrivals[i]) > 0
    BY DEF SentInOrder
  <2>0. TypeOK /\ Progress /\ Order /\ SavedIsStored
    BY DEF IInv
  <2>1. Len(arrivals) \in Nat /\ Taken \in Nat /\ arrivals[i] \in Messages /\ arrivals[j] \in Messages
    <3>1. arrivals \in Seq(Messages)
      BY <2>0 DEF TypeOK
    <3>2. Taken \in Nat
      BY <2>0 DEF Order
    <3>3. Len(arrivals) \in Nat /\ arrivals[i] \in Messages /\ arrivals[j] \in Messages
      BY <3>1
    <3>4. QED
      BY <3>2, <3>3
  <2>2. \A m \in Messages : Copies(m) > 0 <=> m \in Copied
    <3> SUFFICES ASSUME NEW m \in Messages
                 PROVE  Copies(m) > 0 <=> m \in Copied
      OBVIOUS
    <3>1. local[m] \in Nat /\ documents[m] \in Nat
      BY <2>0 DEF TypeOK
    <3>2. CASE saved /\ m \in handled
      <4>1. local[m] > 0 /\ documents[m] > 0
        BY <2>0, <3>2 DEF TypeOK, SavedIsStored
      <4>2. QED
        BY <3>1, <3>2, <4>1 DEF Copies, Copied
    <3>3. CASE ~ (saved /\ m \in handled)
      BY <3>1, <3>3 DEF Copies, Copied
    <3>4. QED
      BY <3>2, <3>3
  <2>3. j \notin Taken + 2 .. Len(arrivals)
    BY <2>0, <2>1, <2>2 DEF Progress
  <2>4. i \in 1 .. Taken
    BY <2>1, <2>3
  <2>5. QED
    BY <2>0, <2>1, <2>2, <2>4 DEF Progress
<1>2. QED
  BY <1>1, Inductive, PTL

-----------------------------------------------------------------------------
\* The duplicates.  A call that threw after SendLocal left the first message of
\* the queue sent: when it is received again it is sent once more, and that
\* duplicate is owed until then.

DuplicatesOf == [m \in Messages |-> Duplicates(m)]
DuplicatesSum == Sums(Messages, DuplicatesOf)[Messages]
Owed == IF queue # <<>> /\ queue[1] \in Copied /\ listener # "sent" THEN 1 ELSE 0
Paid == DuplicatesSum + Owed <= throws + 2 * deaths

\* The sum of the property is the one of the lemmas.
LEMMA SumIs == MapThenSumSet(Duplicates, Messages) = DuplicatesSum
<1> DEFINE One(f, s) == IF s = {} THEN 0 ELSE Duplicates(Some(s)) + f[s \ {Some(s)}]
           Two(f, s) == IF s = {} THEN 0 ELSE DuplicatesOf[Some(s)] + f[s \ {Some(s)}]
<1>1. MapThenSumSet(Duplicates, Messages)
        = (CHOOSE f : f = [s \in SUBSET Messages |-> One(f, s)])[Messages]
  BY DEF MapThenSumSet, MapThenFoldSet, Some
<1>2. DuplicatesSum = (CHOOSE f : f = [s \in SUBSET Messages |-> Two(f, s)])[Messages]
  BY DEF DuplicatesSum, Sums
<1>3. ASSUME NEW f, NEW s \in SUBSET Messages
      PROVE  One(f, s) = Two(f, s)
  <2>1. s # {} => Some(s) \in Messages
    BY DEF Some
  <2>2. s # {} => DuplicatesOf[Some(s)] = Duplicates(Some(s))
    BY <2>1 DEF DuplicatesOf
  <2>3. QED
    BY <2>2
<1> HIDE DEF One, Two
<1>4. ASSUME NEW f
      PROVE  [s \in SUBSET Messages |-> One(f, s)] = [s \in SUBSET Messages |-> Two(f, s)]
  BY <1>3
<1>5. (CHOOSE f : f = [s \in SUBSET Messages |-> One(f, s)])
        = CHOOSE f : f = [s \in SUBSET Messages |-> Two(f, s)]
  BY <1>4
<1>6. QED
  BY <1>1, <1>2, <1>5

\* Copies and duplicates are numbers.
Counted ==
  /\ \A m \in Messages : /\ Copies(m) \in Nat /\ Duplicates(m) \in Nat
                         /\ Copies(m) > 0 <=> m \in Copied
  /\ DuplicatesOf \in [Messages -> Nat]
  /\ DuplicatesSum \in Nat
  /\ Owed \in {0, 1}

\* No copy is counted that there is not.
LEMMA DuplicatesTypes == IInv => Counted
<1> SUFFICES ASSUME IInv
             PROVE  Counted
  OBVIOUS
<1>1. ASSUME NEW m \in Messages
      PROVE  Copies(m) \in Nat /\ (Copies(m) > 0 <=> m \in Copied)
  <2>1. local[m] \in Nat /\ documents[m] \in Nat
    BY DEF IInv, TypeOK
  <2>2. CASE saved /\ m \in handled
    <3>1. local[m] > 0 /\ documents[m] > 0
      BY <2>2 DEF IInv, TypeOK, SavedIsStored
    <3>2. QED
      BY <2>1, <2>2, <3>1 DEF Copies, Copied
  <2>3. CASE ~ (saved /\ m \in handled)
    BY <2>1, <2>3 DEF Copies, Copied
  <2>4. QED
    BY <2>2, <2>3
<1>2. \A m \in Messages : Duplicates(m) \in Nat
  BY <1>1 DEF Duplicates
<1>3. DuplicatesOf \in [Messages -> Nat]
  BY <1>2 DEF DuplicatesOf
<1>4. DuplicatesSum \in Nat
  BY <1>3, MessagesAssumption, SumsType DEF DuplicatesSum
<1>5. QED
  BY <1>1, <1>2, <1>3, <1>4 DEF Owed, Counted

\* The same after a step.
LEMMA DuplicatesTypesNext == IInv' => Counted'
BY DuplicatesTypes, PTL

\* A step that changes the copies of one message changes the sum by as much.
LEMMA SumFollows ==
  ASSUME IInv, IInv', NEW x \in Messages,
         \A m \in Messages : m # x => Copies(m)' = Copies(m)
  PROVE  /\ DuplicatesSum' + Duplicates(x) = DuplicatesSum + Duplicates(x)'
         /\ Copies(x)' = Copies(x) => DuplicatesSum' = DuplicatesSum
<1> DEFINE d == DuplicatesOf
           e == DuplicatesOf'
<1>1. d \in [Messages -> Nat] /\ DuplicatesSum \in Nat
  BY DuplicatesTypes DEF Counted
<1>2. e \in [Messages -> Nat] /\ DuplicatesSum' \in Nat
  BY DuplicatesTypesNext DEF Counted
<1>3. \A m \in Messages : d[m] = Duplicates(m) /\ e[m] = Duplicates(m)'
  BY DEF DuplicatesOf
<1>4. \A m \in Messages : m # x => e[m] = d[m]
  BY <1>3 DEF Duplicates
<1>5. Copies(x)' = Copies(x) => e[x] = d[x]
  BY <1>3 DEF Duplicates
<1>6. DuplicatesSum = Sums(Messages, d)[Messages] /\ DuplicatesSum' = Sums(Messages, e)[Messages]
  BY DEF DuplicatesSum
<1> HIDE DEF d, e
<1>7. Sums(Messages, e)[Messages] + d[x] = Sums(Messages, d)[Messages] + e[x]
  BY <1>1, <1>2, <1>4, MessagesAssumption, SumChanges
<1>8. d[x] \in Nat /\ e[x] \in Nat
  BY <1>1, <1>2
<1>9. QED
  BY <1>1, <1>2, <1>3, <1>5, <1>6, <1>7, <1>8

\* No step makes more duplicates than it pays for.
LEMMA NextPaid ==
  ASSUME IInv, IInv', Paid, [Next]_vars
  PROVE  Paid'
<1> DEFINE S == DuplicatesSum
<1>1. /\ TypeOK /\ S \in Nat /\ Owed \in {0, 1} /\ throws \in Nat /\ deaths \in Nat
      /\ S + Owed <= throws + 2 * deaths
      /\ \A m \in Messages : /\ Copies(m) \in Nat /\ Duplicates(m) \in Nat
                             /\ Copies(m) > 0 <=> m \in Copied
  BY DuplicatesTypes DEF IInv, TypeOK, Paid, Counted
<1>2. S' \in Nat /\ Owed' \in {0, 1}
  BY DuplicatesTypesNext DEF Counted, S
<1>3. S \in Int /\ S' \in Int /\ Owed \in Int /\ Owed' \in Int /\ Owed' <= Owed + 1
  BY <1>1, <1>2
<1>4. ASSUME S' = S
      PROVE  S' + Owed' <= S + Owed + 1
  <2> DEFINE a == S
             b == Owed
             c == S'
             d == Owed'
  <2>1. a \in Int /\ b \in Int /\ c \in Int /\ d \in Int /\ d <= b + 1 /\ c = a
    BY <1>3, <1>4
  <2> HIDE DEF a, b, c, d
  <2>2. c + d <= a + b + 1
    BY <2>1
  <2>3. QED
    BY <2>2 DEF a, b, c, d
<1>5. ASSUME S' <= S + 1
      PROVE  S' + Owed' <= S + Owed + 2
  <2> DEFINE a == S
             b == Owed
             c == S'
             d == Owed'
  <2>1. a \in Int /\ b \in Int /\ c \in Int /\ d \in Int /\ d <= b + 1 /\ c <= a + 1
    BY <1>3, <1>5
  <2> HIDE DEF a, b, c, d
  <2>2. c + d <= a + b + 2
    BY <2>1
  <2>3. QED
    BY <2>2 DEF a, b, c, d
<1>6. ASSUME S' <= S + 1, Owed' = Owed
      PROVE  S' + Owed' <= S + Owed + 1
  <2> DEFINE a == S
             b == Owed
             c == S'
  <2>1. a \in Int /\ b \in Int /\ c \in Int /\ c <= a + 1
    BY <1>3, <1>6
  <2> HIDE DEF a, b, c
  <2>2. c + b <= a + b + 1
    BY <2>1
  <2>3. QED
    BY <1>6, <2>2 DEF a, b, c
<1>7. ASSUME S' + Owed' <= S + Owed + 1, throws' = throws + 1, deaths' = deaths
      PROVE  Paid'
  <2>1. /\ S + Owed \in Int /\ S' + Owed' \in Int /\ throws \in Int /\ 2 * deaths \in Int
        /\ S + Owed <= throws + 2 * deaths
    BY <1>1, <1>2
  <2> DEFINE a == S + Owed
             b == S' + Owed'
             c == 2 * deaths
  <2>2. b <= (throws + 1) + c
    <3>1. a \in Int /\ b \in Int /\ throws \in Int /\ c \in Int /\ a <= throws + c /\ b <= a + 1
      BY <1>7, <2>1
    <3> HIDE DEF a, b, c
    <3>2. QED
      BY <3>1
  <2>3. QED
    BY <1>7, <2>2 DEF Paid
<1>8. ASSUME S' + Owed' <= S + Owed + 2, throws' = throws, deaths' = deaths + 1
      PROVE  Paid'
  <2>1. /\ S + Owed \in Int /\ S' + Owed' \in Int /\ throws \in Int /\ deaths \in Int
        /\ S + Owed <= throws + 2 * deaths
    BY <1>1, <1>2
  <2> DEFINE a == S + Owed
             b == S' + Owed'
  <2>2. b <= throws + 2 * (deaths + 1)
    <3>1. /\ a \in Int /\ b \in Int /\ throws \in Int /\ deaths \in Int
          /\ a <= throws + 2 * deaths /\ b <= a + 2
      BY <1>8, <2>1
    <3> HIDE DEF a, b
    <3>2. QED
      BY <3>1
  <2>3. QED
    BY <1>8, <2>2 DEF Paid
<1>9. IF SendLocal THEN Copied' = Copied \cup {Head(queue)} ELSE Copied' = Copied
  BY CopiesStep DEF IInv
<1>10. \A m \in Messages : local[m] \in Nat /\ documents[m] \in Nat
  BY <1>1 DEF TypeOK
<1> HIDE DEF S
<1> USE DEF delivery, reception, failures
<1>11. ASSUME \A m \in Messages : Copies(m)' = Copies(m)
      PROVE  S' = S
  <2>1. CASE Messages = {}
    <3>1. DuplicatesOf' = DuplicatesOf
      BY <2>1 DEF DuplicatesOf
    <3>2. QED
      BY <3>1 DEF S, DuplicatesSum
  <2>2. ASSUME NEW x \in Messages
        PROVE  S' = S
    BY <1>11, SumFollows DEF S
  <2>3. QED
    BY <2>1, <2>2
<1>12. ASSUME NEW x \in Messages, \A m \in Messages : m # x => Copies(m)' = Copies(m),
             Copies(x)' = Copies(x) + 1
      PROVE  S' = IF x \in Copied THEN S + 1 ELSE S
  <2>1. S' + Duplicates(x) = S + Duplicates(x)'
    BY <1>12, SumFollows DEF S
  <2>2. Duplicates(x)' = IF Copies(x) > 0 THEN Duplicates(x) + 1 ELSE Duplicates(x)
    <3>1. Duplicates(x)' = IF Copies(x)' > 1 THEN Copies(x)' - 1 ELSE 0
      BY DEF Duplicates
    <3>2. Copies(x) \in Nat
      BY <1>1
    <3>3. QED
      BY <1>12, <3>1, <3>2 DEF Duplicates
  <2>3. QED
    BY <1>1, <1>2, <2>1, <2>2
<1>13. ASSUME NEW m \in Messages, Arrive(m)
      PROVE  Paid'
  <2>1. S' = S
    BY <1>11, <1>13 DEF Arrive, Copies
  <2>2. Copied' = Copied
    BY <1>13 DEF Arrive, Copied
  <2>3. Owed' = Owed
    <3>1. CASE queue = <<>>
      <4>1. queue' = <<m>> /\ listener' = listener
        BY <1>13, <3>1 DEF Arrive
      <4>2. m \notin Copied
        BY <1>13 DEF Arrive, IInv, Progress
      <4>3. QED
        BY <2>2, <3>1, <4>1, <4>2 DEF Owed
    <3>2. CASE queue # <<>>
      <4>1. queue \in Seq(Messages) /\ queue' = Append(queue, m) /\ listener' = listener
        BY <1>1, <1>13 DEF Arrive, TypeOK
      <4>2. queue' # <<>> /\ queue'[1] = queue[1]
        BY <3>2, <4>1
      <4>3. QED
        BY <2>2, <3>2, <4>1, <4>2 DEF Owed
    <3>3. QED
      BY <3>1, <3>2
  <2>4. throws' = throws /\ deaths' = deaths
    BY <1>13 DEF Arrive
  <2>5. QED
    BY <1>1, <2>1, <2>3, <2>4 DEF Paid, S
<1>14. CASE SendLocal
  <2>0. PICK x \in Messages : x = Head(queue)
    BY <1>1, <1>14 DEF SendLocal, TypeOK
  <2>1. /\ x \in Messages /\ x = queue[1] /\ queue # <<>> /\ queue' = queue
        /\ listener # "sent" /\ listener' = "sent" /\ throws' = throws /\ deaths' = deaths
    BY <1>1, <1>14, <2>0 DEF SendLocal, TypeOK
  <2>2. \A m \in Messages : m # x => Copies(m)' = Copies(m)
    BY <1>1, <1>10, <1>14, <2>0 DEF SendLocal, Copies, TypeOK
  <2>3. Copies(x)' = Copies(x) + 1
    <3>1. local'[x] = local[x] + 1 /\ documents' = documents /\ handled' = handled /\ saved' = saved
      BY <1>1, <1>14, <2>0 DEF SendLocal, TypeOK
    <3>2. QED
      BY <1>10, <2>1, <3>1 DEF Copies
  <2>4. S' = IF x \in Copied THEN S + 1 ELSE S
    BY <1>12, <2>1, <2>2, <2>3
  <2>5. Owed' = 0 /\ Owed = IF x \in Copied THEN 1 ELSE 0
    BY <2>1 DEF Owed
  <2>6. QED
    BY <1>1, <1>2, <2>1, <2>4, <2>5 DEF Paid, S
<1>15. CASE Commit
  <2>1. S' = S
    BY <1>11, <1>15 DEF Commit, Copies
  <2>2. throws' = throws /\ deaths' = deaths
    BY <1>15 DEF Commit
  <2>3. Owed' = 0
    <3> SUFFICES ASSUME queue' # <<>>
                 PROVE  queue'[1] \notin Copied'
      BY DEF Owed
    <3>1. queue \in Seq(Messages) /\ queue # <<>> /\ queue' = Tail(queue) /\ arrivals' = arrivals
      BY <1>1, <1>15 DEF Commit, TypeOK
    <3>2. 2 \in 1 .. Len(queue) /\ queue'[1] = queue[2]
      BY <3>1
    <3>3. /\ Taken \in Nat /\ Len(arrivals) \in Nat /\ Len(queue) \in Nat
          /\ Len(arrivals) = Taken + Len(queue)
      <4>1. Taken \in Nat
        BY DEF IInv, Order
      <4>2. Len(arrivals) \in Nat /\ Len(queue) \in Nat
        BY <1>1 DEF TypeOK
      <4>3. QED
        BY <4>1, <4>2 DEF Taken
    <3>4. queue[2] = arrivals[Taken + 2] /\ Taken + 2 \in Taken + 2 .. Len(arrivals)
      BY <3>2, <3>3 DEF IInv, Order
    <3>5. queue[2] \notin Copied
      BY <3>4 DEF IInv, Progress
    <3>6. Copied' = Copied
      BY <1>15 DEF Commit, Copied
    <3>7. QED
      BY <3>2, <3>5, <3>6
  <2>4. QED
    BY <1>1, <2>1, <2>2, <2>3 DEF Paid, S
<1>16. CASE Call_Throws
  <2>1. S' = S
    BY <1>11, <1>16 DEF Call_Throws, Copies
  <2>2. throws' = throws + 1 /\ deaths' = deaths
    BY <1>16 DEF Call_Throws
  <2>4. S' + Owed' <= S + Owed + 1
    BY <1>3, <1>4, <2>1
  <2>5. QED
    BY <1>7, <2>2, <2>4
<1>17. CASE Receive \/ Map \/ Abort
  <2>1. S' = S
    BY <1>11, <1>17 DEF Receive, Map, Abort, Copies
  <2>2. /\ throws' = throws /\ deaths' = deaths /\ queue' = queue /\ Copied' = Copied
        /\ listener # "sent" /\ listener' # "sent"
    BY <1>17 DEF Receive, Map, Abort, Copied
  <2>3. Owed' = Owed
    BY <2>2 DEF Owed
  <2>4. QED
    BY <1>1, <2>1, <2>2, <2>3 DEF Paid, S
<1>18. ASSUME NEW m \in Messages, Handle(m) \/ Append_Document(m) \/ Handled(m)
       PROVE  Paid'
  <2>1. \A i \in Messages : Copies(i)' = Copies(i)
    <3> TAKE i \in Messages
    <3>1. CASE Handle(m)
      BY <1>10, <3>1 DEF Handle, Copies
    <3>2. CASE Append_Document(m)
      <4>1. /\ documents' = [documents EXCEPT ![m] = @ + 1] /\ documents \in [Messages -> Nat]
            /\ handled = {m} /\ handled' = handled /\ saved = FALSE /\ saved' = TRUE
            /\ local' = local
        BY <1>1, <3>2 DEF Append_Document, TypeOK
      <4>2. documents'[i] = IF i = m THEN documents[i] + 1 ELSE documents[i]
        BY <4>1
      <4>3. QED
        BY <1>10, <4>1, <4>2 DEF Copies
    <3>3. CASE Handled(m)
      <4>1. /\ local' = [local EXCEPT ![m] = @ - 1] /\ local \in [Messages -> Nat]
            /\ handled = {m} /\ handled' = {} /\ saved = TRUE /\ saved' = FALSE
            /\ documents' = documents
        BY <1>1, <3>3 DEF Handled, TypeOK
      <4>2. local'[i] = IF i = m THEN local[i] - 1 ELSE local[i]
        BY <4>1
      <4>3. QED
        BY <1>10, <4>1, <4>2 DEF Copies
    <3>4. QED
      BY <1>18, <3>1, <3>2, <3>3
  <2>2. S' = S
    BY <1>11, <2>1
  <2>3. /\ throws' = throws /\ deaths' = deaths /\ queue' = queue /\ listener' = listener
    BY <1>18 DEF Handle, Append_Document, Handled
  <2>4. Copied' = Copied
    BY <1>9, <1>18 DEF Handle, Append_Document, Handled, SendLocal
  <2>5. Owed' = Owed
    BY <2>3, <2>4 DEF Owed
  <2>6. QED
    BY <1>1, <2>2, <2>3, <2>5 DEF Paid, S
<1>19. ASSUME handled' = {}, saved' = FALSE, local' = local, documents' = documents
       PROVE  S' <= S + 1
  <2>1. CASE saved
    <3>1. PICK x \in Messages : handled = {x}
      BY <1>1, <2>1 DEF TypeOK
    <3>2. \A m \in Messages : m # x => Copies(m)' = Copies(m)
      BY <1>10, <1>19, <3>1 DEF Copies
    <3>3. Copies(x)' = Copies(x) + 1
      BY <1>10, <1>19, <2>1, <3>1 DEF Copies
    <3>4. S' = IF x \in Copied THEN S + 1 ELSE S
      BY <1>12, <3>2, <3>3
    <3>5. QED
      BY <1>1, <3>4
  <2>2. CASE ~ saved
    <3>1. S' = S
      BY <1>11, <1>19, <2>2 DEF Copies
    <3>2. QED
      BY <1>1, <3>1
  <2>3. QED
    BY <2>1, <2>2
<1>20. CASE Handler_Throws
  <2>1. S' <= S + 1
    BY <1>19, <1>20 DEF Handler_Throws
  <2>2. /\ throws' = throws + 1 /\ deaths' = deaths /\ queue' = queue /\ listener' = listener
        /\ Copied' = Copied
    BY <1>20 DEF Handler_Throws, Copied
  <2>3. Owed' = Owed
    BY <2>2 DEF Owed
  <2>4. S' + Owed' <= S + Owed + 1
    BY <1>6, <2>1, <2>3
  <2>5. QED
    BY <1>7, <2>2, <2>4
<1>21. CASE Die
  <2>1. S' <= S + 1
    BY <1>19, <1>21 DEF Die
  <2>2. throws' = throws /\ deaths' = deaths + 1
    BY <1>21 DEF Die
  <2>3. S' + Owed' <= S + Owed + 2
    BY <1>5, <2>1
  <2>4. QED
    BY <1>8, <2>2, <2>3
<1>22. CASE UNCHANGED vars
  <2>1. S' = S
    BY <1>11, <1>22 DEF vars, Copies
  <2>2. Owed' = Owed /\ throws' = throws /\ deaths' = deaths
    BY <1>22 DEF vars, Owed, Copied
  <2>3. QED
    BY <1>1, <2>1, <2>2 DEF Paid, S
<1>23. QED
  BY <1>13, <1>14, <1>15, <1>16, <1>17, <1>18, <1>20, <1>21, <1>22
     DEF Next, queue_PeekCompleted, Audit_Handler

\* A call that throws costs at most one duplicate, a death of the process two,
\* over all messages together.
THEOREM DuplicatesPaidFor == Spec => []DuplicatesBounded
<1>1. Init => Paid
  <2> SUFFICES ASSUME Init
               PROVE  Paid
    OBVIOUS
  <2>1. \A m \in Messages : Duplicates(m) = 0
    BY DEF Init, Duplicates, Copies
  <2>2. DuplicatesOf \in [Messages -> {0}]
    BY <2>1 DEF DuplicatesOf
  <2>3. DuplicatesSum = 0
    BY <2>2, MessagesAssumption, SumOfZeros DEF DuplicatesSum
  <2>4. QED
    BY <2>3 DEF Init, Paid, Owed
<1>2. IInv /\ IInv' /\ Paid /\ [Next]_vars => Paid'
  BY NextPaid
<1>3. IInv /\ Paid => DuplicatesBounded
  <2> SUFFICES ASSUME IInv, Paid
               PROVE  DuplicatesBounded
    OBVIOUS
  <2>1. /\ DuplicatesSum \in Nat /\ Owed \in {0, 1} /\ throws \in Nat /\ deaths \in Nat
        /\ DuplicatesSum + Owed <= throws + 2 * deaths
    BY DuplicatesTypes DEF IInv, TypeOK, Paid, Counted
  <2>2. DuplicatesSum <= throws + 2 * deaths
    BY <2>1
  <2>3. QED
    BY <2>2, SumIs DEF DuplicatesBounded
<1>4. QED
  BY <1>1, <1>2, <1>3, Inductive, PTL DEF Spec
=============================================================================
