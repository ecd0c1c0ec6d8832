---------------------------- MODULE OutboxProofs ----------------------------
(***************************************************************************)
(* Proofs about Outbox, for every number of events, workers and partitions  *)
(* and every batch size: it implements EventDelivery, and it bounds the     *)
(* copies of an event.                                                      *)
(***************************************************************************)
EXTENDS Outbox, DataLemmas, SequenceTheorems

-----------------------------------------------------------------------------
(* What Kept returns. *)

\* The equation that defines Kept, on the first m elements of s.
KeptStep(s, T, g, n) ==
    IF n = 0 THEN << >>
    ELSE IF s[n] \in T THEN Append(g[n - 1], s[n]) ELSE g[n - 1]

Keeps(s, T, m, g) == g = [n \in 0 .. m |-> KeptStep(s, T, g, n)]

\* The equation has a solution.
LEMMA KeptExists ==
    ASSUME NEW s, NEW T, NEW len \in Nat
    PROVE  \E g : Keeps(s, T, len, g)
<1> DEFINE Solved == {m \in Nat : \E g : Keeps(s, T, m, g)}
<1>1. 0 \in Solved
  <2>1. Keeps(s, T, 0, [n \in 0 .. 0 |-> << >>])
    BY DEF Keeps, KeptStep
  <2> QED
    BY <2>1
<1>2. ASSUME NEW m \in Solved PROVE m + 1 \in Solved
  <2>1. PICK g : Keeps(s, T, m, g)
    OBVIOUS
  <2> DEFINE h == [n \in 0 .. m + 1 |-> KeptStep(s, T, g, n)]
  <2>2. ASSUME NEW n \in 0 .. m PROVE h[n] = g[n]
    BY <2>1, <2>2 DEF Keeps
  <2>3. ASSUME NEW n \in 0 .. m + 1 PROVE KeptStep(s, T, h, n) = KeptStep(s, T, g, n)
    <3>1. n # 0 => h[n - 1] = g[n - 1]
      BY <2>2, <2>3
    <3> QED
      BY <3>1 DEF KeptStep
  <2>4. Keeps(s, T, m + 1, h)
    BY <2>3 DEF Keeps
  <2> HIDE DEF h
  <2> QED
    BY <2>4
<1>3. Solved = Nat
  <2>1. Solved \in SUBSET Nat
    OBVIOUS
  <2> HIDE DEF Solved
  <2> QED
    BY <1>1, <1>2, <2>1, SetInduction
<1> QED
  BY <1>3

LEMMA KeptUnfolds ==
    ASSUME NEW s, NEW T, Len(s) \in Nat
    PROVE  \E g : Keeps(s, T, Len(s), g) /\ Kept(s, T) = g[Len(s)]
<1> DEFINE g == CHOOSE f : Keeps(s, T, Len(s), f)
<1>1. Keeps(s, T, Len(s), g)
  BY KeptExists
<1>2. Kept(s, T) = g[Len(s)]
  BY DEF Kept, Keeps, KeptStep
<1> HIDE DEF g
<1> QED
  BY <1>1, <1>2

Distinct(s) == \A i, j \in 1 .. Len(s) : s[i] = s[j] => i = j

\* Appending an element that is not in a sequence keeps it free of duplicates.
LEMMA AppendDistinct ==
    ASSUME NEW S, NEW s \in Seq(S), NEW e \in S, Distinct(s), \A i \in 1 .. Len(s) : s[i] # e
    PROVE  Distinct(Append(s, e))
<1>1. /\ Len(Append(s, e)) = Len(s) + 1 /\ Len(s) \in Nat
      /\ \A i \in 1 .. Len(s) : Append(s, e)[i] = s[i]
      /\ Append(s, e)[Len(s) + 1] = e
  BY AppendProperties, LenProperties
<1> QED
  BY <1>1 DEF Distinct

\* What Kept returns are elements of T, none of them twice.
LEMMA KeptFacts ==
    ASSUME NEW S, NEW s \in Seq(S), Distinct(s), NEW T
    PROVE  /\ Kept(s, T) \in Seq(S)
           /\ \A i \in 1 .. Len(Kept(s, T)) : Kept(s, T)[i] \in T
           /\ Distinct(Kept(s, T))
<1>1. Len(s) \in Nat
  BY LenProperties
<1>2. PICK g : Keeps(s, T, Len(s), g) /\ Kept(s, T) = g[Len(s)]
  BY <1>1, KeptUnfolds
<1>a. \A n \in 0 .. Len(s) : g[n] = KeptStep(s, T, g, n)
  <2> DEFINE step(n) == KeptStep(s, T, g, n)
  <2>1. g = [n \in 0 .. Len(s) |-> step(n)]
    BY <1>2 DEF Keeps
  <2> HIDE DEF step
  <2>2. \A n \in 0 .. Len(s) : g[n] = step(n)
    BY <2>1
  <2> QED
    BY <2>2 DEF step
<1> DEFINE Fine(n) == /\ g[n] \in Seq(S)
                      /\ \A i \in 1 .. Len(g[n]) : g[n][i] \in T /\ \E j \in 1 .. n : g[n][i] = s[j]
                      /\ Distinct(g[n])
           Good == {n \in Nat : n <= Len(s) => Fine(n)}
<1>3. 0 \in Good
  <2>1. g[0] = << >>
    BY <1>1, <1>a DEF KeptStep
  <2>2. Fine(0)
    BY <2>1, EmptySeq DEF Distinct
  <2> QED
    BY <2>2
<1>4. ASSUME NEW n \in Good PROVE n + 1 \in Good
  <2> SUFFICES ASSUME n + 1 <= Len(s) PROVE Fine(n + 1)
    OBVIOUS
  <2>1. Fine(n) /\ n \in 0 .. Len(s) /\ n + 1 \in 1 .. Len(s)
    BY <1>1
  <2>2. g[n + 1] = KeptStep(s, T, g, n + 1)
    BY <1>1, <1>a, <2>1
  <2>3. g[n + 1] = IF s[n + 1] \in T THEN Append(g[n], s[n + 1]) ELSE g[n]
    BY <2>1, <2>2 DEF KeptStep
  <2>4. s[n + 1] \in S
    BY <2>1, ElementOfSeq
  <2> HIDE DEF Good
  <2>5. CASE s[n + 1] \notin T
    BY <2>1, <2>3, <2>5
  <2>6. CASE s[n + 1] \in T
    <3>1. PICK q, e : q = g[n] /\ e = s[n + 1]
      OBVIOUS
    <3>2. q \in Seq(S) /\ e \in S /\ g[n + 1] = Append(q, e) /\ Distinct(q) /\ Len(q) \in Nat
      BY <2>1, <2>3, <2>4, <2>6, <3>1, LenProperties
    <3>3. \A i \in 1 .. Len(q) : q[i] \in T /\ \E j \in 1 .. n : q[i] = s[j]
      BY <2>1, <3>1
    <3>4. \A i \in 1 .. Len(q) : q[i] # e
      BY <1>1, <2>1, <3>1, <3>3 DEF Distinct
    <3>5. Append(q, e) \in Seq(S) /\ Len(Append(q, e)) = Len(q) + 1
          /\ (\A i \in 1 .. Len(q) : Append(q, e)[i] = q[i]) /\ Append(q, e)[Len(q) + 1] = e
      BY <3>2, AppendProperties
    <3>6. \A i \in 1 .. Len(q) + 1 :
             Append(q, e)[i] \in T /\ \E j \in 1 .. n + 1 : Append(q, e)[i] = s[j]
      BY <2>1, <2>6, <3>1, <3>2, <3>3, <3>5
    <3>7. Distinct(Append(q, e))
      BY <3>2, <3>4, AppendDistinct
    <3> QED
      BY <3>2, <3>5, <3>6, <3>7
  <2> QED
    BY <2>5, <2>6
<1>5. Good = Nat
  <2>1. Good \in SUBSET Nat
    OBVIOUS
  <2> HIDE DEF Good
  <2> QED
    BY <1>3, <1>4, <2>1, SetInduction
<1>6. Fine(Len(s))
  BY <1>1, <1>5
<1> QED
  BY <1>2, <1>6

-----------------------------------------------------------------------------
(* The batches. *)

Typed ==
    /\ row \in [Events -> RowStates]
    /\ retries \in [Events -> Nat]
    /\ batch \in [Workers -> Seq(Events)]
    /\ pc \in [Workers -> {"idle", "publish", "mark", "fail"}]
    /\ log \in [Partitions -> Seq(Events)]
    /\ faults \in Nat

\* A row is inserted once.
Ordered ==
    /\ order \in Seq(Events) /\ Distinct(order)
    /\ \A i \in 1 .. Len(order) : row[order[i]] # "none"

\* A worker has read committed rows only, no row twice, and while it is in its
\* loop it has one to work on.  A committed row stays committed.
Batches ==
    \A w \in Workers :
        /\ pc[w] # "idle" => batch[w] # << >>
        /\ Distinct(batch[w])
        /\ \A i \in 1 .. Len(batch[w]) : batch[w][i] \in Committed

QInv == Typed /\ Ordered /\ Batches

\* The event a worker is at.
LEMMA HeadCommitted ==
    ASSUME QInv, NEW w \in Workers, pc[w] # "idle"
    PROVE  /\ batch[w] \in Seq(Events) /\ Len(batch[w]) \in Nat /\ Len(batch[w]) > 0
           /\ Head(batch[w]) = batch[w][1]
           /\ Head(batch[w]) \in Events /\ Head(batch[w]) \in Committed
<1>1. batch[w] \in Seq(Events) /\ batch[w] # << >>
  BY DEF QInv, Typed, Batches
<1>2. Len(batch[w]) \in Nat /\ Len(batch[w]) > 0 /\ Head(batch[w]) = batch[w][1]
  BY <1>1, HeadTailProperties, LenProperties, EmptySeq
<1>3. Head(batch[w]) \in Committed
  BY <1>2 DEF QInv, Batches
<1> QED
  BY <1>1, <1>2, <1>3 DEF Committed

\* The rest of a batch.
LEMMA TailFacts ==
    ASSUME NEW s \in Seq(Events), s # << >>
    PROVE  /\ Tail(s) \in Seq(Events)
           /\ Len(Tail(s)) = Len(s) - 1
           /\ Len(s) \in Nat /\ Len(s) > 0
           /\ \A i \in 1 .. Len(s) - 1 : Tail(s)[i] = s[i + 1]
BY HeadTailProperties, LenProperties, EmptySeq

\* A step that leaves the rows' states or only commits, and goes on with the
\* batch or leaves it alone, keeps the batches in order.
LEMMA NextEventKeeps ==
    ASSUME QInv, NEW w \in Workers, pc[w] # "idle", NextEvent(w), Committed \subseteq Committed'
    PROVE  /\ batch' \in [Workers -> Seq(Events)]
           /\ pc' \in [Workers -> {"idle", "publish", "mark", "fail"}]
           /\ Batches'
           /\ \A v \in Workers \ {w} : batch'[v] = batch[v] /\ pc'[v] = pc[v]
           /\ batch'[w] = Tail(batch[w]) /\ pc'[w] \in {"idle", "publish"}
<1>1. PICK s : s = batch[w]
  OBVIOUS
<1>2. s \in Seq(Events) /\ s # << >> /\ Distinct(s) /\ \A i \in 1 .. Len(s) : s[i] \in Committed
  BY <1>1 DEF QInv, Typed, Batches
<1>3. /\ Tail(s) \in Seq(Events)
      /\ Len(Tail(s)) = Len(s) - 1
      /\ Len(s) \in Nat /\ Len(s) > 0
      /\ \A i \in 1 .. Len(s) - 1 : Tail(s)[i] = s[i + 1]
  BY <1>2, TailFacts
<1>4. batch' = [batch EXCEPT ![w] = Tail(s)] /\ pc' = [pc EXCEPT ![w] = IF Len(s) > 1 THEN "publish" ELSE "idle"]
  BY <1>1 DEF NextEvent
<1>5. /\ batch' \in [Workers -> Seq(Events)] /\ batch'[w] = Tail(s)
      /\ pc' \in [Workers -> {"idle", "publish", "mark", "fail"}]
      /\ pc'[w] = IF Len(s) > 1 THEN "publish" ELSE "idle"
      /\ \A v \in Workers \ {w} : batch'[v] = batch[v] /\ pc'[v] = pc[v]
  BY <1>3, <1>4 DEF QInv, Typed
<1>6. Distinct(Tail(s)) /\ \A i \in 1 .. Len(Tail(s)) : Tail(s)[i] \in Committed
  BY <1>2, <1>3 DEF Distinct
<1>7. Len(s) > 1 => Tail(s) # << >>
  <2>1. Len(<< >>) = 0
    OBVIOUS
  <2>2. Len(s) > 1 => Len(Tail(s)) # 0
    BY <1>3
  <2> QED
    BY <2>1, <2>2
<1>8. Batches'
  <2> SUFFICES ASSUME NEW v \in Workers
               PROVE  /\ pc'[v] # "idle" => batch'[v] # << >>
                      /\ Distinct(batch'[v])
                      /\ \A i \in 1 .. Len(batch'[v]) : batch'[v][i] \in Committed'
    BY DEF Batches, Distinct
  <2>1. CASE v = w
    BY <1>5, <1>6, <1>7, <2>1
  <2>2. CASE v # w
    BY <1>5, <2>2 DEF QInv, Batches
  <2> QED
    BY <2>1, <2>2
<1> QED
  BY <1>1, <1>5, <1>8

\* A step that only moves a worker within its loop, or only commits rows.
LEMMA BatchesKept ==
    ASSUME QInv, Committed \subseteq Committed', batch' = batch,
           \A w \in Workers : pc'[w] # "idle" => pc[w] # "idle"
    PROVE  Batches'
BY DEF QInv, Batches, Distinct

\* A worker that starts over.
LEMMA BatchReplaced ==
    ASSUME QInv, NEW w \in Workers, NEW s \in Seq(Events), Distinct(s),
           \A i \in 1 .. Len(s) : s[i] \in Committed,
           NEW at \in {"idle", "publish"}, at = "publish" => s # << >>,
           batch' = [batch EXCEPT ![w] = s], pc' = [pc EXCEPT ![w] = at],
           Committed' = Committed
    PROVE  /\ batch' \in [Workers -> Seq(Events)]
           /\ pc' \in [Workers -> {"idle", "publish", "mark", "fail"}]
           /\ Batches'
           /\ \A v \in Workers \ {w} : batch'[v] = batch[v] /\ pc'[v] = pc[v]
           /\ batch'[w] = s /\ pc'[w] = at
<1>1. /\ batch' \in [Workers -> Seq(Events)] /\ batch'[w] = s
      /\ pc' \in [Workers -> {"idle", "publish", "mark", "fail"}] /\ pc'[w] = at
      /\ \A v \in Workers \ {w} : batch'[v] = batch[v] /\ pc'[v] = pc[v]
  BY DEF QInv, Typed
<1>2. Batches'
  <2> SUFFICES ASSUME NEW v \in Workers
               PROVE  /\ pc'[v] # "idle" => batch'[v] # << >>
                      /\ Distinct(batch'[v])
                      /\ \A i \in 1 .. Len(batch'[v]) : batch'[v][i] \in Committed'
    BY DEF Batches, Distinct
  <2>1. CASE v = w
    BY <1>1, <2>1
  <2>2. CASE v # w
    BY <1>1, <2>2 DEF QInv, Batches
  <2> QED
    BY <2>1, <2>2
<1> QED
  BY <1>1, <1>2

\* The rows a poll returns are committed, due, and different.
LEMMA PollReturns ==
    ASSUME QInv
    PROVE  /\ Pending \in Seq(Events) /\ FirstOf(Pending) \in Seq(Events)
           /\ Pending # << >> => FirstOf(Pending) # << >>
           /\ Distinct(FirstOf(Pending))
           /\ \A i \in 1 .. Len(FirstOf(Pending)) : FirstOf(Pending)[i] \in Due
<1>1. PICK s : s = Pending
  OBVIOUS
<1>2. s \in Seq(Events) /\ Distinct(s) /\ \A i \in 1 .. Len(s) : s[i] \in Due
  BY <1>1, KeptFacts DEF QInv, Ordered, Pending
<1>3. PICK k : k = IF Len(s) < BatchSize THEN Len(s) ELSE BatchSize
  OBVIOUS
<1>4. Len(s) \in Nat /\ k \in 0 .. Len(s) /\ (Len(s) > 0 => k > 0)
  BY <1>2, <1>3, LenProperties, OutboxAssumption
<1>5. /\ SubSeq(s, 1, k) \in Seq(Events)
      /\ Len(SubSeq(s, 1, k)) = k
      /\ \A i \in 1 .. k : SubSeq(s, 1, k)[i] = s[i]
  BY <1>2, <1>4, SubSeqProperties
<1>6. FirstOf(s) = SubSeq(s, 1, k)
  BY <1>3 DEF FirstOf
<1>7. s # << >> => SubSeq(s, 1, k) # << >>
  BY <1>2, <1>4, <1>5, EmptySeq
<1>8. Distinct(SubSeq(s, 1, k)) /\ \A i \in 1 .. k : SubSeq(s, 1, k)[i] \in Due
  <2>1. PICK q : q = SubSeq(s, 1, k)
    OBVIOUS
  <2>2. Len(q) = k /\ \A i \in 1 .. k : i \in 1 .. Len(s) /\ q[i] = s[i]
    BY <1>4, <1>5, <2>1
  <2>3. Distinct(q) /\ \A i \in 1 .. k : q[i] \in Due
    BY <1>2, <1>4, <2>2 DEF Distinct
  <2> QED
    BY <2>1, <2>3
<1> QED
  BY <1>1, <1>2, <1>5, <1>6, <1>7, <1>8

\* What a step does to the committed and to the delivered events.
LEMMA SameRows == ASSUME row' = row PROVE Committed' = Committed
BY DEF Committed

LEMMA SameLog == ASSUME log' = log PROVE Delivered' = Delivered
BY DEF Delivered

LEMMA InsertCommits ==
    ASSUME QInv, NEW e \in Events, InsertOutboxEvent(e) PROVE Committed' = Committed
BY DEF InsertOutboxEvent, QInv, Typed, Committed

LEMMA EndCommits ==
    ASSUME QInv, NEW e \in Events, EndBusinessTx(e)
    PROVE  Committed' = Committed \/ Committed' = Committed \cup {e}
<1>1. PICK end \in {"unpublished", "rolledBack"} : row' = [row EXCEPT ![e] = end]
  BY DEF EndBusinessTx
<1>2. row[e] = "open" /\ \A f \in Events : row'[f] = IF f = e THEN end ELSE row[f]
  BY <1>1 DEF EndBusinessTx, QInv, Typed
<1> QED
  BY <1>1, <1>2 DEF Committed

LEMMA MarkCommits ==
    ASSUME QInv, NEW w \in Workers, MarkPublished(w) PROVE Committed' = Committed
<1>1. Head(batch[w]) \in Committed /\ Head(batch[w]) \in Events
  BY HeadCommitted DEF MarkPublished
<1> QED
  BY <1>1 DEF MarkPublished, QInv, Typed, Committed

\* A message that is written is delivered, and was committed.
LEMMA WriteDelivers ==
    ASSUME QInv, NEW w \in Workers, pc[w] # "idle", WriteMessages(w)
    PROVE  /\ log' \in [Partitions -> Seq(Events)]
           /\ Delivered' = Delivered \cup {Head(batch[w])}
<1>1. PICK e : e = Head(batch[w])
  OBVIOUS
<1>2. e \in Events
  BY <1>1, HeadCommitted
<1>3. PICK p \in Partitions : log' = [log EXCEPT ![p] = Append(log[p], e)]
  BY <1>1 DEF WriteMessages
<1>4. log \in [Partitions -> Seq(Events)] /\ log[p] \in Seq(Events) /\ Len(log[p]) \in Nat
  BY LenProperties DEF QInv, Typed
<1>5. PICK a : a = Append(log[p], e)
  OBVIOUS
<1>6. /\ a \in Seq(Events) /\ Len(a) = Len(log[p]) + 1
      /\ \A i \in 1 .. Len(log[p]) : a[i] = log[p][i]
      /\ a[Len(log[p]) + 1] = e
  BY <1>2, <1>4, <1>5, AppendProperties
<1>7. DOMAIN a = 1 .. Len(log[p]) + 1 /\ DOMAIN log[p] = 1 .. Len(log[p])
  BY <1>4, <1>6, LenProperties
<1>8. ToSet(a) = ToSet(log[p]) \cup {e}
  BY <1>4, <1>6, <1>7 DEF ToSet
<1>9. /\ log' \in [Partitions -> Seq(Events)] /\ log'[p] = a
      /\ \A q \in Partitions \ {p} : log'[q] = log[q]
  BY <1>3, <1>4, <1>5, <1>6
<1>10. Delivered' = Delivered \cup {e}
  <2>1. \A x : x \in Delivered' <=> \E q \in Partitions : x \in ToSet(log'[q])
    BY DEF Delivered
  <2>2. \A x : x \in Delivered <=> \E q \in Partitions : x \in ToSet(log[q])
    BY DEF Delivered
  <2> QED
    BY <1>8, <1>9, <2>1, <2>2
<1> QED
  BY <1>1, <1>9, <1>10

LEMMA QInit == Init => QInv
<1> SUFFICES ASSUME Init PROVE QInv
  OBVIOUS
<1>1. Len(<< >>) = 0 /\ \A S : << >> \in Seq(S)
  OBVIOUS
<1>2. Typed
  BY <1>1 DEF Init, Typed, RowStates
<1>3. Ordered
  BY <1>1 DEF Init, Ordered, Distinct
<1>4. Batches
  BY <1>1 DEF Init, Batches, Distinct
<1> QED
  BY <1>2, <1>3, <1>4 DEF QInv

LEMMA QStep == QInv /\ [Next]_vars => QInv'
<1> SUFFICES ASSUME QInv, [Next]_vars PROVE QInv'
  OBVIOUS
<1>a. Typed /\ Ordered
  BY DEF QInv
<1>1. CASE UNCHANGED vars
  BY <1>1, SameRows DEF vars, QInv, Typed, Ordered, Batches, Distinct
<1>2. ASSUME NEW e \in Events, InsertOutboxEvent(e) PROVE QInv'
  <2>1. /\ row[e] = "none" /\ row' = [row EXCEPT ![e] = "open"] /\ order' = Append(order, e)
        /\ UNCHANGED <<retries, batch, pc, log, faults>>
    BY <1>2 DEF InsertOutboxEvent
  <2>2. Typed'
    BY <1>a, <2>1 DEF Typed, RowStates
  <2>3. Batches'
    BY <1>2, <2>1, InsertCommits, BatchesKept
  <2>4. /\ order' \in Seq(Events) /\ Len(order') = Len(order) + 1 /\ Len(order) \in Nat
        /\ \A i \in 1 .. Len(order) : order'[i] = order[i]
        /\ order'[Len(order) + 1] = e
    BY <1>a, <2>1, AppendProperties, LenProperties DEF Ordered
  <2>5. Distinct(order')
    <3>1. \A i \in 1 .. Len(order) : order[i] # e
      BY <1>a, <2>1 DEF Ordered
    <3> QED
      BY <1>a, <2>1, <3>1, AppendDistinct DEF Ordered
  <2>6. \A i \in 1 .. Len(order') : row'[order'[i]] # "none"
    <3>1. \A i \in 1 .. Len(order) : order[i] \in Events /\ row[order[i]] # "none"
      BY <1>a, ElementOfSeq DEF Ordered
    <3>2. \A f \in Events : row'[f] = IF f = e THEN "open" ELSE row[f]
      BY <1>a, <2>1 DEF Typed
    <3> QED
      BY <2>4, <3>1, <3>2
  <2> QED
    BY <2>2, <2>3, <2>4, <2>5, <2>6 DEF QInv, Ordered, Distinct
<1>3. ASSUME NEW e \in Events, EndBusinessTx(e) PROVE QInv'
  <2>1. /\ row' \in [Events -> RowStates]
        /\ \A f \in Events : row[f] # "none" => row'[f] # "none"
    BY <1>3, <1>a DEF EndBusinessTx, Typed, RowStates
  <2>2. UNCHANGED <<retries, order, batch, pc, log, faults>>
    BY <1>3 DEF EndBusinessTx
  <2>3. Ordered'
    BY <1>a, <2>1, <2>2, ElementOfSeq DEF Ordered, Distinct
  <2>4. Batches'
    BY <1>3, <2>2, EndCommits, BatchesKept
  <2> QED
    BY <1>a, <2>1, <2>2, <2>3, <2>4 DEF QInv, Typed
<1>4. ASSUME NEW w \in Workers, Poll(w) PROVE QInv'
  <2>1. PICK s : s = FirstOf(Pending)
    OBVIOUS
  <2>2. /\ pc[w] = "idle" /\ Pending # << >>
        /\ batch' = [batch EXCEPT ![w] = s] /\ pc' = [pc EXCEPT ![w] = "publish"]
        /\ UNCHANGED <<row, retries, order, log, faults>>
    BY <1>4, <2>1 DEF Poll
  <2>3. s \in Seq(Events) /\ s # << >> /\ Distinct(s) /\ \A i \in 1 .. Len(s) : s[i] \in Committed
    <3>1. Due \subseteq Committed
      BY DEF Due, Committed
    <3> QED
      BY <2>1, <2>2, <3>1, PollReturns
  <2>4. /\ batch' \in [Workers -> Seq(Events)]
        /\ pc' \in [Workers -> {"idle", "publish", "mark", "fail"}]
        /\ Batches'
    BY <2>2, <2>3, SameRows, BatchReplaced
  <2> QED
    BY <1>a, <2>2, <2>4 DEF QInv, Typed, Ordered, Distinct
<1>5. ASSUME NEW w \in Workers, PublishEvent(w) PROVE QInv'
  <2>1. /\ pc[w] = "publish" /\ WriteMessages(w) /\ pc' = [pc EXCEPT ![w] = "mark"]
        /\ UNCHANGED <<row, retries, order, batch, faults>>
    BY <1>5 DEF PublishEvent
  <2>2. log' \in [Partitions -> Seq(Events)]
    BY <2>1, WriteDelivers
  <2>3. Batches'
    BY <1>a, <2>1, SameRows, BatchesKept DEF Typed
  <2> QED
    BY <1>a, <2>1, <2>2, <2>3 DEF QInv, Typed, Ordered, Distinct
<1>6. ASSUME NEW w \in Workers, PublishFails(w) PROVE QInv'
  <2>1. /\ pc[w] = "publish" /\ pc' = [pc EXCEPT ![w] = "fail"]
        /\ WriteMessages(w) \/ log' = log
        /\ faults' = faults + 1
        /\ UNCHANGED <<row, retries, order, batch>>
    BY <1>6 DEF PublishFails, Fault
  <2>2. log' \in [Partitions -> Seq(Events)]
    BY <1>a, <2>1, WriteDelivers DEF Typed
  <2>3. Batches'
    BY <1>a, <2>1, SameRows, BatchesKept DEF Typed
  <2> QED
    BY <1>a, <2>1, <2>2, <2>3 DEF QInv, Typed, Ordered, Distinct
<1>7. ASSUME NEW w \in Workers, MarkPublished(w) PROVE QInv'
  <2>1. /\ pc[w] = "mark" /\ NextEvent(w)
        /\ row' = [row EXCEPT ![Head(batch[w])] = "published"]
        /\ UNCHANGED <<retries, order, log, faults>>
    BY <1>7 DEF MarkPublished
  <2>2. /\ batch' \in [Workers -> Seq(Events)]
        /\ pc' \in [Workers -> {"idle", "publish", "mark", "fail"}]
        /\ Batches'
    BY <1>7, <2>1, MarkCommits, NextEventKeeps
  <2>3. row' \in [Events -> RowStates] /\ \A f \in Events : row[f] # "none" => row'[f] # "none"
    BY <1>a, <2>1 DEF Typed, RowStates
  <2>4. Ordered'
    BY <1>a, <2>1, <2>3, ElementOfSeq DEF Ordered, Distinct
  <2> QED
    BY <1>a, <2>1, <2>2, <2>3, <2>4 DEF QInv, Typed
<1>8. ASSUME NEW w \in Workers, UpdateFails(w) PROVE QInv'
  <2>1. /\ pc[w] # "idle" /\ NextEvent(w) /\ faults' = faults + 1
        /\ UNCHANGED <<row, retries, order, log>>
    BY <1>8 DEF UpdateFails, Fault
  <2>2. /\ batch' \in [Workers -> Seq(Events)]
        /\ pc' \in [Workers -> {"idle", "publish", "mark", "fail"}]
        /\ Batches'
    BY <2>1, SameRows, NextEventKeeps
  <2> QED
    BY <1>a, <2>1, <2>2 DEF QInv, Typed, Ordered, Distinct
<1>9. ASSUME NEW w \in Workers, RecordFailure(w) PROVE QInv'
  <2>1. /\ pc[w] # "idle" /\ NextEvent(w)
        /\ retries' = [retries EXCEPT ![Head(batch[w])] = @ + 1]
        /\ UNCHANGED <<row, order, log, faults>>
    BY <1>9 DEF RecordFailure
  <2>2. /\ batch' \in [Workers -> Seq(Events)]
        /\ pc' \in [Workers -> {"idle", "publish", "mark", "fail"}]
        /\ Batches'
    BY <2>1, SameRows, NextEventKeeps
  <2>3. retries' \in [Events -> Nat]
    <3>1. Head(batch[w]) \in Events
      BY <2>1, HeadCommitted
    <3>2. retries[Head(batch[w])] + 1 \in Nat
      BY <1>a, <3>1 DEF Typed
    <3> QED
      BY <1>a, <2>1, <3>1, <3>2 DEF Typed
  <2> QED
    BY <1>a, <2>1, <2>2, <2>3 DEF QInv, Typed, Ordered, Distinct
<1>10. ASSUME NEW w \in Workers, Crash(w) PROVE QInv'
  <2>1. /\ batch' = [batch EXCEPT ![w] = << >>] /\ pc' = [pc EXCEPT ![w] = "idle"]
        /\ faults' = faults + 1
        /\ UNCHANGED <<row, retries, order, log>>
    BY <1>10 DEF Crash, Fault
  <2>2. << >> \in Seq(Events) /\ Distinct(<< >>) /\ \A i \in 1 .. Len(<< >>) : << >>[i] \in Committed
    BY DEF Distinct
  <2>3. /\ batch' \in [Workers -> Seq(Events)]
        /\ pc' \in [Workers -> {"idle", "publish", "mark", "fail"}]
        /\ Batches'
    BY <2>1, <2>2, SameRows, BatchReplaced
  <2> QED
    BY <1>a, <2>1, <2>3 DEF QInv, Typed, Ordered, Distinct
<1> QED
  BY <1>1, <1>2, <1>3, <1>4, <1>5, <1>6, <1>7, <1>8, <1>9, <1>10 DEF Next, Work

-----------------------------------------------------------------------------
(* The refinement. *)

LEMMA AllQInv == Spec => []QInv
BY QInit, QStep, PTL DEF Spec

\* Every step of the outbox is a step of what it promises, or none: inserting,
\* polling, marking, failing and crashing are not seen; a COMMIT commits the
\* event, and whatever a worker writes was committed before.
LEMMA StepDelivers == QInv /\ [Next]_vars => [Promise!Next]_(Promise!vars)
<1> SUFFICES ASSUME QInv, [Next]_vars
             PROVE  \/ \E e \in Events :
                          \/ Committed' = Committed \cup {e} /\ Delivered' = Delivered
                          \/ e \in Committed /\ Delivered' = Delivered \cup {e} /\ Committed' = Committed
                    \/ Committed' = Committed /\ Delivered' = Delivered
  BY DEF Promise!Next, Promise!Commit, Promise!Deliver, Promise!vars
<1>1. CASE row' = row /\ log' = log
  BY <1>1, SameRows, SameLog
<1>2. ASSUME NEW e \in Events, InsertOutboxEvent(e) PROVE Committed' = Committed /\ Delivered' = Delivered
  BY <1>2, InsertCommits, SameLog DEF InsertOutboxEvent
<1>3. ASSUME NEW e \in Events, EndBusinessTx(e)
      PROVE  (Committed' = Committed \/ Committed' = Committed \cup {e}) /\ Delivered' = Delivered
  BY <1>3, EndCommits, SameLog DEF EndBusinessTx
<1>4. ASSUME NEW w \in Workers, MarkPublished(w) PROVE Committed' = Committed /\ Delivered' = Delivered
  BY <1>4, MarkCommits, SameLog DEF MarkPublished
<1>5. ASSUME NEW w \in Workers, pc[w] # "idle", WriteMessages(w), row' = row
      PROVE  \E e \in Events :
                e \in Committed /\ Delivered' = Delivered \cup {e} /\ Committed' = Committed
  BY <1>5, HeadCommitted, WriteDelivers, SameRows
<1>6. ASSUME NEW w \in Workers,
             Poll(w) \/ RecordFailure(w) \/ UpdateFails(w) \/ Crash(w)
      PROVE  row' = row /\ log' = log
  BY <1>6 DEF Poll, RecordFailure, UpdateFails, Crash
<1>7. ASSUME NEW w \in Workers, PublishEvent(w) \/ PublishFails(w)
      PROVE  row' = row /\ (log' = log \/ (pc[w] # "idle" /\ WriteMessages(w)))
  BY <1>7 DEF PublishEvent, PublishFails
<1>8. CASE UNCHANGED vars
  BY <1>1, <1>8 DEF vars
<1>9. CASE Next
  <2>1. CASE \E e \in Events : InsertOutboxEvent(e) \/ EndBusinessTx(e)
    BY <1>2, <1>3, <2>1
  <2>2. CASE \E w \in Workers : Work(w) \/ PublishFails(w) \/ UpdateFails(w) \/ Crash(w)
    BY <1>1, <1>4, <1>5, <1>6, <1>7, <2>2 DEF Work
  <2> QED
    BY <1>9, <2>1, <2>2 DEF Next
<1> QED
  BY <1>8, <1>9

\* The outbox implements the safety half of EventDelivery for every number of
\* events, replicas, partitions and faults: an event reaches Kafka only when the
\* business transaction that wrote it committed (InsertOutboxEvent,
\* GetUnprocessedEvents and processOutbox).
THEOREM OutboxRefinesDelivery == Spec => OutboxImplementsDelivery
<1>1. Init => Promise!Init
  <2>1. Init => Committed = {}
    BY DEF Init, Committed
  <2>2. Init => Delivered = {}
    BY DEF Init, Delivered, ToSet
  <2> QED
    BY <2>1, <2>2 DEF Promise!Init
<1> QED
  BY <1>1, StepDelivers, AllQInv, PTL DEF Spec, OutboxImplementsDelivery, Promise!Safety

-----------------------------------------------------------------------------
(* The copies of an event. *)

Occurrences(e) ==
    UNION {{<<p, n>> : n \in {m \in 1 .. Len(log[p]) : log[p][m] = e}} : p \in Partitions}

\* The workers that have written e and not yet marked it.
Marking(e) == {w \in Workers : pc[w] = "mark" /\ batch[w][1] = e}

\* The workers that have e still before them.
WillWrite(e) ==
    {w \in Workers :
        /\ pc[w] # "idle"
        /\ \E i \in 1 .. Len(batch[w]) : batch[w][i] = e /\ (i = 1 => pc[w] = "publish")}

\* As long as e is not marked every copy is of a worker about to mark it or of a
\* fault, so a poll that still returns e adds a worker that has no copy yet.
CopiesInd ==
    \A e \in Events :
        /\ IsFiniteSet(Occurrences(e))
        /\ row[e] # "published" => Copies(e) <= Cardinality(Marking(e)) + faults
        /\ Copies(e) + Cardinality(WillWrite(e)) <= Cardinality(Workers) + faults

\* Two sets of workers that differ in one worker at most.
LEMMA SizesNear ==
    ASSUME NEW T \in SUBSET Workers, NEW U \in SUBSET Workers, NEW w,
           \A v \in Workers \ {w} : v \in T <=> v \in U
    PROVE  /\ Cardinality(T) \in Nat /\ Cardinality(U) \in Nat
           /\ (w \in T <=> w \in U) => Cardinality(U) = Cardinality(T)
           /\ w \in T /\ w \notin U => Cardinality(U) = Cardinality(T) - 1
           /\ w \notin T /\ w \in U => Cardinality(U) = Cardinality(T) + 1
<1>1. IsFiniteSet(T) /\ IsFiniteSet(U) /\ Cardinality(T) \in Nat /\ Cardinality(U) \in Nat
  BY OutboxAssumption, FS_Subset, FS_CardinalityType
<1>2. ASSUME w \in T <=> w \in U PROVE Cardinality(U) = Cardinality(T)
  <2>1. T = U
    BY <1>2
  <2> QED
    BY <2>1
<1>3. ASSUME w \in T, w \notin U PROVE Cardinality(U) = Cardinality(T) - 1
  <2>1. U = T \ {w}
    BY <1>3
  <2> QED
    BY <1>1, <1>3, <2>1, FS_RemoveElement
<1>4. ASSUME w \notin T, w \in U PROVE Cardinality(U) = Cardinality(T) + 1
  <2>1. U = T \cup {w}
    BY <1>4
  <2> QED
    BY <1>1, <1>4, <2>1, FS_AddElement
<1> QED
  BY <1>1, <1>2, <1>3, <1>4

\* No worker has an event before it that it is about to mark.
LEMMA WritersAndMarkers ==
    ASSUME QInv, NEW e \in Events
    PROVE  /\ Marking(e) \in SUBSET Workers /\ WillWrite(e) \in SUBSET Workers
           /\ Cardinality(Marking(e)) \in Nat /\ Cardinality(WillWrite(e)) \in Nat
           /\ Cardinality(Workers) \in Nat
           /\ Cardinality(Marking(e)) + Cardinality(WillWrite(e)) <= Cardinality(Workers)
<1>1. Marking(e) \in SUBSET Workers /\ WillWrite(e) \in SUBSET Workers
  BY DEF Marking, WillWrite
<1>2. Marking(e) \cap WillWrite(e) = {}
  <2> SUFFICES ASSUME NEW w \in Workers, w \in Marking(e), w \in WillWrite(e) PROVE FALSE
    BY <1>1
  <2>1. PICK i \in 1 .. Len(batch[w]) : batch[w][i] = e /\ i # 1
    BY DEF Marking, WillWrite
  <2>2. batch[w] \in Seq(Events) /\ Len(batch[w]) \in Nat /\ Distinct(batch[w])
    BY LenProperties DEF QInv, Typed, Batches
  <2>3. 1 \in 1 .. Len(batch[w])
    BY <2>1, <2>2
  <2> QED
    BY <2>1, <2>2, <2>3 DEF Distinct, Marking
<1>3. PICK A, B : A = Marking(e) /\ B = WillWrite(e)
  OBVIOUS
<1>4. IsFiniteSet(Workers) /\ A \in SUBSET Workers /\ B \in SUBSET Workers /\ A \cap B = {}
  BY <1>1, <1>2, <1>3, OutboxAssumption
<1>5. IsFiniteSet(A) /\ IsFiniteSet(B) /\ Cardinality(A) \in Nat /\ Cardinality(B) \in Nat /\ Cardinality(Workers) \in Nat
  BY <1>4, FS_Subset, FS_CardinalityType
<1>6. Cardinality(A \cup B) = Cardinality(A) + Cardinality(B)
  <2>1. Cardinality(A \cup B) = Cardinality(A) + Cardinality(B) - Cardinality(A \cap B)
    BY <1>5, FS_Union
  <2>2. Cardinality(A \cap B) = 0
    BY <1>4, FS_EmptySet
  <2> QED
    BY <1>5, <2>1, <2>2
<1>7. Cardinality(A \cup B) <= Cardinality(Workers)
  <2>1. A \cup B \in SUBSET Workers
    BY <1>4
  <2> QED
    BY <1>4, <2>1, FS_Subset
<1> QED
  BY <1>1, <1>3, <1>5, <1>6, <1>7

WorkersSplit ==
    \A e \in Events :
        /\ Marking(e) \in SUBSET Workers /\ WillWrite(e) \in SUBSET Workers
        /\ Cardinality(Marking(e)) \in Nat /\ Cardinality(WillWrite(e)) \in Nat
        /\ Cardinality(Marking(e)) + Cardinality(WillWrite(e)) <= Cardinality(Workers)

LEMMA AllSplit == QInv => WorkersSplit
BY WritersAndMarkers DEF WorkersSplit

LEMMA CopiesCounted ==
    ASSUME CopiesInd, NEW e \in Events
    PROVE  IsFiniteSet(Occurrences(e)) /\ Copies(e) = Cardinality(Occurrences(e)) /\ Copies(e) \in Nat
<1>1. IsFiniteSet(Occurrences(e)) /\ Copies(e) = Cardinality(Occurrences(e))
  BY DEF CopiesInd, Copies, Occurrences
<1> QED
  BY <1>1, FS_CardinalityType

LEMMA SameCopies ==
    ASSUME log' = log, NEW e PROVE Occurrences(e)' = Occurrences(e) /\ Copies(e)' = Copies(e)
BY DEF Occurrences, Copies

\* A write adds one occurrence, of the event that is written.
LEMMA WriteCopies ==
    ASSUME QInv, CopiesInd, NEW w \in Workers, pc[w] # "idle", WriteMessages(w), NEW e \in Events
    PROVE  /\ IsFiniteSet(Occurrences(e)')
           /\ Copies(e)' = IF e = Head(batch[w]) THEN Copies(e) + 1 ELSE Copies(e)
<1>1. PICK h : h = Head(batch[w])
  OBVIOUS
<1>2. h \in Events
  BY <1>1, HeadCommitted
<1>3. PICK p \in Partitions : log' = [log EXCEPT ![p] = Append(log[p], h)]
  BY <1>1 DEF WriteMessages
<1>4. PICK s : s = log[p]
  OBVIOUS
<1>5. log \in [Partitions -> Seq(Events)] /\ s \in Seq(Events) /\ Len(s) \in Nat
  BY <1>4, LenProperties DEF QInv, Typed
<1>6. PICK a : a = Append(s, h)
  OBVIOUS
<1>7. Len(a) = Len(s) + 1 /\ (\A i \in 1 .. Len(s) : a[i] = s[i]) /\ a[Len(s) + 1] = h
  BY <1>2, <1>5, <1>6, AppendProperties
<1>8. log'[p] = a /\ \A q \in Partitions \ {p} : log'[q] = log[q]
  BY <1>3, <1>4, <1>5, <1>6
<1>9. \A x : x \in Occurrences(e) <=>
                \E q \in Partitions : \E n \in 1 .. Len(log[q]) : log[q][n] = e /\ x = <<q, n>>
  BY DEF Occurrences
<1>10. \A x : x \in Occurrences(e)' <=>
                \E q \in Partitions : \E n \in 1 .. Len(log'[q]) : log'[q][n] = e /\ x = <<q, n>>
  BY DEF Occurrences
<1>11. PICK O, P, new : O = Occurrences(e) /\ P = Occurrences(e)' /\ new = <<p, Len(s) + 1>>
  OBVIOUS
<1>12. new \notin O
  <2> SUFFICES ASSUME new \in O PROVE FALSE
    OBVIOUS
  <2>1. PICK q, n : q \in Partitions /\ n \in 1 .. Len(log[q]) /\ new = <<q, n>>
    BY <1>9, <1>11
  <2>2. q = p /\ n = Len(s) + 1
    BY <1>11, <2>1
  <2> QED
    BY <1>4, <1>5, <2>1, <2>2
<1>13. e = h => P = O \cup {new}
  <2> SUFFICES ASSUME e = h, NEW x PROVE x \in P <=> x \in O \cup {new}
    OBVIOUS
  <2>1. ASSUME x \in P PROVE x \in O \cup {new}
    <3>1. PICK q, n : q \in Partitions /\ n \in 1 .. Len(log'[q]) /\ log'[q][n] = e /\ x = <<q, n>>
      BY <1>10, <1>11, <2>1
    <3>2. CASE q # p
      BY <1>8, <1>9, <1>11, <3>1, <3>2
    <3>3. CASE q = p /\ n = Len(s) + 1
      BY <1>11, <3>1, <3>3
    <3>4. CASE q = p /\ n # Len(s) + 1
      <4>1. n \in 1 .. Len(s) /\ s[n] = e
        BY <1>5, <1>7, <1>8, <3>1, <3>4
      <4> QED
        BY <1>4, <1>9, <1>11, <3>1, <3>4, <4>1
    <3> QED
      BY <3>2, <3>3, <3>4
  <2>2. ASSUME x \in O PROVE x \in P
    <3>1. PICK q, n : q \in Partitions /\ n \in 1 .. Len(log[q]) /\ log[q][n] = e /\ x = <<q, n>>
      BY <1>9, <1>11, <2>2
    <3>2. n \in 1 .. Len(log'[q]) /\ log'[q][n] = e
      <4>1. CASE q # p
        BY <1>8, <3>1, <4>1
      <4>2. CASE q = p
        BY <1>4, <1>5, <1>7, <1>8, <3>1, <4>2
      <4> QED
        BY <4>1, <4>2
    <3> QED
      BY <1>10, <1>11, <3>1, <3>2
  <2>3. new \in P
    <3>1. Len(s) + 1 \in 1 .. Len(log'[p]) /\ log'[p][Len(s) + 1] = e
      BY <1>5, <1>7, <1>8
    <3> QED
      BY <1>10, <1>11, <3>1
  <2> QED
    BY <2>1, <2>2, <2>3
<1>14. e # h => P = O
  <2> SUFFICES ASSUME e # h, NEW x PROVE x \in P <=> x \in O
    OBVIOUS
  <2>1. ASSUME x \in P PROVE x \in O
    <3>1. PICK q, n : q \in Partitions /\ n \in 1 .. Len(log'[q]) /\ log'[q][n] = e /\ x = <<q, n>>
      BY <1>10, <1>11, <2>1
    <3>2. n \in 1 .. Len(log[q]) /\ log[q][n] = e
      <4>1. CASE q # p
        BY <1>8, <3>1, <4>1
      <4>2. CASE q = p
        BY <1>4, <1>5, <1>7, <1>8, <3>1, <4>2
      <4> QED
        BY <4>1, <4>2
    <3> QED
      BY <1>9, <1>11, <3>1, <3>2
  <2>2. ASSUME x \in O PROVE x \in P
    <3>1. PICK q, n : q \in Partitions /\ n \in 1 .. Len(log[q]) /\ log[q][n] = e /\ x = <<q, n>>
      BY <1>9, <1>11, <2>2
    <3>2. n \in 1 .. Len(log'[q]) /\ log'[q][n] = e
      <4>1. CASE q # p
        BY <1>8, <3>1, <4>1
      <4>2. CASE q = p
        BY <1>4, <1>5, <1>7, <1>8, <3>1, <4>2
      <4> QED
        BY <4>1, <4>2
    <3> QED
      BY <1>10, <1>11, <3>1, <3>2
  <2> QED
    BY <2>1, <2>2
<1>15. IsFiniteSet(O) /\ Copies(e) = Cardinality(O) /\ Copies(e)' = Cardinality(P)
  BY <1>11, CopiesCounted DEF Copies, Occurrences
<1>16. IsFiniteSet(P) /\ Cardinality(P) = IF e = h THEN Cardinality(O) + 1 ELSE Cardinality(O)
  BY <1>12, <1>13, <1>14, <1>15, FS_AddElement
<1> QED
  BY <1>1, <1>11, <1>15, <1>16

\* What going on with the next event does to a worker's events.
LEMMA NextEventWrites ==
    ASSUME QInv, NEW w \in Workers, pc[w] \in {"mark", "fail"}, NextEvent(w), Committed \subseteq Committed',
           NEW e \in Events
    PROVE  /\ WillWrite(e)' = WillWrite(e)
           /\ \A v \in Workers \ {w} : v \in Marking(e)' <=> v \in Marking(e)
           /\ w \notin Marking(e)'
           /\ w \in Marking(e) => e = Head(batch[w]) /\ pc[w] = "mark"
<1>1. /\ \A v \in Workers \ {w} : batch'[v] = batch[v] /\ pc'[v] = pc[v]
      /\ batch'[w] = Tail(batch[w]) /\ pc'[w] \in {"idle", "publish"}
  BY NextEventKeeps
<1>2. PICK s : s = batch[w]
  OBVIOUS
<1>3. s \in Seq(Events) /\ s # << >> /\ Head(s) = s[1]
  <2>1. pc[w] # "idle"
    OBVIOUS
  <2> QED
    BY <1>2, <2>1, HeadCommitted, EmptySeq DEF QInv, Batches
<1>4. /\ Len(Tail(s)) = Len(s) - 1 /\ Len(s) \in Nat /\ Len(s) > 0
      /\ \A i \in 1 .. Len(s) - 1 : Tail(s)[i] = s[i + 1]
  BY <1>3, TailFacts
<1>5. pc'[w] = IF Len(s) > 1 THEN "publish" ELSE "idle"
  BY <1>2 DEF NextEvent, QInv, Typed
<1>6. w \in WillWrite(e)' <=> w \in WillWrite(e)
  <2>1. ASSUME w \in WillWrite(e)' PROVE w \in WillWrite(e)
    <3>1. PICK i \in 1 .. Len(batch'[w]) : batch'[w][i] = e
      BY <2>1 DEF WillWrite
    <3>2. i \in 1 .. Len(s) - 1 /\ s[i + 1] = e
      BY <1>1, <1>2, <1>4, <3>1
    <3>3. i + 1 \in 1 .. Len(s) /\ i + 1 # 1
      BY <1>4, <3>2
    <3> QED
      BY <1>2, <3>2, <3>3 DEF WillWrite
  <2>2. ASSUME w \in WillWrite(e) PROVE w \in WillWrite(e)'
    <3>1. PICK i \in 1 .. Len(s) : s[i] = e /\ i # 1
      BY <1>2, <2>2 DEF WillWrite
    <3>2. i - 1 \in 1 .. Len(s) - 1 /\ (i - 1) + 1 = i /\ Len(s) > 1
      BY <1>4, <3>1
    <3>3. PICK j : j = i - 1
      OBVIOUS
    <3>4. j \in 1 .. Len(batch'[w]) /\ batch'[w][j] = e /\ pc'[w] = "publish"
      BY <1>1, <1>2, <1>4, <1>5, <3>1, <3>2, <3>3
    <3> QED
      BY <3>4 DEF WillWrite
  <2> QED
    BY <2>1, <2>2
<1>7. \A v \in Workers \ {w} : v \in WillWrite(e)' <=> v \in WillWrite(e)
  BY <1>1 DEF WillWrite
<1>8. WillWrite(e)' = WillWrite(e)
  <2>1. WillWrite(e) \subseteq Workers /\ WillWrite(e)' \subseteq Workers
    BY DEF WillWrite
  <2> QED
    BY <1>6, <1>7, <2>1
<1> QED
  BY <1>1, <1>2, <1>3, <1>8 DEF Marking

LEMMA CopiesStart == Init => CopiesInd
<1> SUFFICES ASSUME Init, NEW e \in Events
             PROVE  /\ IsFiniteSet(Occurrences(e))
                    /\ Copies(e) <= Cardinality(Marking(e)) + faults
                    /\ Copies(e) + Cardinality(WillWrite(e)) <= Cardinality(Workers) + faults
  BY DEF CopiesInd
<1>1. Occurrences(e) = {}
  BY DEF Init, Occurrences
<1>2. IsFiniteSet(Occurrences(e)) /\ Copies(e) = 0
  BY <1>1, FS_EmptySet DEF Copies, Occurrences
<1>3. faults = 0
  BY DEF Init
<1> QED
  BY <1>2, <1>3, QInit, WritersAndMarkers

LEMMA CopiesStep == QInv /\ CopiesInd /\ [Next]_vars => CopiesInd'
<1> SUFFICES ASSUME QInv, CopiesInd, [Next]_vars, NEW e \in Events
             PROVE  /\ IsFiniteSet(Occurrences(e)')
                    /\ row'[e] # "published" => Copies(e)' <= Cardinality(Marking(e)') + faults'
                    /\ Copies(e)' + Cardinality(WillWrite(e)') <= Cardinality(Workers) + faults'
  BY DEF CopiesInd
<1> DEFINE Goal == /\ IsFiniteSet(Occurrences(e)')
                   /\ row'[e] # "published" => Copies(e)' <= Cardinality(Marking(e)') + faults'
                   /\ Copies(e)' + Cardinality(WillWrite(e)') <= Cardinality(Workers) + faults'
<1>a. /\ IsFiniteSet(Occurrences(e)) /\ Copies(e) \in Nat /\ faults \in Nat
      /\ row[e] # "published" => Copies(e) <= Cardinality(Marking(e)) + faults
      /\ Copies(e) + Cardinality(WillWrite(e)) <= Cardinality(Workers) + faults
  BY CopiesCounted DEF CopiesInd, QInv, Typed
<1>b. /\ Cardinality(Marking(e)) \in Nat /\ Cardinality(WillWrite(e)) \in Nat /\ Cardinality(Workers) \in Nat
      /\ Marking(e) \in SUBSET Workers /\ WillWrite(e) \in SUBSET Workers
      /\ Cardinality(Marking(e)) + Cardinality(WillWrite(e)) <= Cardinality(Workers)
  BY WritersAndMarkers
<1>c. /\ Cardinality(Marking(e)') \in Nat /\ Cardinality(WillWrite(e)') \in Nat
      /\ Marking(e)' \in SUBSET Workers /\ WillWrite(e)' \in SUBSET Workers
      /\ Cardinality(Marking(e)') + Cardinality(WillWrite(e)') <= Cardinality(Workers)
  <2>1. QInv'
    BY QStep
  <2>2. WorkersSplit'
    BY <2>1, AllSplit, PTL
  <2> QED
    BY <2>2 DEF WorkersSplit
\* How the sets of workers may change when worker w takes a step.
<1>d. ASSUME NEW w \in Workers, \A v \in Workers \ {w} : batch'[v] = batch[v] /\ pc'[v] = pc[v]
      PROVE  /\ (w \in Marking(e) <=> w \in Marking(e)') => Cardinality(Marking(e)') = Cardinality(Marking(e))
             /\ w \notin Marking(e) /\ w \in Marking(e)' => Cardinality(Marking(e)') = Cardinality(Marking(e)) + 1
             /\ w \in Marking(e) /\ w \notin Marking(e)' => Cardinality(Marking(e)') = Cardinality(Marking(e)) - 1
             /\ (w \in WillWrite(e) <=> w \in WillWrite(e)') => Cardinality(WillWrite(e)') = Cardinality(WillWrite(e))
             /\ w \in WillWrite(e) /\ w \notin WillWrite(e)' => Cardinality(WillWrite(e)') = Cardinality(WillWrite(e)) - 1
  <2>1. PICK A, B, C, D : A = Marking(e) /\ B = Marking(e)' /\ C = WillWrite(e) /\ D = WillWrite(e)'
    OBVIOUS
  <2>2. \A v \in Workers \ {w} : (v \in A <=> v \in B) /\ (v \in C <=> v \in D)
    BY <1>d, <2>1 DEF Marking, WillWrite
  <2>3. A \in SUBSET Workers /\ B \in SUBSET Workers /\ C \in SUBSET Workers /\ D \in SUBSET Workers
    BY <1>b, <1>c, <2>1
  <2> QED
    BY <2>1, <2>2, <2>3, SizesNear
<1>1. CASE UNCHANGED <<batch, pc, log, faults>> /\ (row'[e] # "published" => row[e] # "published")
  <2>1. Marking(e)' = Marking(e) /\ WillWrite(e)' = WillWrite(e)
    BY <1>1 DEF Marking, WillWrite
  <2> QED
    BY <1>1, <1>a, <2>1, SameCopies
<1>2. ASSUME NEW f \in Events, InsertOutboxEvent(f) \/ EndBusinessTx(f) PROVE Goal
  <2>1. row'[e] # "published" => row[e] # "published"
    BY <1>2 DEF InsertOutboxEvent, EndBusinessTx, QInv, Typed
  <2> QED
    BY <1>1, <1>2, <2>1 DEF InsertOutboxEvent, EndBusinessTx
<1>3. ASSUME NEW w \in Workers, Poll(w) PROVE Goal
  <2>1. PICK s : s = FirstOf(Pending)
    OBVIOUS
  <2>2. /\ pc[w] = "idle" /\ batch' = [batch EXCEPT ![w] = s] /\ pc' = [pc EXCEPT ![w] = "publish"]
        /\ UNCHANGED <<row, log, faults>>
    BY <1>3, <2>1 DEF Poll
  <2>3. /\ batch'[w] = s /\ pc'[w] = "publish"
        /\ \A v \in Workers \ {w} : batch'[v] = batch[v] /\ pc'[v] = pc[v]
    BY <2>2 DEF QInv, Typed
  <2>4. w \notin Marking(e) /\ w \notin Marking(e)' /\ w \notin WillWrite(e)
    BY <2>2, <2>3 DEF Marking, WillWrite
  <2>5. Cardinality(Marking(e)') = Cardinality(Marking(e))
    BY <1>d, <2>3, <2>4
  <2>6. Copies(e)' = Copies(e) /\ IsFiniteSet(Occurrences(e)')
    BY <1>a, <2>2, SameCopies
  <2>7. CASE w \in WillWrite(e)'
    <3>1. PICK i \in 1 .. Len(s) : s[i] = e
      BY <2>3, <2>7 DEF WillWrite
    <3>2. row[e] = "unpublished"
      BY <2>1, <3>1, PollReturns DEF Due
    <3> QED
      BY <1>a, <1>b, <1>c, <2>2, <2>5, <2>6, <3>2
  <2>8. CASE w \notin WillWrite(e)'
    <3>1. Cardinality(WillWrite(e)') = Cardinality(WillWrite(e))
      BY <1>d, <2>3, <2>4, <2>8
    <3> QED
      BY <1>a, <2>2, <2>5, <2>6, <3>1
  <2> QED
    BY <2>7, <2>8
<1>e. ASSUME NEW w \in Workers, pc[w] = "publish"
      PROVE  /\ w \notin Marking(e) /\ Len(batch[w]) \in Nat /\ 1 \in 1 .. Len(batch[w])
             /\ Head(batch[w]) = batch[w][1] /\ Distinct(batch[w])
             /\ e = Head(batch[w]) => w \in WillWrite(e)
  <2>1. Len(batch[w]) \in Nat /\ 1 \in 1 .. Len(batch[w]) /\ Head(batch[w]) = batch[w][1] /\ Distinct(batch[w])
    BY <1>e, HeadCommitted DEF QInv, Batches
  <2> QED
    BY <1>e, <2>1 DEF Marking, WillWrite
<1>4. ASSUME NEW w \in Workers, PublishEvent(w) PROVE Goal
  <2>1. /\ pc[w] = "publish" /\ WriteMessages(w) /\ pc' = [pc EXCEPT ![w] = "mark"]
        /\ UNCHANGED <<row, batch, faults>>
    BY <1>4 DEF PublishEvent
  <2>2. pc'[w] = "mark" /\ \A v \in Workers \ {w} : batch'[v] = batch[v] /\ pc'[v] = pc[v]
    BY <2>1 DEF QInv, Typed
  <2>3. /\ IsFiniteSet(Occurrences(e)')
        /\ Copies(e)' = IF e = Head(batch[w]) THEN Copies(e) + 1 ELSE Copies(e)
    BY <2>1, WriteCopies
  <2>4. CASE e = Head(batch[w])
    <3>1. w \notin Marking(e) /\ w \in Marking(e)' /\ w \in WillWrite(e)
      BY <1>e, <2>1, <2>2, <2>4 DEF Marking
    <3>2. w \notin WillWrite(e)'
      BY <1>e, <2>1, <2>2, <2>4 DEF WillWrite, Distinct
    <3>3. /\ Cardinality(Marking(e)') = Cardinality(Marking(e)) + 1
          /\ Cardinality(WillWrite(e)') = Cardinality(WillWrite(e)) - 1
      BY <1>d, <2>2, <3>1, <3>2
    <3> QED
      BY <1>a, <1>b, <2>1, <2>3, <2>4, <3>3
  <2>5. CASE e # Head(batch[w])
    <3>1. w \notin Marking(e) /\ w \notin Marking(e)'
      BY <1>e, <2>1, <2>2, <2>5 DEF Marking
    <3>2. w \in WillWrite(e)' <=> w \in WillWrite(e)
      BY <1>e, <2>1, <2>2, <2>5 DEF WillWrite
    <3>3. /\ Cardinality(Marking(e)') = Cardinality(Marking(e))
          /\ Cardinality(WillWrite(e)') = Cardinality(WillWrite(e))
      BY <1>d, <2>2, <3>1, <3>2
    <3> QED
      BY <1>a, <1>b, <2>1, <2>3, <2>5, <3>3
  <2> QED
    BY <2>4, <2>5
<1>5. ASSUME NEW w \in Workers, PublishFails(w) PROVE Goal
  <2>2. pc'[w] = "fail" /\ \A v \in Workers \ {w} : batch'[v] = batch[v] /\ pc'[v] = pc[v]
    BY <1>5 DEF PublishFails, QInv, Typed
  <2>3. /\ IsFiniteSet(Occurrences(e)')
        /\ \/ Copies(e)' = Copies(e)
           \/ Copies(e)' = IF e = Head(batch[w]) THEN Copies(e) + 1 ELSE Copies(e)
    BY <1>5, <1>a, WriteCopies, SameCopies DEF PublishFails
  <2>4. w \notin Marking(e) /\ w \notin Marking(e)'
    BY <1>5, <1>e, <2>2 DEF Marking, PublishFails
  <2>5. Cardinality(Marking(e)') = Cardinality(Marking(e))
    BY <1>d, <2>2, <2>4
  <2>6. Cardinality(WillWrite(e)') <= Cardinality(WillWrite(e))
    <3>1. w \in WillWrite(e)' => w \in WillWrite(e)
      BY <1>5, <1>e, <2>2 DEF WillWrite, PublishFails
    <3>2. \/ w \in WillWrite(e)' <=> w \in WillWrite(e)
          \/ w \in WillWrite(e) /\ w \notin WillWrite(e)'
      BY <3>1
    <3> QED
      BY <1>b, <1>c, <1>d, <2>2, <3>2
  <2>7. row' = row /\ faults' = faults + 1
    BY <1>5 DEF PublishFails, Fault
  <2> QED
    BY <1>a, <1>b, <1>c, <2>3, <2>5, <2>6, <2>7
<1>6. ASSUME NEW w \in Workers, MarkPublished(w) PROVE Goal
  <2>1. /\ pc[w] = "mark" /\ NextEvent(w) /\ UNCHANGED <<log, faults>>
        /\ row' = [row EXCEPT ![Head(batch[w])] = "published"]
    BY <1>6 DEF MarkPublished
  <2>2. /\ WillWrite(e)' = WillWrite(e)
        /\ \A v \in Workers \ {w} : v \in Marking(e)' <=> v \in Marking(e)
        /\ w \notin Marking(e)'
        /\ w \in Marking(e) => e = Head(batch[w])
    BY <1>6, <2>1, MarkCommits, NextEventWrites
  <2>3. Copies(e)' = Copies(e) /\ IsFiniteSet(Occurrences(e)')
    BY <1>a, <2>1, SameCopies
  <2>4. row'[e] # "published" => row[e] # "published" /\ e # Head(batch[w])
    BY <2>1 DEF QInv, Typed
  <2>5. e # Head(batch[w]) => Marking(e)' = Marking(e)
    <3>1. PICK A, B : A = Marking(e) /\ B = Marking(e)'
      OBVIOUS
    <3>2. e # Head(batch[w]) => \A v \in Workers : v \in A <=> v \in B
      BY <2>2, <3>1
    <3>3. A \subseteq Workers /\ B \subseteq Workers
      BY <1>b, <1>c, <3>1
    <3>4. e # Head(batch[w]) => A = B
      BY <3>2, <3>3
    <3> QED
      BY <3>1, <3>4
  <2> QED
    BY <1>a, <2>1, <2>2, <2>3, <2>4, <2>5
<1>7. ASSUME NEW w \in Workers, UpdateFails(w) \/ RecordFailure(w) PROVE Goal
  <2>1. /\ pc[w] \in {"mark", "fail"} /\ NextEvent(w) /\ UNCHANGED <<row, log>>
        /\ \/ faults' = faults + 1
           \/ faults' = faults /\ pc[w] = "fail"
    BY <1>7 DEF UpdateFails, RecordFailure, Fault
  <2>2. /\ WillWrite(e)' = WillWrite(e)
        /\ \A v \in Workers \ {w} : v \in Marking(e)' <=> v \in Marking(e)
        /\ w \notin Marking(e)'
        /\ w \in Marking(e) => pc[w] = "mark"
    BY <2>1, SameRows, NextEventWrites
  <2>3. Copies(e)' = Copies(e) /\ IsFiniteSet(Occurrences(e)')
    BY <1>a, <2>1, SameCopies
  <2>4. \/ Cardinality(Marking(e)') = Cardinality(Marking(e))
        \/ pc[w] = "mark" /\ Cardinality(Marking(e)') = Cardinality(Marking(e)) - 1
    <3>1. PICK A, B : A = Marking(e) /\ B = Marking(e)'
      OBVIOUS
    <3> QED
      BY <1>b, <1>c, <2>2, <3>1, SizesNear
  <2> QED
    BY <1>a, <1>b, <2>1, <2>2, <2>3, <2>4
<1>8. ASSUME NEW w \in Workers, Crash(w) PROVE Goal
  <2>1. /\ batch' = [batch EXCEPT ![w] = << >>] /\ pc' = [pc EXCEPT ![w] = "idle"]
        /\ faults' = faults + 1 /\ UNCHANGED <<row, log>>
    BY <1>8 DEF Crash, Fault
  <2>2. pc'[w] = "idle" /\ \A v \in Workers \ {w} : batch'[v] = batch[v] /\ pc'[v] = pc[v]
    BY <2>1 DEF QInv, Typed
  <2>3. w \notin Marking(e)' /\ w \notin WillWrite(e)'
    BY <2>2 DEF Marking, WillWrite
  <2>4. /\ Cardinality(Marking(e)') >= Cardinality(Marking(e)) - 1
        /\ Cardinality(WillWrite(e)') <= Cardinality(WillWrite(e))
    BY <1>b, <1>c, <1>d, <2>2, <2>3
  <2>5. Copies(e)' = Copies(e) /\ IsFiniteSet(Occurrences(e)')
    BY <1>a, <2>1, SameCopies
  <2> QED
    BY <1>a, <1>b, <1>c, <2>1, <2>4, <2>5
<1>9. CASE UNCHANGED vars
  BY <1>1, <1>9 DEF vars
<1> QED
  BY <1>2, <1>3, <1>4, <1>5, <1>6, <1>7, <1>8, <1>9 DEF Next, Work

\* Without a lock that outlives the SELECT, an event may be published by every
\* replica that read it, but by each of them once, and once more for each fault:
\* for every number of replicas, events and partitions and every batch size.
THEOREM DuplicatesAreBounded == Spec => []DuplicatesBounded
<1>1. QInv /\ CopiesInd => DuplicatesBounded
  <2> SUFFICES ASSUME QInv, CopiesInd, NEW e \in Events PROVE Copies(e) <= Cardinality(Workers) + faults
    BY DEF DuplicatesBounded
  <2>1. Copies(e) \in Nat /\ Cardinality(WillWrite(e)) \in Nat /\ Cardinality(Workers) \in Nat /\ faults \in Nat
    BY CopiesCounted, WritersAndMarkers DEF QInv, Typed
  <2> QED
    BY <2>1 DEF CopiesInd
<1> QED
  BY <1>1, CopiesStart, CopiesStep, AllQInv, PTL DEF Spec

=============================================================================
