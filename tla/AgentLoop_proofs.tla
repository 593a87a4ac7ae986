--------------------------- MODULE AgentLoop_proofs ---------------------------
(***************************************************************************)
(* AgentLoop for any bounds: the pairing of calls with results, the order  *)
(* of results in a batch, what unknown effects stop, that the work of a    *)
(* task shrinks, that a failed task is told so, and that the history it    *)
(* joins has no gap.  And the guard against a task that gets nowhere, for  *)
(* any number of calls, contents and tasks and any length of its memory.   *)
(***************************************************************************)
EXTENDS AgentLoop, ProgressGuard, SequenceTheorems, FiniteSetTheorems, TLAPS

-----------------------------------------------------------------------------
(* Sequences of messages *)

\* Paired for the first l messages of b, which hold all results of their calls.
PairedUpTo(b, l) ==
    \A i \in 1 .. l :
        /\ b[i].kind = "calls" =>
               \A j \in 1 .. b[i].n : i + j <= l /\ b[i + j].kind \in Answers /\ b[i + j].n = j
        /\ b[i].kind \in Answers => Belongs(b, i)

\* Block b ends with a batch of c calls, k of which have their result.
OpenBatch(b, c, k) ==
    /\ c \in Nat /\ k \in 0 .. c /\ k < Len(b)
    /\ b[Len(b) - k].kind = "calls" /\ b[Len(b) - k].n = c
    /\ \A j \in 1 .. k : b[Len(b) - k + j].kind \in Answers /\ b[Len(b) - k + j].n = j
    /\ PairedUpTo(b, Len(b) - k - 1)

\* NothingRunsAfterStop for one block.
Calm(b) == \A i \in 1 .. Len(b) - 1 :
    b[i].kind \in Answers \ {"done"} /\ b[i + 1].kind \in Answers => b[i + 1].kind = "skipped"

LEMMA KindsDiffer == "calls" \notin Answers
BY DEF Answers

LEMMA MessageOf ==
    ASSUME NEW b \in Seq(Messages), NEW i \in 1 .. Len(b)
    PROVE  b[i] \in Messages /\ b[i].n \in Nat /\ b[i].kind \in Kinds
<1>1. b[i] \in Messages
  OBVIOUS
<1> QED BY <1>1 DEF Messages

\* What has its results keeps them whatever follows.
LEMMA PrefixPaired ==
    ASSUME NEW b \in Seq(Messages), NEW d \in Seq(Messages), NEW l \in 0 .. Len(b),
           l <= Len(d), \A i \in 1 .. l : d[i] = b[i], PairedUpTo(b, l)
    PROVE  PairedUpTo(d, l)
<1> SUFFICES ASSUME NEW i \in 1 .. l
             PROVE  /\ d[i].kind = "calls" =>
                        \A j \in 1 .. d[i].n :
                            i + j <= l /\ d[i + j].kind \in Answers /\ d[i + j].n = j
                    /\ d[i].kind \in Answers => Belongs(d, i)
  BY DEF PairedUpTo
<1>1. b[i] \in Messages /\ b[i].n \in Nat /\ d[i] = b[i]
  BY MessageOf
<1>2. CASE d[i].kind = "calls"
  <2>1. \A j \in 1 .. b[i].n :
            i + j <= l /\ b[i + j].kind \in Answers /\ b[i + j].n = j
    BY <1>1, <1>2 DEF PairedUpTo
  <2>2. \A j \in 1 .. b[i].n : i + j \in 1 .. l
    BY <1>1, <2>1
  <2> QED BY <1>1, <1>2, <2>1, <2>2, KindsDiffer
<1>3. CASE d[i].kind \in Answers
  <2>1. Belongs(b, i)
    BY <1>1, <1>3 DEF PairedUpTo
  <2>2. i - b[i].n \in 1 .. l
    BY <1>1, <2>1 DEF Belongs
  <2> QED BY <1>1, <1>3, <2>1, <2>2, KindsDiffer DEF Belongs
<1> QED BY <1>2, <1>3

LEMMA PairedIsUpToEnd ==
    ASSUME NEW b \in Seq(Messages) PROVE Paired(b) <=> PairedUpTo(b, Len(b))
BY DEF Paired, PairedUpTo, Answered

LEMMA NothingPaired == Paired(<<>>) /\ Calm(<<>>)
BY DEF Paired, Calm

\* A message that is neither a batch nor a result keeps a block paired.
LEMMA AppendPaired ==
    ASSUME NEW b \in Seq(Messages), NEW m \in Messages, Paired(b),
           m.kind # "calls", m.kind \notin Answers
    PROVE  Append(b, m) \in Seq(Messages) /\ Paired(Append(b, m))
<1> DEFINE d == Append(b, m)
<1>1. d \in Seq(Messages) /\ Len(d) = Len(b) + 1 /\ d[Len(b) + 1] = m
      /\ \A i \in 1 .. Len(b) : d[i] = b[i]
  OBVIOUS
<1>2. PairedUpTo(d, Len(b))
  <2> HIDE DEF d
  <2>1. PairedUpTo(b, Len(b)) /\ Len(b) \in 0 .. Len(b) /\ Len(b) <= Len(d)
    BY <1>1, PairedIsUpToEnd
  <2> QED BY <1>1, <2>1, PrefixPaired
<1>3. PairedUpTo(d, Len(b) + 1)
  <2> HIDE DEF d
  <2>1. \A i \in 1 .. Len(b) + 1 : i \in 1 .. Len(b) \/ i = Len(b) + 1
    OBVIOUS
  <2>2. \A i \in 1 .. Len(b), j \in Nat : i + j <= Len(b) => i + j <= Len(b) + 1
    OBVIOUS
  <2>3. \A i \in 1 .. Len(b) : d[i].n \in Nat
    BY <1>1, MessageOf
  <2> QED BY <1>1, <1>2, <2>1, <2>2, <2>3 DEF PairedUpTo
<1> QED BY <1>1, <1>3, PairedIsUpToEnd

\* The calls of an open batch are at l + 1, and nothing is open before.
BatchAt(b, c, k, l) ==
    /\ c \in Nat /\ k \in 0 .. c /\ k \in Nat /\ l \in Nat /\ Len(b) = l + 1 + k
    /\ b[l + 1].kind = "calls" /\ b[l + 1].n = c /\ PairedUpTo(b, l)
    /\ \A j \in 1 .. k : b[l + 1 + j].kind \in Answers /\ b[l + 1 + j].n = j

LEMMA BatchPlaces ==
    ASSUME NEW b \in Seq(Messages), NEW c, NEW k, OpenBatch(b, c, k)
    PROVE  \E l \in 0 .. Len(b) : BatchAt(b, c, k, l)
<1>1. c \in Nat /\ k \in 0 .. c /\ k < Len(b) /\ k \in Nat /\ Len(b) \in Nat
  BY DEF OpenBatch
<1>2. PICK l \in 0 .. Len(b) : l = Len(b) - k - 1
  <2>1. Len(b) - k - 1 \in 0 .. Len(b)
    BY <1>1
  <2> QED BY <2>1
<1>3. l \in Nat /\ Len(b) = l + 1 + k /\ Len(b) - k = l + 1
  BY <1>1, <1>2
<1>4. b[l + 1].kind = "calls" /\ b[l + 1].n = c
  <2>1. b[Len(b) - k].kind = "calls" /\ b[Len(b) - k].n = c
    BY DEF OpenBatch
  <2> QED BY <1>3, <2>1
<1>5. PairedUpTo(b, l)
  <2>1. PairedUpTo(b, Len(b) - k - 1)
    BY DEF OpenBatch
  <2> QED BY <1>2, <2>1
<1>6. ASSUME NEW j \in 1 .. k PROVE b[l + 1 + j].kind \in Answers /\ b[l + 1 + j].n = j
  <2>1. b[Len(b) - k + j].kind \in Answers /\ b[Len(b) - k + j].n = j
    BY DEF OpenBatch
  <2> QED BY <1>3, <2>1
<1>7. BatchAt(b, c, k, l)
  BY <1>1, <1>3, <1>4, <1>5, <1>6 DEF BatchAt
<1> QED BY <1>7

\* A whole batch is a paired block.
LEMMA WholeBatch ==
    ASSUME NEW b \in Seq(Messages), NEW c, OpenBatch(b, c, c) PROVE Paired(b)
<1>0. PICK l \in 0 .. Len(b) : BatchAt(b, c, c, l)
  BY BatchPlaces
<1>1. c \in Nat /\ c < Len(b) /\ b[l + 1].kind = "calls" /\ b[l + 1].n = c
      /\ l \in 0 .. Len(b) /\ PairedUpTo(b, l) /\ Len(b) = l + 1 + c
      /\ \A j \in 1 .. c : b[l + 1 + j].kind \in Answers /\ b[l + 1 + j].n = j
  BY <1>0 DEF BatchAt
<1>2. SUFFICES ASSUME NEW i \in 1 .. Len(b)
               PROVE  /\ b[i].kind = "calls" => Answered(b, i)
                      /\ b[i].kind \in Answers => Belongs(b, i)
  BY DEF Paired
<1>3. CASE i <= l
  <2>1. i \in 1 .. l /\ b[i].n \in Nat
    BY <1>1, <1>3, MessageOf
  <2> QED BY <1>1, <2>1 DEF PairedUpTo, Answered
<1>4. CASE i = l + 1
  <2>1. Len(b) = l + 1 + c
    BY <1>1
  <2> QED BY <1>1, <1>4, <2>1, KindsDiffer DEF Answered
<1>5. CASE i > l + 1
  <2>1. Len(b) = l + 1 + c
    BY <1>1
  <2>2. PICK j \in 1 .. c : i = l + 1 + j
    <3>1. i - (l + 1) \in 1 .. c /\ i = l + 1 + (i - (l + 1))
      BY <1>1, <1>5, <2>1
    <3> QED BY <3>1
  <2>3. b[i].kind \in Answers /\ b[i].n = j /\ i - j = l + 1 /\ j < i
    BY <1>1, <2>2
  <2> QED BY <1>1, <2>2, <2>3, KindsDiffer DEF Belongs
<1> QED BY <1>1, <1>3, <1>4, <1>5

\* A new batch after a paired block; a result of an open batch.
LEMMA BatchOpens ==
    ASSUME NEW b \in Seq(Messages), NEW m \in Messages, Paired(b), m.kind = "calls"
    PROVE  Append(b, m) \in Seq(Messages) /\ OpenBatch(Append(b, m), m.n, 0)
<1> DEFINE d == Append(b, m)
<1>1. d \in Seq(Messages) /\ Len(d) = Len(b) + 1 /\ d[Len(b) + 1] = m
      /\ \A i \in 1 .. Len(b) : d[i] = b[i]
  OBVIOUS
<1>2. PairedUpTo(d, Len(b))
  <2> HIDE DEF d
  <2>1. PairedUpTo(b, Len(b)) /\ Len(b) \in 0 .. Len(b) /\ Len(b) <= Len(d)
    BY <1>1, PairedIsUpToEnd
  <2> QED BY <1>1, <2>1, PrefixPaired
<1>3. m.n \in Nat /\ Len(d) - 0 = Len(b) + 1 /\ Len(d) - 0 - 1 = Len(b)
  BY <1>1 DEF Messages
<1> HIDE DEF d
<1>4. OpenBatch(d, m.n, 0)
  BY <1>1, <1>2, <1>3 DEF OpenBatch
<1> QED BY <1>1, <1>4 DEF d

LEMMA ResultJoins ==
    ASSUME NEW b \in Seq(Messages), NEW m \in Messages, NEW c, NEW k,
           OpenBatch(b, c, k), k < c, m.kind \in Answers, m.n = k + 1
    PROVE  Append(b, m) \in Seq(Messages) /\ OpenBatch(Append(b, m), c, k + 1)
<1>0. PICK l \in 0 .. Len(b) : BatchAt(b, c, k, l)
  BY BatchPlaces
<1> DEFINE d == Append(b, m)
<1>1. d \in Seq(Messages) /\ Len(d) = Len(b) + 1 /\ d[Len(b) + 1] = m
      /\ \A i \in 1 .. Len(b) : d[i] = b[i]
  OBVIOUS
<1>2. c \in Nat /\ k \in Nat /\ l \in 0 .. Len(b) /\ Len(b) = l + 1 + k
      /\ b[l + 1].kind = "calls" /\ b[l + 1].n = c /\ PairedUpTo(b, l)
      /\ \A j \in 1 .. k : b[l + 1 + j].kind \in Answers /\ b[l + 1 + j].n = j
  BY <1>0 DEF BatchAt
<1> HIDE DEF d
<1>3. PairedUpTo(d, l)
  <2>1. l <= Len(d) /\ \A i \in 1 .. l : d[i] = b[i]
    BY <1>1, <1>2
  <2> QED BY <1>1, <1>2, <2>1, PrefixPaired
<1>4. d[l + 1] = b[l + 1] /\ Len(d) - (k + 1) = l + 1 /\ Len(d) - (k + 1) - 1 = l
  <2>1. l + 1 \in 1 .. Len(b) /\ Len(d) = l + 1 + (k + 1)
    BY <1>1, <1>2
  <2> QED BY <1>1, <1>2, <2>1
<1>5. ASSUME NEW j \in 1 .. k + 1
      PROVE  d[l + 1 + j].kind \in Answers /\ d[l + 1 + j].n = j
  <2>1. CASE j = k + 1
    <3>1. l + 1 + j = Len(b) + 1
      BY <1>2, <2>1
    <3> QED BY <1>1, <2>1, <3>1
  <2>2. CASE j # k + 1
    <3>1. j \in 1 .. k /\ l + 1 + j \in 1 .. Len(b)
      BY <1>2, <2>2
    <3> QED BY <1>1, <1>2, <3>1
  <2> QED BY <2>1, <2>2
<1>6. OpenBatch(d, c, k + 1)
  BY <1>1, <1>2, <1>3, <1>4, <1>5 DEF OpenBatch
<1> QED BY <1>1, <1>6 DEF d

\* A batch whose missing results are filled in at once.
LEMMA BatchFilled ==
    ASSUME NEW b \in Seq(Messages), NEW d \in Seq(Messages), NEW c, NEW k,
           OpenBatch(b, c, k), Len(d) = Len(b) + (c - k), \A i \in 1 .. Len(b) : d[i] = b[i],
           \A j \in 1 .. c - k : d[Len(b) + j].kind = "skipped" /\ d[Len(b) + j].n = k + j
    PROVE  OpenBatch(d, c, c) /\ Paired(d)
<1>0. PICK l \in 0 .. Len(b) : BatchAt(b, c, k, l)
  BY BatchPlaces
<1>1. c \in Nat /\ k \in 0 .. c /\ l \in 0 .. Len(b) /\ Len(b) = l + 1 + k
      /\ b[l + 1].kind = "calls" /\ b[l + 1].n = c /\ PairedUpTo(b, l)
      /\ \A j \in 1 .. k : b[l + 1 + j].kind \in Answers /\ b[l + 1 + j].n = j
  BY <1>0 DEF BatchAt
<1>2. PairedUpTo(d, l)
  <2>1. l <= Len(d) /\ \A i \in 1 .. l : d[i] = b[i]
    BY <1>1
  <2> QED BY <1>1, <2>1, PrefixPaired
<1>3. d[l + 1] = b[l + 1] /\ Len(d) - c = l + 1 /\ Len(d) - c - 1 = l /\ c < Len(d)
  <2>1. l + 1 \in 1 .. Len(b) /\ Len(d) = l + 1 + c
    BY <1>1
  <2> QED BY <1>1, <2>1
<1>4. ASSUME NEW j \in 1 .. c
      PROVE  d[l + 1 + j].kind \in Answers /\ d[l + 1 + j].n = j
  <2>1. CASE j <= k
    <3>1. j \in 1 .. k /\ l + 1 + j \in 1 .. Len(b)
      BY <1>1, <2>1
    <3> QED BY <1>1, <3>1
  <2>2. CASE j > k
    <3>1. j - k \in 1 .. c - k /\ Len(b) + (j - k) = l + 1 + j /\ k + (j - k) = j
      BY <1>1, <2>2
    <3>2. d[Len(b) + (j - k)].kind = "skipped" /\ d[Len(b) + (j - k)].n = k + (j - k)
      BY <3>1
    <3> QED BY <3>1, <3>2 DEF Answers
  <2> QED BY <1>1, <2>1, <2>2
<1>5. OpenBatch(d, c, c)
  <2>1. c \in 0 .. c /\ d[Len(d) - c].kind = "calls" /\ d[Len(d) - c].n = c
    <3>1. c \in Nat => c \in 0 .. c
      OBVIOUS
    <3>2. d[Len(d) - c] = b[l + 1] /\ b[l + 1].kind = "calls" /\ b[l + 1].n = c /\ c \in Nat
      BY <1>1, <1>3
    <3> QED BY <3>1, <3>2
  <2>2. \A j \in 1 .. c : d[Len(d) - c + j].kind \in Answers /\ d[Len(d) - c + j].n = j
    BY <1>3, <1>4
  <2>3. PairedUpTo(d, Len(d) - c - 1)
    BY <1>2, <1>3
  <2> QED BY <1>1, <1>3, <2>1, <2>2, <2>3 DEF OpenBatch
<1> QED BY <1>5, WholeBatch

LEMMA ConcatPaired ==
    ASSUME NEW a \in Seq(Messages), NEW b \in Seq(Messages), Paired(a), Paired(b)
    PROVE  a \o b \in Seq(Messages) /\ Paired(a \o b)
<1> DEFINE d == a \o b
<1>1. d \in Seq(Messages) /\ Len(d) = Len(a) + Len(b)
      /\ (\A i \in 1 .. Len(a) : d[i] = a[i])
      /\ (\A i \in 1 .. Len(b) : d[Len(a) + i] = b[i])
  <2>1. \A i \in 1 .. Len(b) : Len(a) + i \in 1 .. Len(a) + Len(b)
                               /\ ~(Len(a) + i <= Len(a)) /\ Len(a) + i - Len(a) = i
    OBVIOUS
  <2>2. \A i \in 1 .. Len(a) : i \in 1 .. Len(a) + Len(b)
    OBVIOUS
  <2> QED BY <2>1, <2>2, ConcatProperties
<1> HIDE DEF d
<1>2. PairedUpTo(d, Len(a))
  <2>1. PairedUpTo(a, Len(a)) /\ Len(a) \in 0 .. Len(a) /\ Len(a) <= Len(d)
    BY <1>1, PairedIsUpToEnd
  <2> QED BY <1>1, <2>1, PrefixPaired
<1>3. SUFFICES ASSUME NEW i \in 1 .. Len(d)
               PROVE  /\ d[i].kind = "calls" => Answered(d, i)
                      /\ d[i].kind \in Answers => Belongs(d, i)
  BY <1>1 DEF Paired, d
<1>4. CASE i <= Len(a)
  <2>1. i \in 1 .. Len(a) /\ d[i].n \in Nat
    BY <1>1, <1>4, MessageOf, SMTT(30)
  <2>2. d[i].kind = "calls" =>
            \A j \in 1 .. d[i].n :
                i + j <= Len(a) /\ d[i + j].kind \in Answers /\ d[i + j].n = j
    BY <1>2, <2>1 DEF PairedUpTo
  <2>3. d[i].kind = "calls" => Answered(d, i)
    BY <1>1, <2>1, <2>2 DEF Answered
  <2>4. d[i].kind \in Answers => Belongs(d, i)
    BY <1>2, <2>1 DEF PairedUpTo
  <2> QED BY <2>3, <2>4
<1>5. CASE i > Len(a)
  <2>1. PICK k \in 1 .. Len(b) : i = Len(a) + k
    <3>1. i - Len(a) \in 1 .. Len(b) /\ i = Len(a) + (i - Len(a))
      BY <1>1, <1>5
    <3> QED BY <3>1
  <2>2. d[i] = b[k] /\ b[k].n \in Nat
    BY <1>1, <2>1, MessageOf
  <2>3. CASE b[k].kind = "calls"
    <3>1. \A j \in 1 .. b[k].n : k + j <= Len(b) /\ b[k + j].kind \in Answers /\ b[k + j].n = j
      BY <2>3 DEF Paired, Answered
    <3>2. \A j \in 1 .. b[k].n : k + j \in 1 .. Len(b) /\ i + j = Len(a) + (k + j)
      BY <2>1, <2>2, <3>1
    <3>3. \A j \in 1 .. b[k].n : i + j <= Len(d) /\ d[i + j] = b[k + j]
      BY <1>1, <3>2
    <3>4. Answered(d, i)
      BY <2>2, <3>1, <3>3 DEF Answered
    <3> QED BY <2>2, <2>3, <3>4, KindsDiffer
  <2>4. CASE b[k].kind \in Answers
    <3>1. b[k].n < k /\ b[k - b[k].n].kind = "calls" /\ b[k].n <= b[k - b[k].n].n
      BY <2>4 DEF Paired, Belongs
    <3>2. k - b[k].n \in 1 .. Len(b) /\ i - b[k].n = Len(a) + (k - b[k].n) /\ b[k].n < i
      BY <2>1, <2>2, <3>1, SMTT(30)
    <3> QED BY <1>1, <2>2, <2>4, <3>1, <3>2, KindsDiffer DEF Belongs
  <2> QED BY <2>2, <2>3, <2>4
<1> QED BY <1>1, <1>4, <1>5

-----------------------------------------------------------------------------
(* The order of results *)

\* A message that is no result, or a result after one that let the batch go on.
LEMMA AppendCalm ==
    ASSUME NEW b \in Seq(Messages), NEW m \in Messages, Calm(b),
           m.kind \notin Answers \/ b = <<>> \/ b[Len(b)].kind \notin Answers \ {"done"}
    PROVE  Calm(Append(b, m))
<1> DEFINE d == Append(b, m)
<1>1. d \in Seq(Messages) /\ Len(d) = Len(b) + 1 /\ d[Len(b) + 1] = m
      /\ \A i \in 1 .. Len(b) : d[i] = b[i]
  OBVIOUS
<1> HIDE DEF d
<1>2. SUFFICES ASSUME NEW i \in 1 .. Len(d) - 1,
                      d[i].kind \in Answers \ {"done"}, d[i + 1].kind \in Answers
               PROVE  d[i + 1].kind = "skipped"
  BY DEF Calm, d
<1>3. CASE i = Len(b)
  <2>1. b # <<>>
    BY <1>2, <1>3
  <2> QED BY <1>1, <1>2, <1>3, <2>1
<1>4. CASE i # Len(b)
  <2>1. i \in 1 .. Len(b) - 1 /\ i \in 1 .. Len(b) /\ i + 1 \in 1 .. Len(b)
    BY <1>1, <1>4
  <2> QED BY <1>1, <1>2, <2>1 DEF Calm
<1> QED BY <1>3, <1>4

\* Results that say skipped may follow anything.
LEMMA FilledCalm ==
    ASSUME NEW b \in Seq(Messages), NEW d \in Seq(Messages), Calm(b), Len(b) <= Len(d),
           \A i \in 1 .. Len(b) : d[i] = b[i],
           \A i \in Len(b) + 1 .. Len(d) : d[i].kind = "skipped"
    PROVE  Calm(d)
<1> SUFFICES ASSUME NEW i \in 1 .. Len(d) - 1,
                    d[i].kind \in Answers \ {"done"}, d[i + 1].kind \in Answers
             PROVE  d[i + 1].kind = "skipped"
  BY DEF Calm
<1>1. CASE i + 1 <= Len(b)
  <2>1. i \in 1 .. Len(b) - 1 /\ i \in 1 .. Len(b) /\ i + 1 \in 1 .. Len(b)
    BY <1>1
  <2> QED BY <2>1 DEF Calm
<1>2. CASE i + 1 > Len(b)
  <2>1. i + 1 \in Len(b) + 1 .. Len(d)
    BY <1>2
  <2> QED BY <2>1
<1> QED BY <1>1, <1>2

LEMMA ConcatCalm ==
    ASSUME NEW a \in Seq(Messages), NEW b \in Seq(Messages), Calm(a), Calm(b),
           b = <<>> \/ b[1].kind \notin Answers
    PROVE  Calm(a \o b)
<1> DEFINE d == a \o b
<1>1. Len(d) = Len(a) + Len(b)
      /\ (\A i \in 1 .. Len(a) : d[i] = a[i])
      /\ (\A i \in 1 .. Len(b) : d[Len(a) + i] = b[i])
  <2>1. \A i \in 1 .. Len(b) : Len(a) + i \in 1 .. Len(a) + Len(b)
                               /\ ~(Len(a) + i <= Len(a)) /\ Len(a) + i - Len(a) = i
    OBVIOUS
  <2>2. \A i \in 1 .. Len(a) : i \in 1 .. Len(a) + Len(b)
    OBVIOUS
  <2> QED BY <2>1, <2>2, ConcatProperties
<1> HIDE DEF d
<1>2. SUFFICES ASSUME NEW i \in 1 .. Len(d) - 1,
                      d[i].kind \in Answers \ {"done"}, d[i + 1].kind \in Answers
               PROVE  d[i + 1].kind = "skipped"
  BY DEF Calm, d
<1>3. CASE i + 1 <= Len(a)
  <2>1. i \in 1 .. Len(a) - 1 /\ i \in 1 .. Len(a) /\ i + 1 \in 1 .. Len(a)
    BY <1>3
  <2> QED BY <1>1, <1>2, <2>1 DEF Calm
<1>4. CASE i = Len(a)
  <2>1. 1 \in 1 .. Len(b) /\ i + 1 = Len(a) + 1 /\ b # <<>>
    BY <1>1, <1>4
  <2>2. d[i + 1] = b[1]
    BY <1>1, <2>1
  <2> QED BY <1>2, <2>1, <2>2
<1>5. CASE i > Len(a)
  <2>1. i - Len(a) \in 1 .. Len(b) - 1 /\ i - Len(a) \in 1 .. Len(b)
        /\ (i - Len(a)) + 1 \in 1 .. Len(b) /\ i = Len(a) + (i - Len(a))
        /\ i + 1 = Len(a) + ((i - Len(a)) + 1)
    BY <1>1, <1>5
  <2>2. d[i] = b[i - Len(a)] /\ d[i + 1] = b[(i - Len(a)) + 1]
    <3>1. d[Len(a) + (i - Len(a))] = b[i - Len(a)]
      BY <1>1, <2>1
    <3>2. d[Len(a) + ((i - Len(a)) + 1)] = b[(i - Len(a)) + 1]
      BY <1>1, <2>1
    <3> QED BY <2>1, <3>1, <3>2
  <2> QED BY <1>2, <2>1, <2>2 DEF Calm
<1> QED BY <1>3, <1>4, <1>5

-----------------------------------------------------------------------------
(* The invariant *)

\* A function on 1 .. n is a sequence of length n.
LEMMA Tuple ==
    ASSUME NEW S, NEW n \in Nat, NEW f \in [1 .. n -> S]
    PROVE  f \in Seq(S) /\ Len(f) = n
<1>1. f \in Seq(S)
  BY SeqDef
<1>2. DOMAIN f = 1 .. n
  OBVIOUS
<1>3. Len(f) \in Nat /\ DOMAIN f = 1 .. Len(f)
  BY <1>1
<1>4. Len(f) = n
  <2> DEFINE l == Len(f)
  <2>1. l \in Nat /\ 1 .. l = 1 .. n
    BY <1>2, <1>3
  <2> HIDE DEF l
  <2>2. l <= n
    <3>1. CASE l = 0
      BY <3>1
    <3>2. CASE l # 0
      <4>1. l \in 1 .. l
        BY <2>1, <3>2
      <4> QED BY <2>1, <4>1
    <3> QED BY <3>1, <3>2
  <2>3. n <= l
    <3>1. CASE n = 0
      BY <2>1, <3>1
    <3>2. CASE n # 0
      <4>1. n \in 1 .. n
        BY <3>2
      <4> QED BY <2>1, <4>1
    <3> QED BY <3>1, <3>2
  <2>4. l = n
    BY <2>1, <2>2, <2>3
  <2> QED BY <2>4 DEF l
<1> QED BY <1>1, <1>4

\* The messages of a task that is not in the middle of a batch.
Sound(d) == /\ d \in Seq(Messages) /\ d # <<>> /\ d[1].kind = "task"
            /\ Paired(d) /\ Calm(d)

Kept == Paired(history) /\ Calm(history)

Settled == /\ pc \in {"idle", "returned"} => Paired(draft) /\ Calm(draft)
           /\ pc \notin InBatch \cup {"idle", "returned"} => Sound(draft)

Working == pc \in InBatch =>
    /\ OpenBatch(draft, calls, next) /\ Calm(draft) /\ draft[1].kind = "task"
    /\ pc \in {"call", "running"} =>
           next < calls /\ draft[Len(draft)].kind \in {"calls", "done"}
    /\ pc = "ran" => 0 < next /\ draft[Len(draft)].kind = Answer(got)
    /\ pc = "progress" => next = calls \/ draft[Len(draft)].kind = "done"

Stopped == /\ unknown => pc \in {"idle", "returned"}
           /\ dirty => pc \in {"ran", "finish", "returned"}

Inv == TypeOK /\ Kept /\ Settled /\ Working /\ Stopped

LEMMA MessageTyped ==
    ASSUME TypeOK, NEW kind \in Kinds, NEW n \in Nat PROVE Message(kind, n) \in Messages
BY BoundsAssumption DEF TypeOK, Message, Messages

\* A task may be told anything that is neither a call nor a result.
LEMMA Telling ==
    ASSUME TypeOK, NEW d, Sound(d), NEW kind \in {"text", "feedback", "notice"}
    PROVE  Sound(Append(d, Message(kind, 0))) /\ Sound(d \o <<Message(kind, 0)>>)
<1> DEFINE m == Message(kind, 0)
<1>1. m \in Messages /\ m.kind = kind /\ kind # "calls" /\ kind \notin Answers
  BY MessageTyped DEF Message, Kinds, Answers
<1> HIDE DEF m
<1>2. Append(d, m) \in Seq(Messages) /\ Append(d, m) # <<>> /\ Append(d, m)[1] = d[1]
  BY <1>1 DEF Sound
<1>3. Paired(Append(d, m)) /\ Calm(Append(d, m))
  BY <1>1, AppendPaired, AppendCalm DEF Sound
<1>4. d \o <<m>> = Append(d, m)
  BY <1>1, AppendIsConcat DEF Sound
<1> QED BY <1>2, <1>3, <1>4 DEF Sound, m

LEMMA ToldSound ==
    ASSUME TypeOK, NEW d, Sound(d), NEW success \in BOOLEAN PROVE Sound(Told(success, d))
BY Telling DEF Told

\* Filling in the rest of a batch closes it.
LEMMA SkippedSound ==
    ASSUME TypeOK, Working, pc \in InBatch
    PROVE  Sound(Skipped) /\ OpenBatch(Skipped, calls, calls)
<1> DEFINE rest == [k \in 1 .. calls - next |-> Message("skipped", next + k)]
<1>1. OpenBatch(draft, calls, next) /\ calls \in Nat /\ next \in 0 .. calls /\ Calm(draft)
      /\ draft[1].kind = "task" /\ draft \in Seq(Messages) /\ draft # <<>> /\ calls - next \in Nat
  BY DEF Working, OpenBatch, TypeOK
<1>2. \A k \in 1 .. calls - next : Message("skipped", next + k) \in Messages
  <2>1. \A k \in 1 .. calls - next : next + k \in Nat
    BY <1>1
  <2> QED BY <2>1, MessageTyped DEF Kinds, Answers
<1>3. rest \in Seq(Messages) /\ Len(rest) = calls - next
  <2>1. rest \in [1 .. calls - next -> Messages]
    BY <1>2
  <2> HIDE DEF rest
  <2> QED BY <1>1, <2>1, Tuple
<1>4. \A k \in 1 .. calls - next : rest[k].kind = "skipped" /\ rest[k].n = next + k
  BY DEF Message
<1> DEFINE d == draft \o rest
<1>5. d \in Seq(Messages) /\ Len(d) = Len(draft) + (calls - next)
      /\ (\A i \in 1 .. Len(draft) : d[i] = draft[i])
      /\ (\A i \in 1 .. calls - next : d[Len(draft) + i] = rest[i])
  <2> HIDE DEF rest
  <2>1. \A i \in 1 .. calls - next :
            Len(draft) + i \in 1 .. Len(draft) + Len(rest)
            /\ ~(Len(draft) + i <= Len(draft)) /\ Len(draft) + i - Len(draft) = i
    BY <1>1, <1>3
  <2>2. \A i \in 1 .. Len(draft) : i \in 1 .. Len(draft) + Len(rest)
    BY <1>1, <1>3
  <2>3. /\ d \in Seq(Messages) /\ Len(d) = Len(draft) + Len(rest)
        /\ \A i \in 1 .. Len(draft) + Len(rest) :
               d[i] = IF i <= Len(draft) THEN draft[i] ELSE rest[i - Len(draft)]
    BY <1>1, <1>3, ConcatProperties
  <2> HIDE DEF d
  <2>4. \A i \in 1 .. Len(draft) : d[i] = draft[i]
    BY <1>1, <2>2, <2>3
  <2>5. \A i \in 1 .. calls - next : d[Len(draft) + i] = rest[i]
    <3> TAKE i \in 1 .. calls - next
    <3> QED BY <2>1, <2>3
  <2> QED BY <1>1, <1>3, <2>3, <2>4, <2>5
<1>6. Skipped = d
  BY DEF Skipped
<1> HIDE DEF d, rest
<1>7. OpenBatch(d, calls, calls) /\ Paired(d)
  <2>1. \A j \in 1 .. calls - next :
            d[Len(draft) + j].kind = "skipped" /\ d[Len(draft) + j].n = next + j
    BY <1>4, <1>5
  <2> QED BY <1>1, <1>5, <2>1, BatchFilled
<1>8. Calm(d)
  <2>1. ASSUME NEW i \in Len(draft) + 1 .. Len(d) PROVE d[i].kind = "skipped"
    <3>1. i - Len(draft) \in 1 .. calls - next /\ i = Len(draft) + (i - Len(draft))
      BY <1>1, <1>5
    <3>2. d[Len(draft) + (i - Len(draft))] = rest[i - Len(draft)]
      BY <1>5, <3>1
    <3> QED BY <1>4, <3>1, <3>2
  <2>2. Len(draft) <= Len(d)
    BY <1>1, <1>5
  <2> QED BY <1>1, <1>5, <2>1, <2>2, FilledCalm
<1>9. d # <<>> /\ d[1] = draft[1]
  BY <1>1, <1>5
<1> QED BY <1>1, <1>5, <1>6, <1>7, <1>8, <1>9 DEF Sound

-----------------------------------------------------------------------------
(* Every step keeps the invariant *)

\* The invariant after a step that leaves the history alone and is not in a batch.
LEMMA OutsideBatch ==
    ASSUME Inv, TypeOK', history' = history, pc' \notin InBatch, Sound(draft'),
           unknown' => pc' \in {"idle", "returned"}, dirty' => pc' \in {"finish", "returned"}
    PROVE  Inv'
<1>1. Kept'
  BY DEF Inv, Kept
<1>2. Settled' /\ Working' /\ Stopped'
  BY DEF Settled, Working, Stopped, Sound
<1> QED BY <1>1, <1>2 DEF Inv

\* The invariant after a step inside a batch.
LEMMA InsideBatch ==
    ASSUME Inv, TypeOK', history' = history, pc' \in InBatch, Working',
           unknown' = unknown, pc \notin {"idle", "returned"}, dirty' => pc' = "ran"
    PROVE  Inv'
<1>1. Kept' /\ Settled'
  BY DEF Inv, Kept, Settled, InBatch
<1>2. Stopped'
  BY DEF Inv, Stopped
<1> QED BY <1>1, <1>2 DEF Inv

\* The task is over and its messages are in the history or lost.
LEMMA TaskOver ==
    ASSUME Inv, TypeOK', Kept', Reset PROVE Inv'
<1>1. Paired(draft') /\ Calm(draft')
  BY NothingPaired DEF Reset
<1>2. Settled' /\ Working' /\ Stopped'
  BY <1>1 DEF Reset, Settled, Working, Stopped, InBatch
<1> QED BY <1>2 DEF Inv

LEMMA StartStep == ASSUME Inv, Start PROVE Inv'
<1> DEFINE m == [Message("task", 0) EXCEPT !.task = tasks + 1]
<1>1. m \in Messages /\ m.kind = "task"
  <2>1. m = [kind |-> "task", n |-> 0, task |-> tasks + 1]
    BY DEF Message
  <2>2. tasks + 1 \in Nat /\ "task" \in Kinds
    BY BoundsAssumption DEF Inv, TypeOK, Kinds
  <2> QED BY <2>1, <2>2 DEF Messages
<1>2. Sound(<<m>>)
  <2>1. <<m>> \in Seq(Messages) /\ Len(<<m>>) = 1 /\ <<m>>[1] = m /\ <<m>> # <<>>
    BY <1>1
  <2> HIDE DEF m
  <2>2. Paired(<<m>>)
    BY <1>1, <2>1 DEF Paired, Answers
  <2>3. Calm(<<m>>)
    BY <2>1 DEF Calm
  <2> QED BY <1>1, <2>1, <2>2, <2>3 DEF Sound
<1>3. CASE unknown
  <2>1. pc' = "returned" /\ draft' = draft /\ pc = "idle"
    BY <1>3 DEF Start
  <2>2. TypeOK'
    <3>1. tasks' \in 0 .. MaxTasks
      BY BoundsAssumption, SMTT(30) DEF Inv, TypeOK, Start
    <3>2. pc' \in Places /\ draft' \in Seq(Messages) /\ reached' \in Nat
      BY <1>3, <2>1 DEF Inv, TypeOK, Start, Places
    <3> QED BY <3>1, <3>2 DEF Inv, TypeOK, Start, counters, batch
  <2>3. Settled' /\ Working' /\ Stopped'
    BY <2>1 DEF Inv, Settled, Working, Stopped, Start, InBatch
  <2>4. Kept'
    BY DEF Inv, Kept, Start
  <2> QED BY <2>2, <2>3, <2>4 DEF Inv
<1>4. CASE ~unknown
  <2>1. draft' = <<m>> /\ pc' = "prepare" /\ unknown' = unknown /\ history' = history
        /\ dirty' = dirty /\ pc = "idle"
    BY <1>4 DEF Start
  <2> HIDE DEF m
  <2>2. TypeOK'
    <3>1. draft' \in Seq(Messages)
      BY <1>2, <2>1 DEF Sound
    <3>2. tasks' \in 0 .. MaxTasks /\ reached' \in Nat
      BY <1>4, BoundsAssumption, SMTT(30) DEF Inv, TypeOK, Start
    <3>3. pc' \in Places
      BY <2>1 DEF Places
    <3> QED BY <2>1, <3>1, <3>2, <3>3 DEF Inv, TypeOK, Start, counters, batch
  <2>3. ~dirty
    BY <2>1 DEF Inv, Stopped
  <2> QED BY <1>2, <1>4, <2>1, <2>2, <2>3, OutsideBatch DEF InBatch
<1> QED BY <1>3, <1>4

LEMMA PrepareStep == ASSUME Inv, Prepare PROVE Inv'
<1>1. Sound(draft) /\ draft' = draft /\ history' = history /\ ~unknown /\ unknown' = unknown
  BY DEF Inv, Prepare, Settled, Stopped, session, InBatch
<1>2. pc' \in {"finish", "round"} /\ (dirty' => pc' = "finish") /\ dirty' \in BOOLEAN
      /\ ok' \in BOOLEAN /\ rollback' \in BOOLEAN
  <2>1. /\ ~dirty /\ dirty \in BOOLEAN /\ ok \in BOOLEAN /\ rollback \in BOOLEAN
    BY DEF Inv, TypeOK, Stopped, Prepare
  <2>2. \/ dirty' = TRUE /\ Exit(FALSE, FALSE)
        \/ dirty' = dirty /\ Exit(FALSE, TRUE)
        \/ pc' = "round" /\ dirty' = dirty /\ ok' = ok /\ rollback' = rollback
    BY DEF Prepare
  <2>3. CASE dirty' = TRUE /\ Exit(FALSE, FALSE)
    BY <2>3 DEF Exit
  <2>4. CASE dirty' = dirty /\ Exit(FALSE, TRUE)
    BY <2>1, <2>4 DEF Exit
  <2>5. CASE pc' = "round" /\ dirty' = dirty /\ ok' = ok /\ rollback' = rollback
    BY <2>1, <2>5
  <2> QED BY <2>2, <2>3, <2>4, <2>5
<1>3. TypeOK'
  BY <1>2 DEF Inv, TypeOK, Prepare, session, counters, batch, Places
<1> QED BY <1>1, <1>2, <1>3, OutsideBatch DEF InBatch

\* The steps of a round outside a batch, which only ever add to what is told.
LEMMA RoundStep ==
    ASSUME Inv, RoundsUsedUp \/ StopBeforeRound \/ BeginRound \/ RequestFails \/ BrokenAnswer
                \/ AfterCorrection
    PROVE  Inv'
<1>1. /\ Sound(draft) /\ history' = history /\ ~unknown /\ unknown' = unknown
      /\ ~dirty /\ dirty' = dirty
  BY DEF Inv, Settled, Stopped, session, InBatch, RoundsUsedUp, StopBeforeRound, BeginRound,
         RequestFails, BrokenAnswer, AfterCorrection
<1>2. Sound(draft')
  <2>1. draft' = draft \/ draft' = Add("feedback") \/ draft' = Add("notice")
    BY DEF RoundsUsedUp, StopBeforeRound, BeginRound, RequestFails, BrokenAnswer, AfterCorrection
  <2> QED BY <1>1, <2>1, Telling DEF Inv, Add
<1>3. pc' \in {"finish", "request", "round"}
  BY DEF RoundsUsedUp, StopBeforeRound, BeginRound, RequestFails, BrokenAnswer, AfterCorrection,
         Exit
<1>4. TypeOK'
  <2>1. draft' \in Seq(Messages)
    BY <1>2 DEF Sound
  <2>2. round' \in 0 .. MaxRounds
    <3>1. CASE BeginRound
      BY <3>1, BoundsAssumption DEF Inv, TypeOK, BeginRound
    <3>2. CASE ~BeginRound
      <4>1. round' = round
        BY <3>2 DEF RoundsUsedUp, StopBeforeRound, RequestFails, BrokenAnswer, AfterCorrection
      <4> QED BY <4>1 DEF Inv, TypeOK
    <3> QED BY <3>1, <3>2
  <2>3. ok' \in BOOLEAN /\ rollback' \in BOOLEAN
    BY DEF Inv, TypeOK, RoundsUsedUp, StopBeforeRound, BeginRound, RequestFails, BrokenAnswer,
           AfterCorrection, Exit
  <2>4. UNCHANGED <<session, reached, dirty, counters, batch, cancelled>>
    BY DEF RoundsUsedUp, StopBeforeRound, BeginRound, RequestFails, BrokenAnswer, AfterCorrection
  <2> QED BY <1>3, <2>1, <2>2, <2>3, <2>4 DEF Inv, TypeOK, session, counters, batch, Places
<1> QED BY <1>1, <1>2, <1>3, <1>4, OutsideBatch DEF InBatch

LEMMA AnswerWithCallsStep == ASSUME Inv, AnswerWithCalls PROVE Inv'
<1>1. PICK n \in 1 .. MaxCalls : draft' = Append(draft, Message("calls", n)) /\ calls' = n
  BY DEF AnswerWithCalls
<1> DEFINE m == Message("calls", n)
<1>2. Sound(draft) /\ ~dirty /\ ~unknown /\ n \in Nat \ {0}
  BY BoundsAssumption DEF Inv, AnswerWithCalls, Settled, Stopped, InBatch
<1>3. m \in Messages /\ m.kind = "calls" /\ m.n = n
  BY <1>2, MessageTyped DEF Inv, Message, Kinds
<1> HIDE DEF m
<1>4. draft' \in Seq(Messages) /\ OpenBatch(draft', n, 0)
  BY <1>1, <1>2, <1>3, BatchOpens DEF Sound, m
<1>5. Calm(draft')
  BY <1>1, <1>2, <1>3, AppendCalm, KindsDiffer DEF Sound, m
<1>6. draft'[1].kind = "task" /\ draft'[Len(draft')].kind = "calls"
  BY <1>1, <1>2, <1>3 DEF Sound, m
<1>7. TypeOK'
  BY <1>1, <1>2, <1>4 DEF Inv, TypeOK, AnswerWithCalls, session, counters, Places, InBatch
<1>8. Working'
  <2>1. pc' = "call" /\ next' = 0 /\ calls' = n /\ 0 < n
    BY <1>1, <1>2 DEF AnswerWithCalls
  <2> QED BY <1>4, <1>5, <1>6, <2>1 DEF Working
<1>9. history' = history /\ unknown' = unknown /\ dirty' = dirty /\ pc' = "call" /\ pc = "request"
  BY DEF AnswerWithCalls, session
<1> QED BY <1>2, <1>7, <1>8, <1>9, InsideBatch DEF InBatch

LEMMA AnswerWithoutCallsStep == ASSUME Inv, AnswerWithoutCalls PROVE Inv'
<1>1. /\ Sound(draft) /\ ~dirty /\ ~unknown /\ dirty' = dirty /\ unknown' = unknown
      /\ history' = history /\ pc' = "logged"
  BY DEF Inv, AnswerWithoutCalls, Settled, Stopped, InBatch, session
<1>2. PICK text \in BOOLEAN, counts \in BOOLEAN :
        /\ missing' = IF counts THEN missing + 1 ELSE missing
        /\ draft' = (IF text THEN Add("text") ELSE draft) \o
                    (IF missing' >= MissingLimit \/ cancelled THEN <<>>
                     ELSE <<Message("feedback", 0)>>)
  BY DEF AnswerWithoutCalls
<1>3. Sound(draft')
  <2> DEFINE d == IF text THEN Add("text") ELSE draft
  <2>1. Sound(d)
    BY <1>1, Telling DEF Inv, Add
  <2>2. draft' = d \/ draft' = d \o <<Message("feedback", 0)>>
    <3>1. d \o <<>> = d
      BY <2>1, ConcatEmptySeq DEF Sound
    <3> QED BY <1>2, <3>1
  <2> HIDE DEF d
  <2> QED BY <2>1, <2>2, Telling DEF Inv
<1>4. TypeOK'
  BY <1>2, <1>3 DEF Inv, TypeOK, AnswerWithoutCalls, Sound, session, batch, Places
<1> QED BY <1>1, <1>3, <1>4, OutsideBatch DEF InBatch

\* A batch is in progress: nothing is unknown before a call has run.
LEMMA BatchFacts ==
    ASSUME Inv, pc \in InBatch
    PROVE  /\ TypeOK /\ Working /\ ~unknown /\ (dirty => pc = "ran")
           /\ draft \in Seq(Messages) /\ OpenBatch(draft, calls, next) /\ Calm(draft)
           /\ draft[1].kind = "task" /\ calls \in Nat /\ next \in 0 .. calls /\ next < Len(draft)
           /\ Sound(Skipped) /\ OpenBatch(Skipped, calls, calls)
<1>1. TypeOK /\ Working /\ ~unknown /\ (dirty => pc = "ran")
  BY DEF Inv, Stopped, InBatch
<1>2. /\ draft \in Seq(Messages) /\ OpenBatch(draft, calls, next) /\ Calm(draft)
      /\ draft[1].kind = "task" /\ calls \in Nat /\ next \in 0 .. calls /\ next < Len(draft)
  BY <1>1 DEF TypeOK, Working, OpenBatch
<1> QED BY <1>1, <1>2, SkippedSound

LEMMA StopBeforeCallStep == ASSUME Inv, StopBeforeCall PROVE Inv'
<1>1. pc = "call" /\ pc \in InBatch
  BY DEF StopBeforeCall, InBatch
<1>2. /\ draft' = Skipped /\ pc' = "finish" /\ history' = history /\ unknown' = unknown
      /\ dirty' = dirty
  BY DEF StopBeforeCall, Exit, session
<1>3. ~unknown /\ ~dirty /\ Sound(draft')
  BY <1>1, <1>2, BatchFacts
<1>4. TypeOK'
  BY <1>3 DEF Inv, TypeOK, Sound, StopBeforeCall, Exit, session, counters, Places
<1> QED BY <1>2, <1>3, <1>4, OutsideBatch DEF InBatch

LEMMA RunCallStep == ASSUME Inv, RunCall PROVE Inv'
<1>1. pc = "call" /\ pc' = "running" /\ UNCHANGED <<history, unknown, dirty, draft, calls, next>>
  BY DEF RunCall, session, batch
<1>2. TypeOK'
  BY DEF Inv, TypeOK, RunCall, session, counters, batch, Places, InBatch
<1>3. Working' /\ ~dirty
  BY <1>1 DEF Inv, Working, Stopped, InBatch
<1> QED BY <1>1, <1>2, <1>3, InsideBatch DEF InBatch

LEMMA ResultStep == ASSUME Inv, Result PROVE Inv'
<1>1. PICK result \in Outcomes :
        /\ got' = result /\ draft' = Append(draft, Message(Answer(result), next + 1))
        /\ questions' \in {questions, questions + 1}
  BY DEF Result
<1>2. pc = "running" /\ pc \in InBatch /\ pc' = "ran" /\ next' = next + 1 /\ calls' = calls
      /\ history' = history /\ unknown' = unknown
  BY DEF Result, InBatch, session
<1> DEFINE m == Message(Answer(result), next + 1)
<1>3. Answer(result) \in Answers /\ Answer(result) \in Kinds
  BY <1>1 DEF Answer, Answers, Kinds, Outcomes
<1>4. m \in Messages /\ m.kind = Answer(result) /\ m.n = next + 1
  BY <1>2, <1>3, BatchFacts, MessageTyped DEF Message
<1> HIDE DEF m
<1>5. next < calls /\ draft[Len(draft)].kind \in {"calls", "done"}
  BY <1>2, BatchFacts DEF Working
<1>6. draft' \in Seq(Messages) /\ OpenBatch(draft', calls, next + 1)
  BY <1>1, <1>2, <1>3, <1>4, <1>5, BatchFacts, ResultJoins DEF m
<1>7. Calm(draft')
  BY <1>1, <1>2, <1>4, <1>5, BatchFacts, AppendCalm, KindsDiffer DEF m
<1>8. draft'[1] = draft[1] /\ draft'[Len(draft')].kind = Answer(result)
  <2>1. draft' = Append(draft, m) /\ draft \in Seq(Messages) /\ Len(draft) > 0
    BY <1>1, <1>2, BatchFacts DEF m
  <2> QED BY <1>4, <2>1
<1>9. TypeOK'
  <2>1. next' \in Nat /\ questions' \in Nat /\ got' \in Outcomes
    BY <1>1, <1>2 DEF Inv, TypeOK
  <2>2. dirty' \in BOOLEAN
    BY DEF Inv, TypeOK, Result
  <2> QED BY <1>6, <2>1, <2>2 DEF Inv, TypeOK, Result, session, Places, InBatch
<1>10. Working'
  <2>1. Answer(result)' = Answer(got') /\ Answer(got)' = Answer(result)
    BY <1>1 DEF Answer
  <2>2. 0 < next + 1 /\ draft'[1].kind = "task"
    BY <1>2, <1>8, BatchFacts
  <2> QED BY <1>1, <1>2, <1>6, <1>7, <1>8, <2>1, <2>2 DEF Working, Answer
<1> QED BY <1>2, <1>9, <1>10, InsideBatch DEF InBatch

LEMMA AfterIs ==
    ASSUME NEW r \in DOMAIN After
    PROVE  /\ r \in {"ok", "replan"} => After[r] = "progress"
           /\ r \notin {"ok", "replan"} => After[r] \in {"round", "assess"}
BY DEF After

LEMMA AfterCallStep == ASSUME Inv, AfterCall PROVE Inv'
<1>1. pc = "ran" /\ pc \in InBatch /\ history' = history /\ unknown' = unknown /\ dirty' = dirty
      /\ calls' = calls /\ got' = got
  BY DEF AfterCall, InBatch, session
<1>2. PICK audited \in BOOLEAN :
        LET told == IF Stops(audited) THEN Skipped ELSE draft
            withdrawn == cancelled \/ got \in {"interrupted", "withdrawn"}
            notice == <<Message("notice", 0)>>
        IN  /\ next' = IF Stops(audited) THEN calls ELSE next
            /\ \/ (~audited \/ dirty) /\ draft' = told /\ Exit(FALSE, FALSE)
               \/ /\ audited /\ ~dirty /\ withdrawn /\ Exit(FALSE, FALSE)
                  /\ draft' = IF got \in Asked THEN told \o notice ELSE told
               \/ /\ audited /\ ~dirty /\ ~withdrawn
                  /\ \/ got = "unanswered" /\ draft' = told \o notice /\ Exit(FALSE, FALSE)
                     \/ got = "fatal" /\ draft' = told /\ Exit(FALSE, FALSE)
                     \/ /\ got \in DOMAIN After /\ pc' = After[got] /\ draft' = told
                        /\ UNCHANGED <<ok, rollback>>
  BY DEF AfterCall
<1>3. /\ TypeOK /\ ~unknown /\ Sound(Skipped) /\ OpenBatch(Skipped, calls, calls)
  BY <1>1, BatchFacts
<1>4. Sound(Skipped \o <<Message("notice", 0)>>)
  BY <1>3, Telling
<1>5. CASE ~Stops(audited)
  <2>1. got = "ok" /\ ~dirty /\ ~cancelled /\ audited
    BY <1>5 DEF Stops
  <2>2. next' = next /\ pc' = "progress" /\ draft' = draft /\ UNCHANGED <<ok, rollback>>
    BY <1>2, <1>5, <2>1, AfterIs
  <2>3. TypeOK'
    BY <2>2 DEF Inv, TypeOK, AfterCall, session, counters, Places, InBatch
  <2>4. draft[Len(draft)].kind = "done"
    BY <1>1, <2>1 DEF Inv, Working, Answer
  <2>5. Working'
    BY <1>1, <2>2, <2>4 DEF Inv, Working
  <2> QED BY <1>1, <2>1, <2>2, <2>3, <2>5, InsideBatch DEF InBatch
<1>6. CASE Stops(audited)
  <2>1. next' = calls /\ draft' \in {Skipped, Skipped \o <<Message("notice", 0)>>}
    BY <1>2, <1>6
  <2>2. Sound(draft')
    BY <1>3, <1>4, <2>1
  <2>3. \/ Exit(FALSE, FALSE)
        \/ ~dirty /\ pc' \in {"round", "assess"} /\ UNCHANGED <<ok, rollback>>
        \/ ~dirty /\ pc' = "progress" /\ draft' = Skipped /\ UNCHANGED <<ok, rollback>>
    <3>1. CASE got \in DOMAIN After /\ got \in {"ok", "replan"}
      BY <1>2, <1>6, <3>1, AfterIs
    <3>2. CASE got \in DOMAIN After /\ got \notin {"ok", "replan"}
      BY <1>2, <1>6, <3>2, AfterIs
    <3>3. CASE got \notin DOMAIN After
      BY <1>2, <1>6, <3>3
    <3> QED BY <3>1, <3>2, <3>3
  <2>4. TypeOK'
    <3>1. ok' \in BOOLEAN /\ rollback' \in BOOLEAN /\ pc' \in {"finish", "round", "assess", "progress"}
      <4>1. CASE Exit(FALSE, FALSE)
        BY <4>1 DEF Exit
      <4>2. CASE ~Exit(FALSE, FALSE)
        BY <2>3, <4>2 DEF Inv, TypeOK
      <4> QED BY <4>1, <4>2
    <3>2. draft' \in Seq(Messages) /\ next' \in Nat
      BY <2>1, <2>2 DEF Sound, Inv, TypeOK
    <3> QED BY <3>1, <3>2 DEF Inv, TypeOK, AfterCall, session, counters, Places, InBatch
  <2>5. CASE Exit(FALSE, FALSE) \/ (~dirty /\ pc' \in {"round", "assess"})
    BY <1>1, <1>3, <2>2, <2>4, <2>5, OutsideBatch DEF Exit, InBatch
  <2>6. CASE ~dirty /\ pc' = "progress" /\ draft' = Skipped
    <3>1. Working'
      BY <1>1, <1>3, <2>1, <2>2, <2>6 DEF Working, Sound
    <3> QED BY <1>1, <1>3, <2>4, <2>6, <3>1, InsideBatch DEF InBatch
  <2> QED BY <2>3, <2>5, <2>6
<1> QED BY <1>5, <1>6

LEMMA ProgressStopsStep == ASSUME Inv, ProgressStops PROVE Inv'
<1>1. /\ pc = "progress" /\ pc \in InBatch /\ pc' = "finish" /\ history' = history
      /\ unknown' = unknown /\ dirty' = dirty
  BY DEF ProgressStops, InBatch, Exit, session
<1>2. TypeOK /\ ~unknown /\ ~dirty /\ Sound(Skipped)
  BY <1>1, BatchFacts
<1>3. PICK warned \in {<<>>, <<Message("feedback", 0)>>}, told \in {<<>>, <<Message("notice", 0)>>} :
        draft' = Skipped \o warned \o told
  BY DEF ProgressStops
<1>4. ASSUME NEW d, Sound(d) PROVE Sound(d \o warned) /\ Sound(d \o told)
  <2>1. d \o <<>> = d
    BY <1>4, ConcatEmptySeq DEF Sound
  <2> QED BY <1>2, <1>4, <2>1, Telling
<1>5. Sound(draft')
  BY <1>2, <1>3, <1>4
<1>6. TypeOK'
  BY <1>5 DEF Inv, TypeOK, Sound, ProgressStops, Exit, session, counters, Places
<1> QED BY <1>1, <1>2, <1>5, <1>6, OutsideBatch DEF InBatch

LEMMA ProgressAllowsStep == ASSUME Inv, ProgressAllows PROVE Inv'
<1>1. /\ pc = "progress" /\ pc \in InBatch /\ UNCHANGED <<history, unknown, dirty, calls, next>>
  BY DEF ProgressAllows, InBatch, session, batch
<1>2. TypeOK /\ ~unknown /\ ~dirty /\ draft \in Seq(Messages) /\ Calm(draft) /\ draft[1].kind = "task"
      /\ OpenBatch(draft, calls, next) /\ next < Len(draft) /\ next \in Nat
  BY <1>1, BatchFacts
<1>3. CASE next < calls /\ pc' = "call" /\ draft' = draft
  <2>1. TypeOK'
    BY <1>3 DEF Inv, TypeOK, ProgressAllows, session, counters, batch, Places, InBatch
  <2>2. next # calls
    BY <1>3, <1>1, BatchFacts
  <2>3. Working'
    BY <1>1, <1>3, <2>2 DEF Inv, Working
  <2> QED BY <1>1, <1>2, <1>3, <2>1, <2>3, InsideBatch DEF InBatch
<1>4. CASE next = calls /\ pc' = "round" /\ draft' \in {draft, Add("feedback")}
  <2>1. Sound(draft)
    BY <1>2, <1>4, WholeBatch DEF Sound
  <2>2. Sound(draft')
    BY <1>2, <1>4, <2>1, Telling DEF Add
  <2>3. TypeOK'
    BY <1>4, <2>2 DEF Inv, TypeOK, Sound, ProgressAllows, session, counters, batch, Places
  <2> QED BY <1>1, <1>2, <1>4, <2>2, <2>3, OutsideBatch DEF InBatch
<1> QED BY <1>3, <1>4 DEF ProgressAllows

LEMMA AssessStep == ASSUME Inv, Assess PROVE Inv'
<1>1. /\ Sound(draft) /\ draft' = draft /\ history' = history /\ unknown' = unknown
      /\ dirty' = dirty /\ ~dirty /\ ~unknown
  BY DEF Inv, Assess, Settled, Stopped, session, InBatch
<1>2. pc' \in {"finish", "close", "recover"} /\ ok' \in BOOLEAN /\ rollback' \in BOOLEAN
      /\ recoveries' \in Nat
  <2>1. ok \in BOOLEAN /\ rollback \in BOOLEAN /\ recoveries \in Nat
    BY DEF Inv, TypeOK
  <2>2. CASE Exit(FALSE, FALSE) /\ UNCHANGED recoveries
    BY <2>1, <2>2 DEF Exit
  <2>3. CASE pc' = "close" /\ ok' \in BOOLEAN /\ UNCHANGED <<rollback, recoveries>>
    BY <2>1, <2>3
  <2>4. CASE recoveries' = recoveries + 1 /\ pc' = "recover" /\ UNCHANGED <<ok, rollback>>
    BY <2>1, <2>4
  <2> QED BY <2>2, <2>3, <2>4 DEF Assess
<1>3. TypeOK'
  BY <1>2 DEF Inv, TypeOK, Assess, session, batch, Places
<1> QED BY <1>1, <1>2, <1>3, OutsideBatch DEF InBatch

LEMMA RecoverStep == ASSUME Inv, Recover PROVE Inv'
<1>1. /\ Sound(draft) /\ history' = history /\ unknown' = unknown /\ ~dirty /\ ~unknown /\ TypeOK
  BY DEF Inv, Recover, Settled, Stopped, session, InBatch
<1>2. CASE Exit(FALSE, FALSE) /\ dirty' \in {dirty, TRUE} /\ draft' = draft
  <2>1. TypeOK'
    BY <1>1, <1>2 DEF TypeOK, Recover, Exit, session, counters, batch, Places
  <2> QED BY <1>1, <1>2, <2>1, OutsideBatch DEF Exit, InBatch
<1>3. CASE draft' = Add("feedback") /\ pc' = "round" /\ UNCHANGED <<dirty, ok, rollback>>
  <2>1. Sound(draft')
    BY <1>1, <1>3, Telling DEF Add
  <2>2. TypeOK'
    BY <1>1, <1>3, <2>1 DEF TypeOK, Sound, Recover, session, counters, batch, Places
  <2> QED BY <1>1, <1>3, <2>1, <2>2, OutsideBatch DEF InBatch
<1> QED BY <1>2, <1>3 DEF Recover

LEMMA CloseTaskStep == ASSUME Inv, CloseTask PROVE Inv'
<1>1. /\ Sound(draft) /\ history' = history /\ unknown' = unknown /\ ~dirty /\ ~unknown /\ TypeOK
      /\ dirty' = dirty /\ pc' = "review"
  BY DEF Inv, CloseTask, Settled, Stopped, session, InBatch
<1> DEFINE first == Told(ok, draft)
<1>2. Sound(first)
  BY <1>1, ToldSound DEF TypeOK
<1>3. ok' \in BOOLEAN /\ draft' = Told(ok', first)
      /\ reached' \in {Len(history \o draft'), reached}
  BY DEF CloseTask
<1> HIDE DEF first
<1>4. Sound(draft')
  BY <1>1, <1>2, <1>3, ToldSound
<1>5. reached' \in Nat
  <2>1. history \o draft' \in Seq(Messages)
    BY <1>1, <1>4 DEF TypeOK, Sound
  <2> QED BY <1>1, <1>3, <2>1 DEF TypeOK
<1>6. TypeOK'
  BY <1>1, <1>3, <1>4, <1>5 DEF TypeOK, Sound, CloseTask, session, counters, batch, Places
<1> QED BY <1>1, <1>4, <1>6, OutsideBatch DEF InBatch

LEMMA ReviewStep == ASSUME Inv, Review PROVE Inv'
<1>1. /\ Sound(draft) /\ draft' = draft /\ history' = history /\ unknown' = unknown
      /\ dirty' = dirty /\ ~dirty /\ ~unknown /\ pc' = "finish"
  BY DEF Inv, Review, Settled, Stopped, session, InBatch, Exit
<1>2. TypeOK'
  BY DEF Inv, TypeOK, Review, Exit, session, counters, batch, Places
<1> QED BY <1>1, <1>2, OutsideBatch DEF InBatch

LEMMA FinishStep == ASSUME Inv, Finish PROVE Inv'
<1>1. /\ Sound(draft) /\ draft' = draft /\ pc' = "returned" /\ dirty' = dirty /\ TypeOK
  BY DEF Inv, Finish, Settled, InBatch
<1> DEFINE told == Told(ok, draft)
<1>2. Sound(told)
  BY <1>1, ToldSound DEF TypeOK
<1>3. history' \in {history, history \o told} /\ latest' \in {Len(history \o told), reached}
  BY DEF Finish
<1> HIDE DEF told
<1>4. history \o told \in Seq(Messages) /\ Paired(history \o told) /\ Calm(history \o told)
  <2>1. told = <<>> \/ told[1].kind \notin Answers
    BY <1>2 DEF Sound, Answers
  <2>2. history \in Seq(Messages) /\ Paired(history) /\ Calm(history)
    BY DEF Inv, TypeOK, Kept
  <2> QED BY <1>2, <2>1, <2>2, ConcatPaired, ConcatCalm DEF Sound
<1>5. Kept'
  BY <1>3, <1>4 DEF Inv, Kept
<1>6. TypeOK'
  <2> DEFINE all == history \o told
  <2>1. history' \in Seq(Messages) /\ latest' \in Nat
    <3>1. history' \in {history, all} /\ latest' \in {Len(all), reached} /\ all \in Seq(Messages)
      BY <1>3, <1>4
    <3> HIDE DEF all
    <3>2. history \in Seq(Messages) /\ reached \in Nat /\ Len(all) \in Nat
      BY <1>1, <3>1 DEF TypeOK
    <3> QED BY <3>1, <3>2
  <2>2. unknown' \in BOOLEAN
    BY <1>1 DEF Finish, TypeOK
  <2> QED BY <1>1, <2>1, <2>2 DEF TypeOK, Finish, counters, batch, Places
<1>7. Settled' /\ Working' /\ Stopped'
  BY <1>1 DEF Settled, Working, Stopped, Sound, InBatch
<1> QED BY <1>5, <1>6, <1>7 DEF Inv

\* Nothing of a task that is over is ill typed.
LEMMA ResetTyped ==
    ASSUME Reset
    PROVE  /\ draft' \in Seq(Messages) /\ reached' \in Nat /\ pc' \in Places
           /\ round' = 0 /\ missing' \in Nat /\ questions' \in Nat /\ recoveries' \in Nat
           /\ calls' \in Nat /\ next' \in Nat /\ got' \in Outcomes
           /\ dirty' \in BOOLEAN /\ ok' \in BOOLEAN /\ rollback' \in BOOLEAN
           /\ cancelled' \in BOOLEAN
<1>1. draft' = <<>> /\ pc' \in Places /\ got' \in Outcomes
  BY DEF Reset, Places, Outcomes
<1>2. draft' \in Seq(Messages)
  BY <1>1
<1>3. dirty' \in BOOLEAN /\ ok' \in BOOLEAN /\ rollback' \in BOOLEAN /\ cancelled' \in BOOLEAN
  BY DEF Reset
<1>4. /\ reached' \in Nat /\ round' = 0 /\ missing' \in Nat /\ questions' \in Nat
      /\ recoveries' \in Nat /\ calls' \in Nat /\ next' \in Nat
  BY DEF Reset
<1> QED BY <1>1, <1>2, <1>3, <1>4

LEMMA LostStep == ASSUME Inv, Raise \/ Break PROVE Inv'
<1>1. Reset /\ UNCHANGED <<history, latest, tasks, outcome>>
  BY DEF Raise, Break
<1>2. unknown' \in BOOLEAN
  BY DEF Raise, Break, Inv, TypeOK
<1>3. TypeOK'
  BY <1>1, <1>2, ResetTyped, BoundsAssumption DEF Inv, TypeOK
<1>4. Kept'
  BY <1>1 DEF Inv, Kept
<1> QED BY <1>1, <1>3, <1>4, TaskOver

LEMMA DeliverStep == ASSUME Inv, Deliver PROVE Inv'
<1>1. Reset /\ UNCHANGED <<history, latest, unknown, tasks>>
      /\ outcome' = [outcome EXCEPT ![tasks] = "delivered"]
  BY DEF Deliver
<1>2. TypeOK'
  <2>1. outcome' \in [1 .. MaxTasks -> {"none", "delivered", "failed"}]
    BY <1>1 DEF Inv, TypeOK
  <2>2. history' \in Seq(Messages) /\ latest' \in Nat /\ unknown' \in BOOLEAN
        /\ tasks' \in 0 .. MaxTasks
    BY <1>1 DEF Inv, TypeOK
  <2>3. round' \in 0 .. MaxRounds
    BY <1>1, ResetTyped, BoundsAssumption
  <2> QED BY <1>1, <2>1, <2>2, <2>3, ResetTyped DEF TypeOK
<1>3. Kept'
  BY <1>1 DEF Inv, Kept
<1> QED BY <1>1, <1>2, <1>3, TaskOver

\* A failed task that is told so in the history leaves it paired and calm.
LEMMA CloseFailureKeeps ==
    ASSUME Inv, history # <<>>, CloseFailure(history)
    PROVE  /\ history' \in Seq(Messages) /\ latest' \in Nat /\ Kept'
<1> DEFINE last == history[Len(history)].task
           m == [kind |-> "notice", n |-> 0, task |-> last]
<1>1. history \in Seq(Messages) /\ latest \in Nat /\ Kept
  BY DEF Inv, TypeOK
<1>2. history' \in {history, Append(history, m)} /\ latest' \in {Len(history'), latest}
  BY DEF CloseFailure
<1>3. m \in Messages /\ m.kind = "notice"
  <2>1. history[Len(history)] \in Messages
    BY <1>1
  <2>2. last \in Nat
    BY <2>1 DEF Messages
  <2> HIDE DEF last
  <2> QED BY <2>2 DEF Messages, Kinds
<1> HIDE DEF m
<1>4. Append(history, m) \in Seq(Messages) /\ Paired(Append(history, m)) /\ Calm(Append(history, m))
  BY <1>1, <1>3, AppendPaired, AppendCalm DEF Kept, Answers
<1>5. history' \in Seq(Messages) /\ Kept'
  BY <1>1, <1>2, <1>4 DEF Kept
<1> QED BY <1>1, <1>2, <1>5

LEMMA RejectStep == ASSUME Inv, Reject PROVE Inv'
<1>1. Reset /\ UNCHANGED <<unknown, tasks>> /\ outcome' = [outcome EXCEPT ![tasks] = "failed"]
  BY DEF Reject
<1>2. history' \in Seq(Messages) /\ latest' \in Nat /\ Kept'
  <2>1. CASE history = <<>>
    BY <2>1 DEF Inv, TypeOK, Kept, Reject
  <2>2. CASE history # <<>>
    BY <2>2, CloseFailureKeeps DEF Reject
  <2> QED BY <2>1, <2>2
<1>3. TypeOK'
  <2>1. outcome' \in [1 .. MaxTasks -> {"none", "delivered", "failed"}]
    BY <1>1 DEF Inv, TypeOK
  <2>2. unknown' \in BOOLEAN /\ tasks' \in 0 .. MaxTasks
    BY <1>1 DEF Inv, TypeOK
  <2>3. round' \in 0 .. MaxRounds
    BY <1>1, ResetTyped, BoundsAssumption
  <2> QED BY <1>1, <1>2, <2>1, <2>2, <2>3, ResetTyped DEF TypeOK
<1> QED BY <1>1, <1>2, <1>3, TaskOver

LEMMA ClearStep == ASSUME Inv, Clear PROVE Inv'
<1>1. TypeOK'
  <2>1. history' \in Seq(Messages) /\ latest' \in Nat
    BY DEF Clear
  <2>2. unknown' \in BOOLEAN
    BY DEF Clear
  <2> QED BY <2>1, <2>2 DEF Inv, TypeOK, Clear, counters, batch
<1>2. Kept'
  BY NothingPaired DEF Clear, Kept
<1>3. Settled' /\ Working' /\ Stopped'
  BY DEF Inv, Settled, Working, Stopped, Clear, InBatch
<1> QED BY <1>1, <1>2, <1>3 DEF Inv

LEMMA CancelStep == ASSUME Inv, Cancel PROVE Inv'
<1>1. UNCHANGED <<session, pc, draft, reached, dirty, round, counters, batch, ok, rollback>>
      /\ cancelled' \in BOOLEAN
  BY DEF Cancel
<1>2. TypeOK'
  BY <1>1 DEF Inv, TypeOK, session, counters, batch
<1>3. Kept' /\ Settled' /\ Working' /\ Stopped'
  BY <1>1 DEF Inv, Kept, Settled, Working, Stopped, session, batch
<1> QED BY <1>2, <1>3 DEF Inv

LEMMA AdvanceStep == ASSUME Inv, Advance PROVE Inv'
BY PrepareStep, RoundStep, AnswerWithCallsStep, AnswerWithoutCallsStep, StopBeforeCallStep,
   RunCallStep, ResultStep, AfterCallStep, ProgressStopsStep, ProgressAllowsStep, AssessStep,
   RecoverStep, CloseTaskStep, ReviewStep, FinishStep, DeliverStep, RejectStep DEF Advance

LEMMA Initial == Init => Inv
<1> SUFFICES ASSUME Init PROVE Inv
  OBVIOUS
<1>1. TypeOK
  <2>1. history \in Seq(Messages) /\ draft \in Seq(Messages)
    BY DEF Init
  <2>2. outcome \in [1 .. MaxTasks -> {"none", "delivered", "failed"}]
    BY DEF Init
  <2>3. unknown \in BOOLEAN /\ dirty \in BOOLEAN /\ ok \in BOOLEAN /\ rollback \in BOOLEAN
        /\ cancelled \in BOOLEAN
    BY DEF Init
  <2>4. /\ latest \in Nat /\ reached \in Nat /\ tasks \in 0 .. MaxTasks /\ round \in 0 .. MaxRounds
        /\ missing \in Nat /\ questions \in Nat /\ recoveries \in Nat /\ calls \in Nat
        /\ next \in Nat
    BY BoundsAssumption DEF Init
  <2>5. pc \in Places /\ got \in Outcomes
    BY DEF Init, Places, Outcomes
  <2> QED BY <2>1, <2>2, <2>3, <2>4, <2>5 DEF TypeOK
<1>2. Kept /\ Settled /\ Working /\ Stopped
  BY NothingPaired DEF Init, Kept, Settled, Working, Stopped, InBatch
<1> QED BY <1>1, <1>2 DEF Inv

LEMMA Inductive == Inv /\ [Next]_vars => Inv'
<1> SUFFICES ASSUME Inv, [Next]_vars PROVE Inv'
  OBVIOUS
<1>1. CASE UNCHANGED vars
  BY <1>1 DEF Inv, TypeOK, Kept, Settled, Working, Stopped, vars, session, counters, batch
<1>2. CASE Next
  BY <1>2, StartStep, AdvanceStep, LostStep, ClearStep, CancelStep DEF Next
<1> QED BY <1>1, <1>2

\* What the invariant says of the properties.
LEMMA Consequences == Inv => EveryCallAnswered /\ NothingRunsAfterStop /\ UnknownStops
<1> SUFFICES ASSUME Inv PROVE EveryCallAnswered /\ NothingRunsAfterStop /\ UnknownStops
  OBVIOUS
<1>1. EveryCallAnswered
  BY DEF Inv, Kept, Settled, Sound, InBatch, EveryCallAnswered
<1>2. NothingRunsAfterStop
  <2>1. Calm(draft)
    <3>1. CASE pc \in InBatch
      BY <3>1 DEF Inv, Working
    <3>2. CASE pc \notin InBatch
      BY <3>2 DEF Inv, Settled, Sound
    <3> QED BY <3>1, <3>2
  <2>2. Calm(history)
    BY DEF Inv, Kept
  <2> QED BY <2>1, <2>2 DEF NothingRunsAfterStop, Calm
<1>3. UnknownStops
  BY DEF Inv, Stopped, UnknownStops
<1> QED BY <1>1, <1>2, <1>3

LEMMA Invariance == Spec => []Inv
BY Initial, Inductive, PTL DEF Spec

-----------------------------------------------------------------------------
(* Work shrinks *)

LEMMA PlaceIs ==
    /\ Place["prepare"] = 5 /\ Place["round"] = 4 /\ Place["request"] = 11 + 4 * MaxCalls
    /\ Place["logged"] = 5 /\ Place["call"] = 8 /\ Place["running"] = 7 /\ Place["ran"] = 10
    /\ Place["progress"] = 9 /\ Place["assess"] = 6 /\ Place["recover"] = 5 /\ Place["close"] = 3
    /\ Place["review"] = 2 /\ Place["finish"] = 1 /\ Place["returned"] = 0
BY DEF Place

LEMMA StepsLeftIs ==
    /\ pc \in InBatch => StepsLeft = Place[pc] + 4 * (calls - next)
    /\ pc \notin InBatch => StepsLeft = Place[pc] + 0
BY DEF StepsLeft

LEMMA StepsLeftBecomes ==
    /\ pc' \in InBatch => StepsLeft' = Place[pc'] + 4 * (calls' - next')
    /\ pc' \notin InBatch => StepsLeft' = Place[pc'] + 0
<1>1. Place' = Place
  BY DEF Place
<1> QED BY <1>1 DEF StepsLeft

\* A step to a place outside a batch that costs less, in the same round.
LEMMA Downwards ==
    ASSUME Inv, round' = round, pc \notin InBatch, pc' \notin InBatch,
           Place[pc'] + 0 < Place[pc] + 0
    PROVE  RoundsLeft' = RoundsLeft /\ StepsLeft' < StepsLeft
<1>1. StepsLeft = Place[pc] + 0 /\ StepsLeft' = Place[pc'] + 0
  BY StepsLeftIs, StepsLeftBecomes
<1>2. RoundsLeft' = RoundsLeft
  BY DEF RoundsLeft
<1> HIDE DEF StepsLeft
<1> QED BY <1>1, <1>2

LEMMA OutsideShrinks ==
    ASSUME Inv, pc' # "idle",
           Prepare \/ RoundsUsedUp \/ StopBeforeRound \/ RequestFails \/ BrokenAnswer
           \/ AnswerWithoutCalls \/ AfterCorrection \/ Assess \/ Recover \/ CloseTask \/ Review
           \/ Finish
    PROVE  RoundsLeft' = RoundsLeft /\ StepsLeft' < StepsLeft
<1>1. round' = round
  BY DEF Prepare, RoundsUsedUp, StopBeforeRound, RequestFails, BrokenAnswer, AnswerWithoutCalls,
         AfterCorrection, Assess, Recover, CloseTask, Review, Finish
<1>2. MaxCalls \in Nat
  BY BoundsAssumption
<1>3. \/ pc = "prepare" /\ pc' \in {"finish", "round"}
      \/ pc = "round" /\ pc' = "finish"
      \/ pc = "request" /\ pc' \in {"finish", "round", "logged"}
      \/ pc = "logged" /\ pc' \in {"finish", "round"}
      \/ pc = "assess" /\ pc' \in {"finish", "close", "recover"}
      \/ pc = "recover" /\ pc' \in {"finish", "round"}
      \/ pc = "close" /\ pc' = "review"
      \/ pc = "review" /\ pc' = "finish"
      \/ pc = "finish" /\ pc' = "returned"
  <2>1. CASE Prepare
    BY <2>1 DEF Prepare, Exit
  <2>2. CASE RoundsUsedUp \/ StopBeforeRound \/ RequestFails \/ BrokenAnswer \/ AnswerWithoutCalls
    BY <2>2 DEF RoundsUsedUp, StopBeforeRound, RequestFails, BrokenAnswer, AnswerWithoutCalls, Exit
  <2>3. CASE AfterCorrection \/ Recover
    BY <2>3 DEF AfterCorrection, Recover, Exit
  <2>4. CASE Assess
    BY <2>4 DEF Assess, Exit
  <2>5. CASE CloseTask \/ Review \/ Finish
    BY <2>5 DEF CloseTask, Review, Finish, Exit
  <2> QED BY <2>1, <2>2, <2>3, <2>4, <2>5
<1>4. Place[pc'] + 0 < Place[pc] + 0 /\ pc \notin InBatch /\ pc' \notin InBatch
  BY <1>2, <1>3, PlaceIs DEF InBatch
<1> QED BY <1>1, <1>4, Downwards

LEMMA BatchShrinks ==
    ASSUME Inv, StopBeforeCall \/ RunCall \/ Result \/ AfterCall \/ ProgressStops \/ ProgressAllows
    PROVE  RoundsLeft' = RoundsLeft /\ StepsLeft' < StepsLeft
<1>1. round' = round /\ calls' = calls /\ pc \in InBatch
  BY DEF StopBeforeCall, RunCall, Result, AfterCall, ProgressStops, ProgressAllows, batch, InBatch
<1>2. calls \in Nat /\ next \in 0 .. calls /\ Working
  BY <1>1, BatchFacts
<1>3. StepsLeft = Place[pc] + 4 * (calls - next)
  BY <1>1, StepsLeftIs
<1>4. RoundsLeft' = RoundsLeft
  BY <1>1 DEF RoundsLeft
<1>5. \/ pc = "call" /\ pc' = "running" /\ next' = next
      \/ pc = "running" /\ pc' = "ran" /\ next' = next + 1
      \/ pc = "ran" /\ pc' = "progress" /\ next' \in {next, calls}
      \/ pc = "progress" /\ pc' = "call" /\ next' = next
      \/ pc' \in {"finish", "round"}
      \/ pc = "ran" /\ pc' = "assess"
  <2>1. CASE StopBeforeCall \/ RunCall \/ Result \/ ProgressStops
    BY <2>1 DEF StopBeforeCall, RunCall, Result, ProgressStops, Exit, batch
  <2>2. CASE ProgressAllows
    BY <2>2 DEF ProgressAllows, batch
  <2>3. CASE AfterCall
    <3>1. next' \in {next, calls} /\ pc = "ran"
      BY <2>3 DEF AfterCall
    <3>2. pc' = "finish" \/ (got \in DOMAIN After /\ pc' = After[got])
      BY <2>3 DEF AfterCall, Exit
    <3> QED BY <3>1, <3>2, AfterIs
  <2> QED BY <2>1, <2>2, <2>3
<1>6. CASE pc' \in InBatch
  <2>1. StepsLeft' = Place[pc'] + 4 * (calls - next')
    BY <1>1, <1>6, StepsLeftBecomes
  <2>2. pc = "running" => next < calls
    BY <1>1, <1>2 DEF Working
  <2>3. /\ pc = "call" => StepsLeft = 8 + 4 * (calls - next)
        /\ pc = "running" => StepsLeft = 7 + 4 * (calls - next)
        /\ pc = "ran" => StepsLeft = 10 + 4 * (calls - next)
        /\ pc = "progress" => StepsLeft = 9 + 4 * (calls - next)
    BY <1>3, PlaceIs
  <2>4. /\ pc' = "call" => StepsLeft' = 8 + 4 * (calls - next')
        /\ pc' = "running" => StepsLeft' = 7 + 4 * (calls - next')
        /\ pc' = "ran" => StepsLeft' = 10 + 4 * (calls - next')
        /\ pc' = "progress" => StepsLeft' = 9 + 4 * (calls - next')
    BY <2>1, PlaceIs
  <2> DEFINE old == StepsLeft
             new == StepsLeft'
  <2> HIDE DEF old, new
  <2>5. pc' \notin {"finish", "round", "assess"}
    BY <1>6 DEF InBatch
  <2>6. StepsLeft' < StepsLeft
    <3>1. CASE pc = "call" /\ pc' = "running" /\ next' = next
      BY <1>2, <2>3, <2>4, <3>1
    <3>2. CASE pc = "running" /\ pc' = "ran" /\ next' = next + 1
      BY <1>2, <2>2, <2>3, <2>4, <3>2
    <3>3. CASE pc = "ran" /\ pc' = "progress" /\ next' \in {next, calls}
      <4>1. StepsLeft = 10 + 4 * (calls - next) /\ StepsLeft' = 9 + 4 * (calls - next')
        BY <2>3, <2>4, <3>3
      <4>2. CASE next' = next
        BY <1>2, <4>1, <4>2
      <4>3. CASE next' = calls
        <5>1. 9 + 4 * (calls - calls) < 10 + 4 * (calls - next)
          BY <1>2
        <5> QED BY <4>1, <4>3, <5>1
      <4> QED BY <3>3, <4>2, <4>3
    <3>4. CASE pc = "progress" /\ pc' = "call" /\ next' = next
      BY <1>2, <2>3, <2>4, <3>4
    <3> QED BY <1>5, <2>5, <3>1, <3>2, <3>3, <3>4
  <2> QED BY <1>4, <2>6
<1>7. CASE pc' \notin InBatch
  <2>1. StepsLeft' = Place[pc'] + 0 /\ Place[pc'] \in {4, 1, 6}
    BY <1>5, <1>7, StepsLeftBecomes, PlaceIs DEF InBatch
  <2>2. StepsLeft >= 7
    <3>1. Place[pc] \in {8, 7, 10, 9}
      BY <1>1, PlaceIs DEF InBatch
    <3>2. 4 * (calls - next) >= 0
      BY <1>2
    <3> QED BY <1>2, <1>3, <3>1, <3>2
  <2>3. StepsLeft' \in {4, 1, 6} /\ StepsLeft \in Int
    <3>1. Place[pc] \in {8, 7, 10, 9}
      BY <1>1, PlaceIs DEF InBatch
    <3> QED BY <1>2, <1>3, <2>1, <3>1
  <2> QED BY <1>4, <2>2, <2>3
<1> QED BY <1>6, <1>7

LEMMA AnswerShrinks ==
    ASSUME Inv, AnswerWithCalls PROVE RoundsLeft' = RoundsLeft /\ StepsLeft' < StepsLeft
<1>1. round' = round /\ pc = "request" /\ pc' = "call" /\ next' = 0 /\ calls' \in 1 .. MaxCalls
  BY DEF AnswerWithCalls
<1>2. RoundsLeft' = RoundsLeft
  BY <1>1 DEF RoundsLeft
<1>3. StepsLeft = 11 + 4 * MaxCalls
  BY <1>1, StepsLeftIs, PlaceIs, BoundsAssumption DEF InBatch
<1>4. StepsLeft' = 8 + 4 * calls'
  BY <1>1, StepsLeftBecomes, PlaceIs, BoundsAssumption DEF InBatch
<1>5. \A n \in 1 .. MaxCalls : 8 + 4 * n < 11 + 4 * MaxCalls
  BY BoundsAssumption
<1>6. 8 + 4 * calls' < 11 + 4 * MaxCalls
  BY <1>1, <1>5
<1> QED BY <1>2, <1>3, <1>4, <1>6

LEMMA RoundShrinks == ASSUME Inv, BeginRound PROVE RoundsLeft' < RoundsLeft
BY BoundsAssumption DEF Inv, TypeOK, BeginRound, RoundsLeft

\* A step of a task that goes on, other than its cancellation.
LEMMA StepShrinks ==
    ASSUME Inv, Next, pc # "idle", pc' # "idle", cancelled' = cancelled
    PROVE  \/ RoundsLeft' < RoundsLeft
           \/ RoundsLeft' = RoundsLeft /\ StepsLeft' < StepsLeft
<1>1. ~Start /\ ~Raise /\ ~Break /\ ~Clear /\ ~Cancel /\ ~Deliver /\ ~Reject
  BY DEF Start, Raise, Break, Clear, Cancel, Deliver, Reject, Reset
<1>2. Advance
  BY <1>1 DEF Next
<1> QED BY <1>1, <1>2, OutsideShrinks, BatchShrinks, AnswerShrinks, RoundShrinks DEF Advance

\* What is left is counted in natural numbers, so it cannot shrink for ever.
LEMMA WorkCounted == Inv => RoundsLeft \in Nat /\ (pc # "idle" => StepsLeft \in Nat)
<1> SUFFICES ASSUME Inv PROVE RoundsLeft \in Nat /\ (pc # "idle" => StepsLeft \in Nat)
  OBVIOUS
<1>1. RoundsLeft \in Nat
  BY BoundsAssumption DEF Inv, TypeOK, RoundsLeft
<1>2. CASE pc \in InBatch
  <2>1. Place[pc] \in {8, 7, 10, 9}
    BY <1>2, PlaceIs DEF InBatch
  <2>2. calls \in Nat /\ next \in 0 .. calls
    BY <1>2, BatchFacts
  <2>3. 4 * (calls - next) \in Nat
    BY <2>2
  <2>4. StepsLeft = Place[pc] + 4 * (calls - next)
    BY <1>2, StepsLeftIs
  <2> QED BY <1>1, <2>1, <2>3, <2>4
<1>3. CASE pc \notin InBatch /\ pc # "idle"
  <2>1. Place[pc] \in Nat
    BY <1>3, PlaceIs, BoundsAssumption DEF Inv, TypeOK, Places
  <2> QED BY <1>1, <1>3, <2>1, StepsLeftIs
<1> QED BY <1>1, <1>2, <1>3

-----------------------------------------------------------------------------
(* The theorems *)

\* Every variable keeps its type, whatever the bounds (engine/state.py).
THEOREM Typing == Spec => []TypeOK
<1>1. Inv => TypeOK
  BY DEF Inv
<1> QED BY <1>1, Invariance, PTL

\* Whenever the model is asked again, and in everything the session keeps,
\* each call has one result (tool_batch.py fill_remaining_results).
THEOREM CallsAnswered == Spec => []EveryCallAnswered
<1>1. Inv => EveryCallAnswered
  BY Consequences
<1> QED BY <1>1, Invariance, PTL

\* After a call that failed, finished or asked, the rest of its batch says
\* skipped, for batches of any size (tool_batch.py execute).
THEOREM BatchStops == Spec => []NothingRunsAfterStop
<1>1. Inv => NothingRunsAfterStop
  BY Consequences
<1> QED BY <1>1, Invariance, PTL

\* With unknown effects no tool runs and no model is asked (tool_batch.py,
\* session/runtime.py _run_task_locked).
THEOREM UnknownEffectsStop == Spec => []UnknownStops
<1>1. Inv => UnknownStops
  BY Consequences
<1> QED BY <1>1, Invariance, PTL

\* What is left of a running task is counted in natural numbers: with
\* TasksShrink no task goes on for ever (loop.py run).
THEOREM WorkIsFinite == Spec => [](RoundsLeft \in Nat /\ (pc # "idle" => StepsLeft \in Nat))
BY WorkCounted, Invariance, PTL

\* What is left of a task shrinks, rounds first, with every step but the
\* cancellation (loop.py run).
THEOREM TasksShrink == Spec => WorkShrinks
<1>1. Inv /\ [Next]_vars =>
        [pc # "idle" /\ pc' # "idle" /\ cancelled' = cancelled =>
             \/ RoundsLeft' < RoundsLeft
             \/ RoundsLeft' = RoundsLeft /\ StepsLeft' < StepsLeft]_vars
  BY StepShrinks
<1> QED BY <1>1, Invariance, PTL DEF Spec, WorkShrinks

-----------------------------------------------------------------------------
(* What a failed task is told *)

\* The messages of task t, without a notice or with one at the end.
Quiet(d, t) == \A i \in 1 .. Len(d) : d[i].task = t /\ d[i].kind # "notice"
Closing(d, t) == \A i \in 1 .. Len(d) : d[i].task = t /\ (d[i].kind = "notice" => i = Len(d))

\* The last message of its task in h.
Ends(h, i) == i = Len(h) \/ h[i + 1].task # h[i].task

\* Nobody has told a task yet that it failed.
Early == {"prepare", "round", "request", "logged", "assess", "recover", "close"} \cup InBatch

DraftTold ==
    /\ pc \in Early => Quiet(draft, tasks)
    /\ pc \in {"review", "finish"} => Closing(draft, tasks)

\* Tasks follow one another in a history, and a notice is the last message of one.
InOrder ==
    /\ \A i \in 1 .. Len(history) :
           history[i].task \in 1 .. tasks /\ (pc \notin {"idle", "returned"} => history[i].task < tasks)
    /\ \A i, j \in 1 .. Len(history) : i <= j => history[i].task <= history[j].task
    /\ \A i, j \in 1 .. Len(history) :
           history[i].kind = "notice" /\ i < j => history[j].task # history[i].task

\* A task that goes on has no outcome.
NoOutcome ==
    /\ pc # "idle" => tasks \in 1 .. MaxTasks
    /\ \A t \in 1 .. MaxTasks : t > tasks \/ (t = tasks /\ pc # "idle") => outcome[t] = "none"

ToldSoFar == \A i \in 1 .. Len(history) :
    outcome[history[i].task] = "failed" /\ Ends(history, i) => history[i].kind = "notice"

TellInv == DraftTold /\ InOrder /\ NoOutcome /\ ToldSoFar

LEMMA QuietCloses == ASSUME NEW d, NEW t, Quiet(d, t) PROVE Closing(d, t)
BY DEF Quiet, Closing

\* What a task is told at the end of its messages, by the kind of it.
LEMMA Speaking ==
    ASSUME TypeOK, NEW d \in Seq(Messages), NEW kind \in Kinds, NEW n \in Nat, Quiet(d, tasks)
    PROVE  /\ Append(d, Message(kind, n)) \in Seq(Messages)
           /\ Closing(Append(d, Message(kind, n)), tasks)
           /\ kind # "notice" => Quiet(Append(d, Message(kind, n)), tasks)
           /\ d \o <<Message(kind, n)>> \in Seq(Messages)
           /\ Closing(d \o <<Message(kind, n)>>, tasks)
           /\ kind # "notice" => Quiet(d \o <<Message(kind, n)>>, tasks)
<1> DEFINE m == Message(kind, n)
<1>1. m \in Messages /\ m.kind = kind /\ m.task = tasks
  BY MessageTyped DEF Message
<1> HIDE DEF m
<1>2. PICK e : e = Append(d, m)
  OBVIOUS
<1>3. /\ e \in Seq(Messages) /\ Len(e) = Len(d) + 1 /\ e[Len(e)] = m /\ d \o <<m>> = e
      /\ \A i \in 1 .. Len(d) : e[i] = d[i]
  BY <1>1, <1>2, AppendIsConcat
<1>4. \A i \in 1 .. Len(e) : i \in 1 .. Len(d) \/ i = Len(e)
  BY <1>3
<1>5. Closing(e, tasks)
  BY <1>1, <1>3, <1>4 DEF Quiet, Closing
<1>6. kind # "notice" => Quiet(e, tasks)
  BY <1>1, <1>3, <1>4 DEF Quiet
<1> QED BY <1>2, <1>3, <1>5, <1>6 DEF m

LEMMA ToldCloses ==
    ASSUME TypeOK, NEW d \in Seq(Messages), Closing(d, tasks), NEW success \in BOOLEAN
    PROVE  Told(success, d) \in Seq(Messages) /\ Closing(Told(success, d), tasks)
<1>1. CASE Told(success, d) = d
  BY <1>1
<1>2. CASE Told(success, d) # d
  <2>1. Notices(d) = {} /\ Told(success, d) = Append(d, Message("notice", 0))
    BY <1>2 DEF Told
  <2>2. Quiet(d, tasks)
    BY <2>1 DEF Quiet, Closing, Notices
  <2> QED BY <2>1, <2>2, Speaking DEF Kinds
<1> QED BY <1>1, <1>2

LEMMA SkippedQuiet ==
    ASSUME Inv, pc \in InBatch, Quiet(draft, tasks)
    PROVE  Skipped \in Seq(Messages) /\ Quiet(Skipped, tasks)
<1> DEFINE rest == [k \in 1 .. calls - next |-> Message("skipped", next + k)]
<1>1. calls - next \in Nat /\ draft \in Seq(Messages) /\ next \in Nat
  BY BatchFacts
<1>2. \A k \in 1 .. calls - next : Message("skipped", next + k) \in Messages
  <2>1. \A k \in 1 .. calls - next : next + k \in Nat
    BY <1>1
  <2> QED BY <2>1, MessageTyped DEF Inv, Kinds, Answers
<1>3. rest \in Seq(Messages) /\ Len(rest) = calls - next
  <2>1. rest \in [1 .. calls - next -> Messages]
    BY <1>2
  <2> HIDE DEF rest
  <2> QED BY <1>1, <2>1, Tuple
<1>4. \A k \in 1 .. Len(rest) : rest[k].kind # "notice" /\ rest[k].task = tasks
  BY <1>3 DEF Message
<1>5. Skipped = draft \o rest
  BY DEF Skipped
<1> HIDE DEF rest
<1>6. ASSUME NEW i \in 1 .. Len(Skipped)
      PROVE  Skipped[i].task = tasks /\ Skipped[i].kind # "notice"
  <2>1. Len(Skipped) = Len(draft) + Len(rest)
        /\ Skipped[i] = IF i <= Len(draft) THEN draft[i] ELSE rest[i - Len(draft)]
    BY <1>1, <1>3, <1>5, <1>6, ConcatProperties, ZenonT(40)
  <2>2. CASE i <= Len(draft)
    BY <2>1, <2>2 DEF Quiet
  <2>3. CASE i > Len(draft)
    <3>1. i - Len(draft) \in 1 .. Len(rest)
      BY <1>1, <1>3, <2>1, <2>3
    <3> QED BY <1>4, <2>1, <2>3, <3>1
  <2> QED BY <1>1, <2>2, <2>3
<1> QED BY <1>1, <1>3, <1>5, <1>6 DEF Quiet

\* A step in the middle of a task that adds to what is told.
LEMMA Onwards ==
    ASSUME TellInv, pc \notin {"idle", "returned"}, pc' \notin {"idle", "returned"},
           history' = history, tasks' = tasks, outcome' = outcome,
           pc' \in Early => Quiet(draft', tasks),
           Closing(draft', tasks)
    PROVE  TellInv'
<1>1. DraftTold'
  BY DEF DraftTold
<1>2. InOrder' /\ NoOutcome' /\ ToldSoFar'
  BY DEF TellInv, InOrder, NoOutcome, ToldSoFar, Ends
<1> QED BY <1>1, <1>2 DEF TellInv

\* Before the end of a task nothing tells it.
LEMMA StillQuiet ==
    ASSUME Inv, TellInv, pc \in Early
    PROVE  /\ TypeOK /\ draft \in Seq(Messages) /\ Quiet(draft, tasks) /\ Closing(draft, tasks)
           /\ pc \notin {"idle", "returned"}
BY QuietCloses DEF Inv, TypeOK, TellInv, DraftTold, Early, InBatch

LEMMA SameDraftTells ==
    ASSUME Inv, TellInv,
           Prepare \/ RoundsUsedUp \/ StopBeforeRound \/ RequestFails \/ RunCall \/ Assess
    PROVE  TellInv'
<1>1. /\ pc \in Early /\ pc' \notin {"idle", "returned"} /\ draft' = draft
      /\ history' = history /\ tasks' = tasks /\ outcome' = outcome
  BY DEF Prepare, RoundsUsedUp, StopBeforeRound, RequestFails, RunCall, Assess, Exit, session,
         Early, InBatch
<1> QED BY <1>1, StillQuiet, Onwards

LEMMA AddingTells ==
    ASSUME Inv, TellInv, BeginRound \/ BrokenAnswer \/ AfterCorrection \/ ProgressAllows \/ Recover
    PROVE  TellInv'
<1>1. /\ pc \in Early /\ history' = history /\ tasks' = tasks /\ outcome' = outcome
  BY DEF BeginRound, BrokenAnswer, AfterCorrection, ProgressAllows, Recover, session, Early, InBatch
<1>2. pc' \in {"request", "finish", "round", "call"}
  BY DEF BeginRound, BrokenAnswer, AfterCorrection, ProgressAllows, Recover, Exit
<1>3. \/ draft' = draft \/ draft' = Append(draft, Message("feedback", 0))
      \/ draft' = Append(draft, Message("notice", 0)) /\ pc' = "finish"
  BY DEF BeginRound, BrokenAnswer, AfterCorrection, ProgressAllows, Recover, Exit, Add
<1>4. /\ Quiet(Append(draft, Message("feedback", 0)), tasks)
      /\ Closing(Append(draft, Message("feedback", 0)), tasks)
      /\ Closing(Append(draft, Message("notice", 0)), tasks)
  BY <1>1, StillQuiet, Speaking DEF Kinds
<1> QED BY <1>1, <1>2, <1>3, <1>4, StillQuiet, Onwards DEF Early, InBatch

LEMMA AnswerTells ==
    ASSUME Inv, TellInv, AnswerWithCalls \/ AnswerWithoutCalls PROVE TellInv'
<1>1. /\ pc \in Early /\ history' = history /\ tasks' = tasks /\ outcome' = outcome
      /\ pc' \in {"call", "logged"}
  BY DEF AnswerWithCalls, AnswerWithoutCalls, session, Early, InBatch
<1>2. /\ TypeOK /\ draft \in Seq(Messages) /\ Quiet(draft, tasks)
      /\ pc \notin {"idle", "returned"} /\ pc' \notin {"idle", "returned"}
  BY <1>1, StillQuiet
<1>3. Quiet(draft', tasks)
  <2>1. CASE AnswerWithCalls
    <3>1. PICK n \in 1 .. MaxCalls : draft' = Append(draft, Message("calls", n))
      BY <2>1 DEF AnswerWithCalls
    <3>2. n \in Nat
      BY BoundsAssumption
    <3> QED BY <1>2, <3>1, <3>2, Speaking DEF Kinds
  <2>2. CASE AnswerWithoutCalls
    <3>1. PICK text \in BOOLEAN :
            draft' = (IF text THEN Add("text") ELSE draft) \o
                     (IF missing' >= MissingLimit \/ cancelled THEN <<>>
                      ELSE <<Message("feedback", 0)>>)
      BY <2>2 DEF AnswerWithoutCalls
    <3>2. PICK d : d = IF text THEN Add("text") ELSE draft
      OBVIOUS
    <3>3. d \in Seq(Messages) /\ Quiet(d, tasks)
      BY <1>2, <3>2, Speaking DEF Add, Kinds
    <3>4. draft' = d \/ draft' = d \o <<Message("feedback", 0)>>
      <4>1. d \o <<>> = d
        BY <3>3, ConcatEmptySeq
      <4> QED BY <3>1, <3>2, <4>1
    <3> QED BY <1>2, <3>3, <3>4, Speaking DEF Kinds
  <2> QED BY <2>1, <2>2
<1> QED BY <1>1, <1>2, <1>3, QuietCloses, Onwards

LEMMA BatchTells ==
    ASSUME Inv, TellInv, StopBeforeCall \/ Result \/ AfterCall \/ ProgressStops
    PROVE  TellInv'
<1>1. /\ pc \in Early /\ pc \in InBatch /\ history' = history /\ tasks' = tasks
      /\ outcome' = outcome
  BY DEF StopBeforeCall, Result, AfterCall, ProgressStops, session, Early, InBatch
<1>2. /\ TypeOK /\ draft \in Seq(Messages) /\ Quiet(draft, tasks) /\ Closing(draft, tasks)
      /\ pc \notin {"idle", "returned"}
      /\ Skipped \in Seq(Messages) /\ Quiet(Skipped, tasks) /\ Closing(Skipped, tasks)
  BY <1>1, StillQuiet, SkippedQuiet, QuietCloses
<1> DEFINE notice == Skipped \o <<Message("notice", 0)>>
           fed == Skipped \o <<Message("feedback", 0)>>
<1>3. /\ fed \in Seq(Messages) /\ Quiet(fed, tasks) /\ Closing(fed, tasks)
      /\ Closing(notice, tasks)
  BY <1>2, Speaking, QuietCloses DEF Kinds
<1>4. Closing(fed \o <<Message("notice", 0)>>, tasks)
  <2> HIDE DEF fed
  <2> QED BY <1>2, <1>3, Speaking DEF Kinds
<1>5. CASE StopBeforeCall
  <2>1. draft' = Skipped /\ pc' = "finish"
    BY <1>5 DEF StopBeforeCall, Exit
  <2> QED BY <1>1, <1>2, <2>1, Onwards DEF Early, InBatch
<1>6. CASE Result
  <2>1. PICK result \in Outcomes : draft' = Append(draft, Message(Answer(result), next + 1))
    BY <1>6 DEF Result
  <2>2. /\ Answer(result) \in Kinds /\ Answer(result) # "notice" /\ next + 1 \in Nat
    BY <1>2 DEF Answer, Kinds, Answers, TypeOK
  <2>3. Quiet(draft', tasks) /\ pc' = "ran"
    BY <1>2, <1>6, <2>1, <2>2, Speaking DEF Result
  <2> QED BY <1>1, <1>2, <2>3, QuietCloses, Onwards
<1>7. CASE AfterCall
  <2>1. \/ pc' = "finish" /\ draft' \in {draft, Skipped, draft \o <<Message("notice", 0)>>, notice}
        \/ pc' \in {"round", "progress", "assess"} /\ draft' \in {draft, Skipped}
    <3>1. got \in DOMAIN After => After[got] \in {"round", "progress", "assess"}
      BY AfterIs
    <3> QED BY <1>7, <3>1 DEF AfterCall, Exit
  <2>2. Closing(draft \o <<Message("notice", 0)>>, tasks)
    BY <1>2, Speaking DEF Kinds
  <2>3. Closing(draft', tasks) /\ (pc' # "finish" => Quiet(draft', tasks))
    BY <1>2, <1>3, <2>1, <2>2
  <2>4. pc' \notin {"idle", "returned"} /\ (pc' \in Early => pc' # "finish")
    BY <2>1 DEF Early, InBatch
  <2> QED BY <1>1, <1>2, <2>3, <2>4, Onwards
<1>8. CASE ProgressStops
  <2>1. PICK warned \in {<<>>, <<Message("feedback", 0)>>},
             told \in {<<>>, <<Message("notice", 0)>>} : draft' = Skipped \o warned \o told
    BY <1>8 DEF ProgressStops
  <2>2. Skipped \o <<>> = Skipped /\ fed \o <<>> = fed
    <3> HIDE DEF fed
    <3> QED BY <1>2, <1>3, ConcatEmptySeq
  <2>3. draft' \in {Skipped, fed, notice, fed \o <<Message("notice", 0)>>}
    BY <2>1, <2>2
  <2>4. Closing(draft', tasks)
    <3> HIDE DEF fed, notice
    <3> QED BY <1>2, <1>3, <1>4, <2>3
  <2>5. pc' = "finish"
    BY <1>8 DEF ProgressStops, Exit
  <2> QED BY <1>1, <1>2, <2>4, <2>5, Onwards DEF Early, InBatch
<1> QED BY <1>5, <1>6, <1>7, <1>8

LEMMA ClosingTells == ASSUME Inv, TellInv, CloseTask \/ Review PROVE TellInv'
<1>1. /\ history' = history /\ tasks' = tasks /\ outcome' = outcome
      /\ pc' \in {"review", "finish"} /\ pc \in {"close", "review"}
  BY DEF CloseTask, Review, session, Exit
<1>2. draft \in Seq(Messages) /\ Closing(draft, tasks) /\ TypeOK /\ ok \in BOOLEAN
  BY <1>1, QuietCloses DEF Inv, TypeOK, TellInv, DraftTold, Early
<1>3. Closing(draft', tasks)
  <2>1. CASE Review
    BY <1>2, <2>1 DEF Review
  <2>2. CASE CloseTask
    <3>1. PICK first : first = Told(ok, draft)
      OBVIOUS
    <3>2. first \in Seq(Messages) /\ Closing(first, tasks)
      BY <1>2, <3>1, ToldCloses
    <3>3. draft' = Told(ok', first) /\ ok' \in BOOLEAN
      BY <2>2, <3>1 DEF CloseTask
    <3> QED BY <1>2, <3>2, <3>3, ToldCloses
  <2> QED BY <2>1, <2>2
<1> QED BY <1>1, <1>3, Onwards DEF Early, InBatch

LEMMA StartTells == ASSUME Inv, TellInv, Start PROVE TellInv'
<1>1. /\ pc = "idle" /\ tasks' = tasks + 1 /\ tasks \in 0 .. MaxTasks /\ tasks < MaxTasks
      /\ history' = history /\ outcome' = outcome /\ pc' \in {"returned", "prepare"}
  BY DEF Start, Inv, TypeOK
<1>2. DraftTold'
  <2>1. CASE pc' = "returned"
    BY <2>1 DEF DraftTold, Early, InBatch
  <2>2. CASE pc' = "prepare"
    <3>1. draft' = <<[Message("task", 0) EXCEPT !.task = tasks + 1]>>
      BY <1>1, <2>2 DEF Start
    <3>2. draft' = <<[kind |-> "task", n |-> 0, task |-> tasks']>>
      BY <1>1, <3>1 DEF Message
    <3>3. Len(draft') = 1 /\ draft'[1].kind = "task" /\ draft'[1].task = tasks'
      BY <3>2
    <3>4. Quiet(draft', tasks')
      BY <3>3 DEF Quiet
    <3> QED BY <2>2, <3>4 DEF DraftTold
  <2> QED BY <1>1, <2>1, <2>2
<1>3. InOrder'
  <2>1. /\ \A i \in 1 .. Len(history) : history[i].task \in 1 .. tasks
        /\ \A i \in 1 .. Len(history) : history[i].task \in 1 .. tasks + 1 /\ history[i].task < tasks + 1
    BY <1>1 DEF TellInv, InOrder
  <2> QED BY <1>1, <2>1 DEF TellInv, InOrder
<1>4. NoOutcome' /\ ToldSoFar'
  BY <1>1, BoundsAssumption DEF TellInv, NoOutcome, ToldSoFar, Ends
<1> QED BY <1>2, <1>3, <1>4 DEF TellInv

LEMMA FinishTells == ASSUME Inv, TellInv, Finish PROVE TellInv'
<1>1. /\ pc = "finish" /\ pc' = "returned" /\ tasks' = tasks /\ outcome' = outcome
      /\ TypeOK /\ ok \in BOOLEAN /\ history \in Seq(Messages) /\ draft \in Seq(Messages)
      /\ tasks \in 1 .. MaxTasks /\ outcome[tasks] = "none"
  BY DEF Finish, Inv, TypeOK, TellInv, NoOutcome
<1>2. PICK told : told = Told(ok, draft)
  OBVIOUS
<1>3. told \in Seq(Messages) /\ Closing(told, tasks)
  BY <1>1, <1>2, ToldCloses DEF TellInv, DraftTold
<1>4. PICK all : all = history \o told
  OBVIOUS
<1>5. history' \in {history, all}
  BY <1>2, <1>4 DEF Finish
<1>6. DraftTold' /\ NoOutcome'
  BY <1>1 DEF TellInv, DraftTold, NoOutcome, Early, InBatch
<1>7. CASE history' = history
  <2>1. InOrder' /\ ToldSoFar'
    BY <1>1, <1>7 DEF TellInv, InOrder, ToldSoFar, Ends
  <2> QED BY <1>6, <2>1 DEF TellInv
<1>8. CASE history' = all
  <2>1. /\ all \in Seq(Messages) /\ Len(all) = Len(history) + Len(told)
        /\ \A i \in 1 .. Len(history) : all[i] = history[i]
    BY <1>1, <1>3, <1>4, ConcatProperties
  <2>2. ASSUME NEW i \in 1 .. Len(all), i > Len(history)
        PROVE  all[i].task = tasks /\ (all[i].kind = "notice" => i = Len(all))
    <3>1. all[i] = told[i - Len(history)] /\ i - Len(history) \in 1 .. Len(told)
      BY <1>1, <1>3, <1>4, <2>1, <2>2, ConcatProperties
    <3>2. i - Len(history) = Len(told) => i = Len(all)
      BY <1>1, <1>3, <2>1
    <3> QED BY <1>3, <3>1, <3>2 DEF Closing
  <2>3. \A i \in 1 .. Len(history) : all[i].task \in 1 .. tasks /\ all[i].task < tasks
    BY <1>1, <2>1 DEF TellInv, InOrder
  <2>4. \A i \in 1 .. Len(all) : all[i].task \in 1 .. tasks
    BY <1>1, <2>1, <2>2, <2>3
  <2>5. \A i, j \in 1 .. Len(all) : i <= j => all[i].task <= all[j].task
    <3> SUFFICES ASSUME NEW i \in 1 .. Len(all), NEW j \in 1 .. Len(all), i <= j
                 PROVE  all[i].task <= all[j].task
      OBVIOUS
    <3>1. CASE j <= Len(history)
      <4>1. i \in 1 .. Len(history) /\ j \in 1 .. Len(history)
        BY <1>1, <3>1
      <4> QED BY <2>1, <4>1 DEF TellInv, InOrder
    <3>2. CASE j > Len(history)
      BY <1>1, <2>2, <2>4, <3>2
    <3> QED BY <1>1, <3>1, <3>2
  <2>6. \A i, j \in 1 .. Len(all) : all[i].kind = "notice" /\ i < j => all[j].task # all[i].task
    <3> SUFFICES ASSUME NEW i \in 1 .. Len(all), NEW j \in 1 .. Len(all),
                        all[i].kind = "notice", i < j
                 PROVE  all[j].task # all[i].task
      OBVIOUS
    <3>1. i <= Len(history)
      BY <1>1, <2>1, <2>2
    <3>2. CASE j <= Len(history)
      <4>1. i \in 1 .. Len(history) /\ j \in 1 .. Len(history)
        BY <1>1, <3>1, <3>2
      <4> QED BY <2>1, <4>1 DEF TellInv, InOrder
    <3>3. CASE j > Len(history)
      <4>1. i \in 1 .. Len(history) /\ all[j].task = tasks
        BY <1>1, <2>2, <3>1, <3>3
      <4> QED BY <1>1, <2>3, <4>1
    <3> QED BY <1>1, <3>2, <3>3
  <2>7. \A i \in 1 .. Len(all) : outcome[all[i].task] = "failed" /\ Ends(all, i)
            => all[i].kind = "notice"
    <3> SUFFICES ASSUME NEW i \in 1 .. Len(all), outcome[all[i].task] = "failed", Ends(all, i)
                 PROVE  all[i].kind = "notice"
      OBVIOUS
    <3>1. i \in 1 .. Len(history)
      BY <1>1, <2>1, <2>2
    <3>2. Ends(history, i)
      <4>1. CASE i = Len(history)
        BY <4>1 DEF Ends
      <4>2. CASE i # Len(history)
        <5>1. i + 1 \in 1 .. Len(history) /\ i # Len(all)
          BY <1>1, <1>3, <2>1, <3>1, <4>2
        <5> QED BY <2>1, <3>1, <5>1 DEF Ends
      <4> QED BY <4>1, <4>2
    <3> QED BY <2>1, <3>1, <3>2 DEF TellInv, ToldSoFar
  <2>8. InOrder'
    BY <1>1, <1>8, <2>4, <2>5, <2>6 DEF InOrder
  <2>9. ToldSoFar'
    BY <1>1, <1>8, <2>7 DEF ToldSoFar, Ends
  <2> QED BY <1>6, <2>8, <2>9 DEF TellInv
<1> QED BY <1>5, <1>7, <1>8

\* The task is over, and its outcome is not a failure.
LEMMA OverTells ==
    ASSUME Inv, TellInv, pc' = "idle", history' = history, tasks' = tasks,
           \A t \in 1 .. MaxTasks : outcome'[t] = "failed" => outcome[t] = "failed",
           \A t \in 1 .. MaxTasks : t > tasks => outcome'[t] = outcome[t]
    PROVE  TellInv'
<1>1. tasks \in 0 .. MaxTasks /\ \A i \in 1 .. Len(history) : history[i].task \in 1 .. tasks
  BY DEF Inv, TypeOK, TellInv, InOrder
<1>2. \A i \in 1 .. Len(history) : history[i].task \in 1 .. MaxTasks
  BY <1>1, BoundsAssumption
<1>3. DraftTold' /\ NoOutcome' /\ InOrder'
  BY <1>1 DEF TellInv, DraftTold, NoOutcome, InOrder, Early, InBatch
<1>4. ToldSoFar'
  BY <1>2 DEF TellInv, ToldSoFar, Ends
<1> QED BY <1>3, <1>4 DEF TellInv

LEMMA EndTells == ASSUME Inv, TellInv, Deliver \/ Raise \/ Break PROVE TellInv'
<1>1. /\ pc' = "idle" /\ history' = history /\ tasks' = tasks
      /\ outcome' = outcome \/ outcome' = [outcome EXCEPT ![tasks] = "delivered"]
  BY DEF Deliver, Raise, Break, Reset
<1>2. outcome \in [1 .. MaxTasks -> {"none", "delivered", "failed"}] /\ tasks \in 0 .. MaxTasks
  BY DEF Inv, TypeOK
<1>3. /\ \A t \in 1 .. MaxTasks : outcome'[t] = "failed" => outcome[t] = "failed"
      /\ \A t \in 1 .. MaxTasks : t > tasks => outcome'[t] = outcome[t]
  BY <1>1, <1>2, BoundsAssumption
<1> QED BY <1>1, <1>3, OverTells

LEMMA RejectTells == ASSUME Inv, TellInv, Reject PROVE TellInv'
<1>1. /\ pc = "returned" /\ pc' = "idle" /\ tasks' = tasks /\ tasks \in 1 .. MaxTasks
      /\ outcome' = [outcome EXCEPT ![tasks] = "failed"]
      /\ outcome \in [1 .. MaxTasks -> {"none", "delivered", "failed"}]
      /\ history \in Seq(Messages)
  BY DEF Reject, Reset, Inv, TypeOK, TellInv, NoOutcome
<1>2. DraftTold' /\ NoOutcome'
  BY <1>1 DEF TellInv, DraftTold, NoOutcome, Early, InBatch
<1>3. CASE history = <<>>
  <2>1. Len(history') = 0
    BY <1>3 DEF Reject
  <2>2. InOrder' /\ ToldSoFar'
    BY <2>1 DEF InOrder, ToldSoFar
  <2> QED BY <1>2, <2>2 DEF TellInv
<1>4. CASE history # <<>>
  <2>1. PICK n \in Nat : n = Len(history)
    BY <1>1
  <2>2. n \in 1 .. n
    BY <1>1, <1>4, <2>1
  <2>3. PICK last \in 1 .. tasks : last = history[n].task
    BY <2>1, <2>2 DEF TellInv, InOrder
  <2>4. /\ \A i \in 1 .. n : history[i].task \in 1 .. tasks
        /\ \A i, j \in 1 .. n : i <= j => history[i].task <= history[j].task
        /\ \A i, j \in 1 .. n : history[i].kind = "notice" /\ i < j => history[j].task # history[i].task
        /\ \A i \in 1 .. n : outcome[history[i].task] = "failed" /\ Ends(history, i)
               => history[i].kind = "notice"
    BY <2>1 DEF TellInv, InOrder, ToldSoFar
  <2>5. \A i \in 1 .. n : history[i].task = tasks /\ Ends(history, i) => i = n
    <3> SUFFICES ASSUME NEW i \in 1 .. n, history[i].task = tasks, Ends(history, i), i # n
                 PROVE  FALSE
      OBVIOUS
    <3>1. i + 1 \in 1 .. n /\ history[i + 1].task # tasks
      BY <2>1, <2>2 DEF Ends
    <3>2. tasks <= history[i + 1].task /\ history[i + 1].task \in 1 .. tasks
      BY <2>4, <3>1
    <3> QED BY <1>1, <3>1, <3>2
  <2>6. \A i \in 1 .. n : outcome'[history[i].task] = "failed" /\ Ends(history, i)
            => history[i].kind = "notice" \/ i = n
    <3> SUFFICES ASSUME NEW i \in 1 .. n, outcome'[history[i].task] = "failed",
                        Ends(history, i), i # n
                 PROVE  history[i].kind = "notice"
      OBVIOUS
    <3>1. history[i].task # tasks /\ history[i].task \in 1 .. MaxTasks
      <4>1. history[i].task # tasks
        BY <2>5
      <4>2. history[i].task \in 1 .. tasks
        BY <2>4
      <4> QED BY <1>1, <4>1, <4>2, BoundsAssumption
    <3>2. outcome'[history[i].task] = outcome[history[i].task]
      BY <1>1, <3>1
    <3> QED BY <2>4, <3>2
  <2>7. CloseFailure(history)
    BY <1>4 DEF Reject
  <2>8. CASE \E i \in Notices(history) : history[i].task = last
    <3>1. history' = history
      BY <2>1, <2>3, <2>7, <2>8 DEF CloseFailure
    <3>2. PICK i \in 1 .. n : history[i].kind = "notice" /\ history[i].task = last
      BY <2>1, <2>8 DEF Notices
    <3>3. history[n].kind = "notice"
      <4>1. ~(i < n)
        BY <2>2, <2>3, <2>4, <3>2
      <4> QED BY <2>1, <3>2, <4>1
    <3>4. InOrder'
      BY <1>1, <2>1, <2>4, <3>1 DEF InOrder
    <3>5. ToldSoFar'
      BY <2>1, <2>6, <3>1, <3>3 DEF ToldSoFar, Ends
    <3> QED BY <1>2, <3>4, <3>5 DEF TellInv
  <2>9. CASE ~ \E i \in Notices(history) : history[i].task = last
    <3>1. PICK m : m = [kind |-> "notice", n |-> 0, task |-> last]
      OBVIOUS
    <3>2. history' = Append(history, m)
      BY <2>1, <2>3, <2>7, <2>9, <3>1 DEF CloseFailure
    <3>3. m \in Messages /\ m.kind = "notice" /\ m.task = last
      BY <1>1, <2>3, <3>1 DEF Messages, Kinds
    <3>4. PICK h : h = history'
      OBVIOUS
    <3>5. /\ Len(h) = n + 1 /\ h[n + 1] = m /\ \A i \in 1 .. n : h[i] = history[i]
      BY <1>1, <2>1, <3>2, <3>3, <3>4
    <3>6. \A i \in 1 .. Len(h) : i \in 1 .. n \/ i = n + 1
      BY <2>1, <3>5
    <3>7. \A i \in 1 .. Len(h) : h[i].task \in 1 .. tasks
      BY <2>3, <2>4, <3>3, <3>5, <3>6
    <3>8. \A i, j \in 1 .. Len(h) : i <= j => h[i].task <= h[j].task
      <4> SUFFICES ASSUME NEW i \in 1 .. Len(h), NEW j \in 1 .. Len(h), i <= j
                   PROVE  h[i].task <= h[j].task
        OBVIOUS
      <4>1. CASE j \in 1 .. n
        BY <2>1, <2>4, <3>5, <3>6, <4>1
      <4>2. CASE j = n + 1
        <5>1. CASE i = n + 1
          BY <1>1, <2>3, <3>3, <3>5, <4>2, <5>1
        <5>2. CASE i \in 1 .. n
          BY <2>2, <2>3, <2>4, <3>3, <3>5, <4>2, <5>2
        <5> QED BY <3>6, <5>1, <5>2
      <4> QED BY <3>6, <4>1, <4>2
    <3>9. \A i, j \in 1 .. Len(h) : h[i].kind = "notice" /\ i < j => h[j].task # h[i].task
      <4> SUFFICES ASSUME NEW i \in 1 .. Len(h), NEW j \in 1 .. Len(h), h[i].kind = "notice", i < j
                   PROVE  h[j].task # h[i].task
        OBVIOUS
      <4>1. i \in 1 .. n
        BY <2>1, <3>5, <3>6
      <4>2. CASE j \in 1 .. n
        BY <2>4, <3>5, <4>1, <4>2
      <4>3. CASE j = n + 1
        BY <2>1, <2>9, <3>3, <3>5, <4>1, <4>3 DEF Notices
      <4> QED BY <3>6, <4>2, <4>3
    <3>10. \A i \in 1 .. Len(h) : outcome'[h[i].task] = "failed" /\ Ends(h, i)
               => h[i].kind = "notice"
      <4> SUFFICES ASSUME NEW i \in 1 .. n, outcome'[h[i].task] = "failed", Ends(h, i)
                   PROVE  h[i].kind = "notice"
        BY <3>3, <3>5, <3>6
      <4>1. i # n
        <5>1. n # Len(h) /\ h[n + 1].task = h[n].task
          BY <2>1, <2>2, <2>3, <3>3, <3>5
        <5> QED BY <5>1 DEF Ends
      <4>2. i + 1 \in 1 .. n /\ i # Len(h)
        BY <2>1, <3>5, <4>1
      <4>3. Ends(history, i)
        BY <3>5, <4>2 DEF Ends
      <4> QED BY <2>6, <3>5, <4>1, <4>3
    <3>11. InOrder'
      BY <1>1, <3>4, <3>7, <3>8, <3>9 DEF InOrder
    <3>12. ToldSoFar'
      BY <3>4, <3>10 DEF ToldSoFar, Ends
    <3> QED BY <1>2, <3>11, <3>12 DEF TellInv
  <2> QED BY <2>8, <2>9
<1> QED BY <1>3, <1>4

LEMMA ClearTells == ASSUME Inv, TellInv, Clear PROVE TellInv'
<1>1. pc = "idle" /\ pc' = "idle" /\ Len(history') = 0 /\ tasks' = tasks /\ outcome' = outcome
  BY DEF Clear
<1>2. DraftTold' /\ NoOutcome' /\ InOrder' /\ ToldSoFar'
  BY <1>1 DEF TellInv, DraftTold, NoOutcome, InOrder, ToldSoFar, Early, InBatch
<1> QED BY <1>2 DEF TellInv

LEMMA TellStep == Inv /\ TellInv /\ [Next]_vars => TellInv'
<1> SUFFICES ASSUME Inv, TellInv, [Next]_vars PROVE TellInv'
  OBVIOUS
<1>1. CASE Advance
  BY <1>1, SameDraftTells, AddingTells, AnswerTells, BatchTells, ClosingTells, FinishTells,
     EndTells, RejectTells DEF Advance
<1>2. CASE Cancel \/ UNCHANGED vars
  BY <1>2 DEF Cancel, vars, session, TellInv, DraftTold, InOrder, NoOutcome, ToldSoFar, Ends
<1> QED BY <1>1, <1>2, StartTells, EndTells, ClearTells DEF Next

LEMMA TellInit == Init => TellInv
BY DEF Init, TellInv, DraftTold, InOrder, NoOutcome, ToldSoFar, Early, InBatch

\* A task in the history that did not succeed says so in its last message, also when
\* the runtime rejects it after the agent had closed it
\* (_synchronize_runtime_final_outcome).
THEOREM FailuresAreTold == Spec => []FailureIsTold
<1>1. TellInv => FailureIsTold
  BY DEF TellInv, ToldSoFar, Ends, FailureIsTold
<1>2. Spec => [](Inv /\ TellInv)
  BY Initial, Inductive, TellInit, TellStep, PTL DEF Spec
<1> QED BY <1>1, <1>2, PTL

-----------------------------------------------------------------------------
(* No gap in the history *)

\* Every text of d that something follows is answered by feedback or a notice.
TextsAnswered(d) ==
    \A i \in 1 .. Len(d) - 1 : d[i].kind = "text" => d[i + 1].kind \in {"feedback", "notice"}
\* One task message, at the beginning.
OneTask(d) == d # <<>> /\ d[1].kind = "task" /\ \A i \in 2 .. Len(d) : d[i].kind # "task"
Tidy(d) == d \in Seq(Messages) /\ TextsAnswered(d) /\ OneTask(d)

NoOpenText(d) == d[Len(d)].kind # "text"
HasCalls(d) == \E i \in 1 .. Len(d) : d[i].kind = "calls"

\* The draft can be closed by whatever way out is taken.
Closable ==
    /\ pc \notin {"idle", "returned"} => Tidy(draft)
    /\ \/ pc \in {"idle", "returned"}
       \/ pc = "logged" /\ (cancelled \/ missing >= MissingLimit)
       \/ pc = "finish" /\ ~ok
       \/ NoOpenText(draft)
    /\ pc \in InBatch \cup {"assess", "recover", "close"} => HasCalls(draft)
    /\ ok => pc \in {"close", "review", "finish", "returned"}
    /\ ok /\ pc # "returned" => HasCalls(draft)

\* The watermark of the task is where the task began, or where it was closed.
Reached ==
    pc \notin {"idle", "returned"} =>
        \/ reached = Len(history)
        \/ pc \in {"review", "finish"} /\ reached = Len(history) + Len(draft)

\* Each block is closed and of one task.
Gapless(h) ==
    /\ h # <<>> => h[1].kind = "task"
    /\ \A a \in 1 .. Len(h) : \A b \in a .. Len(h) : Block(h, a, b) =>
           Closed(SubSeq(h, a, b)) /\ \A i \in a .. b : h[i].task = h[a].task

GapInv == Closable /\ Reached /\ latest = Len(history) /\ Gapless(history)

\* A message that is added leaves the draft tidy; one that is no text is its end.
LEMMA Adding ==
    ASSUME NEW d, Tidy(d), NEW m \in Messages, m.kind # "task",
           NoOpenText(d) \/ m.kind \in {"feedback", "notice"}
    PROVE  /\ Tidy(Append(d, m)) /\ Tidy(d \o <<m>>)
           /\ m.kind # "text" => NoOpenText(Append(d, m)) /\ NoOpenText(d \o <<m>>)
           /\ HasCalls(d) \/ m.kind = "calls" => HasCalls(Append(d, m)) /\ HasCalls(d \o <<m>>)
<1>1. PICK e : e = Append(d, m)
  OBVIOUS
<1>2. /\ d \in Seq(Messages) /\ Len(d) > 0 /\ e \in Seq(Messages) /\ Len(e) = Len(d) + 1
      /\ e[Len(e)] = m /\ e # <<>> /\ \A i \in 1 .. Len(d) : e[i] = d[i]
  BY <1>1 DEF Tidy, OneTask
<1>3. \A i \in 1 .. Len(e) : i \in 1 .. Len(d) \/ i = Len(e)
  BY <1>2
<1>4. OneTask(e)
  <2>1. e[1] = d[1] /\ \A i \in 2 .. Len(d) : i \in 1 .. Len(d)
    BY <1>2
  <2>2. \A i \in 2 .. Len(e) : i \in 2 .. Len(d) \/ i = Len(e)
    BY <1>2
  <2> QED BY <1>2, <2>1, <2>2 DEF Tidy, OneTask
<1>5. TextsAnswered(e)
  <2> SUFFICES ASSUME NEW i \in 1 .. Len(e) - 1, e[i].kind = "text"
               PROVE  e[i + 1].kind \in {"feedback", "notice"}
    BY DEF TextsAnswered
  <2>1. CASE i = Len(d)
    <3>1. e[i] = d[i] /\ e[i + 1] = m
      BY <1>2, <2>1
    <3> QED BY <2>1, <3>1 DEF NoOpenText
  <2>2. CASE i # Len(d)
    <3>1. i \in 1 .. Len(d) - 1 /\ i \in 1 .. Len(d) /\ i + 1 \in 1 .. Len(d)
      BY <1>2, <2>2
    <3> QED BY <1>2, <3>1 DEF Tidy, TextsAnswered
  <2> QED BY <2>1, <2>2
<1>6. m.kind # "text" => NoOpenText(e)
  BY <1>2 DEF NoOpenText
<1>7. HasCalls(d) \/ m.kind = "calls" => HasCalls(e)
  <2>1. Len(e) \in 1 .. Len(e) /\ \A i \in 1 .. Len(d) : i \in 1 .. Len(e)
    BY <1>2
  <2> QED BY <1>2, <2>1 DEF HasCalls
<1>8. d \o <<m>> = e
  BY <1>1, <1>2, AppendIsConcat
<1> QED BY <1>1, <1>2, <1>4, <1>5, <1>6, <1>7, <1>8 DEF Tidy

LEMMA SkippedTidy ==
    ASSUME Inv, pc \in InBatch, Tidy(draft), NoOpenText(draft), HasCalls(draft)
    PROVE  Tidy(Skipped) /\ NoOpenText(Skipped) /\ HasCalls(Skipped)
<1> DEFINE rest == [k \in 1 .. calls - next |-> Message("skipped", next + k)]
<1>1. calls - next \in Nat /\ draft \in Seq(Messages) /\ next \in Nat /\ Len(draft) > 0
  BY BatchFacts
<1>2. \A k \in 1 .. calls - next : Message("skipped", next + k) \in Messages
  <2>1. \A k \in 1 .. calls - next : next + k \in Nat
    BY <1>1
  <2> QED BY <2>1, MessageTyped DEF Inv, Kinds, Answers
<1>3. rest \in Seq(Messages) /\ Len(rest) = calls - next
  <2>1. rest \in [1 .. calls - next -> Messages]
    BY <1>2
  <2> HIDE DEF rest
  <2> QED BY <1>1, <2>1, Tuple
<1>4. \A k \in 1 .. Len(rest) : rest[k].kind = "skipped"
  BY <1>3 DEF Message
<1>5. PICK e : e = Skipped
  OBVIOUS
<1>6. e = draft \o rest
  BY <1>5 DEF Skipped
<1> HIDE DEF rest
<1>7. /\ e \in Seq(Messages) /\ Len(e) = Len(draft) + Len(rest) /\ Len(e) > 0
      /\ \A i \in 1 .. Len(draft) : i \in 1 .. Len(e) /\ e[i] = draft[i]
  <2>1. /\ e \in Seq(Messages) /\ Len(e) = Len(draft) + Len(rest)
        /\ \A i \in 1 .. Len(draft) + Len(rest) :
               e[i] = IF i <= Len(draft) THEN draft[i] ELSE rest[i - Len(draft)]
    BY <1>1, <1>3, <1>6, ConcatProperties
  <2> QED BY <1>1, <1>3, <2>1
<1>8. ASSUME NEW i \in 1 .. Len(e), i > Len(draft) PROVE e[i].kind = "skipped"
  <2>1. i - Len(draft) \in 1 .. Len(rest) /\ e[i] = rest[i - Len(draft)]
    BY <1>1, <1>3, <1>6, <1>7, <1>8, ConcatProperties
  <2> QED BY <1>4, <2>1
<1>9. OneTask(e)
  <2>1. e # <<>> /\ e[1] = draft[1]
    BY <1>1, <1>7
  <2>2. \A i \in 2 .. Len(e) : i \in 1 .. Len(e) /\ (i \in 2 .. Len(draft) \/ i > Len(draft))
    BY <1>1, <1>7
  <2>3. \A i \in 2 .. Len(draft) : i \in 1 .. Len(draft)
    OBVIOUS
  <2> QED BY <1>7, <1>8, <2>1, <2>2, <2>3 DEF Tidy, OneTask
<1>10. TextsAnswered(e)
  <2> SUFFICES ASSUME NEW i \in 1 .. Len(e) - 1, e[i].kind = "text"
               PROVE  e[i + 1].kind \in {"feedback", "notice"}
    BY DEF TextsAnswered
  <2>1. i \in 1 .. Len(e)
    BY <1>7
  <2>2. i <= Len(draft) /\ i # Len(draft)
    <3>1. ~(i > Len(draft))
      BY <1>8, <2>1
    <3>2. i = Len(draft) => e[i] = draft[Len(draft)]
      BY <1>7, <2>1
    <3> QED BY <1>1, <3>1, <3>2 DEF NoOpenText
  <2>3. i \in 1 .. Len(draft) - 1 /\ i \in 1 .. Len(draft) /\ i + 1 \in 1 .. Len(draft)
    BY <1>1, <2>2
  <2> QED BY <1>7, <2>3 DEF Tidy, TextsAnswered
<1>11. NoOpenText(e)
  <2>1. CASE Len(e) > Len(draft)
    BY <1>7, <1>8, <2>1 DEF NoOpenText
  <2>2. CASE Len(e) = Len(draft)
    BY <1>1, <1>7, <2>2 DEF NoOpenText
  <2> QED BY <1>1, <1>3, <1>7, <2>1, <2>2
<1>12. HasCalls(e)
  BY <1>7 DEF HasCalls
<1> QED BY <1>5, <1>7, <1>9, <1>10, <1>11, <1>12 DEF Tidy

LEMMA Made ==
    ASSUME TypeOK, NEW kind \in Kinds, NEW n \in Nat
    PROVE  \E m \in Messages : m = Message(kind, n) /\ m.kind = kind
<1>1. Message(kind, n) \in Messages
  BY MessageTyped
<1>2. Message(kind, n).kind = kind
  BY DEF Message
<1> QED BY <1>1, <1>2

\* A step before the end of a task.
LEMMA Goes ==
    ASSUME GapInv, pc \in Early, history' = history, latest' = latest, reached' = reached,
           pc' \notin {"idle", "returned", "review"}, Tidy(draft'),
           \/ NoOpenText(draft')
           \/ pc' = "finish" /\ ~ok'
           \/ pc' = "logged" /\ (cancelled' \/ missing' >= MissingLimit),
           pc' \in InBatch \cup {"assess", "recover", "close"} => HasCalls(draft'),
           ok' => pc' = "close"
    PROVE  GapInv'
<1>1. Closable'
  BY DEF Closable
<1>2. Reached'
  BY DEF GapInv, Reached, Early, InBatch
<1>3. Gapless(history')
  BY DEF GapInv
<1> QED BY <1>1, <1>2, <1>3 DEF GapInv

\* What is known in the middle of a task.
LEMMA Going ==
    ASSUME Inv, GapInv, pc \in Early
    PROVE  /\ TypeOK /\ Tidy(draft) /\ (ok => pc = "close")
           /\ pc # "logged" \/ (~cancelled /\ missing < MissingLimit) => NoOpenText(draft)
           /\ pc \in InBatch \cup {"assess", "recover", "close"} => HasCalls(draft)
<1>1. missing \in Nat /\ MissingLimit \in Nat /\ TypeOK
  BY BoundsAssumption DEF Inv, TypeOK
<1> QED BY <1>1 DEF GapInv, Closable, Early, InBatch

LEMMA SameDraftGoes ==
    ASSUME Inv, GapInv,
           Prepare \/ RoundsUsedUp \/ StopBeforeRound \/ RequestFails \/ RunCall \/ Assess
    PROVE  GapInv'
<1>1. /\ pc \in Early /\ pc \notin {"logged", "close"} /\ draft' = draft /\ history' = history
      /\ latest' = latest /\ reached' = reached
      /\ pc' \in {"finish", "round", "running", "close", "recover"}
  BY DEF Prepare, RoundsUsedUp, StopBeforeRound, RequestFails, RunCall, Assess, Exit, session,
         Early, InBatch
<1>2. /\ TypeOK /\ Tidy(draft) /\ ~ok /\ NoOpenText(draft)
      /\ pc \in InBatch \cup {"assess", "recover", "close"} => HasCalls(draft)
  BY <1>1, Going
<1>3. ok' => pc' = "close"
  BY <1>2 DEF Prepare, RoundsUsedUp, StopBeforeRound, RequestFails, RunCall, Assess, Exit
<1>4. pc' \in InBatch \cup {"assess", "recover", "close"}
          => pc \in InBatch \cup {"assess", "recover", "close"}
  BY DEF Prepare, RoundsUsedUp, StopBeforeRound, RequestFails, RunCall, Assess, Exit, InBatch
<1> QED BY <1>1, <1>2, <1>3, <1>4, Goes

LEMMA AddingGoes ==
    ASSUME Inv, GapInv, BeginRound \/ BrokenAnswer \/ AfterCorrection \/ ProgressAllows \/ Recover
    PROVE  GapInv'
<1>1. /\ pc \in Early /\ pc # "close" /\ history' = history /\ latest' = latest
      /\ reached' = reached
      /\ pc' \in {"request", "finish", "round", "call"}
  BY DEF BeginRound, BrokenAnswer, AfterCorrection, ProgressAllows, Recover, Exit, session,
         Early, InBatch
<1>2. /\ TypeOK /\ Tidy(draft) /\ ~ok
      /\ pc # "logged" \/ (~cancelled /\ missing < MissingLimit) => NoOpenText(draft)
      /\ pc \in InBatch \cup {"assess", "recover", "close"} => HasCalls(draft)
  BY <1>1, Going
<1>3. PICK fed \in Messages : fed = Message("feedback", 0) /\ fed.kind = "feedback"
  BY <1>2, Made DEF Kinds
<1>4. PICK notice \in Messages : notice = Message("notice", 0) /\ notice.kind = "notice"
  BY <1>2, Made DEF Kinds
<1>5. /\ Tidy(Append(draft, fed)) /\ NoOpenText(Append(draft, fed))
      /\ Tidy(Append(draft, notice)) /\ NoOpenText(Append(draft, notice))
  BY <1>2, <1>3, <1>4, Adding
<1>6. /\ \/ draft' = Append(draft, fed) \/ draft' = Append(draft, notice)
         \/ draft' = draft /\ (pc # "logged" \/ pc' = "finish" \/ (~cancelled /\ missing < MissingLimit))
      /\ pc' = "call" => draft' = draft /\ pc = "progress"
      /\ ~ok'
  <2>1. CASE BeginRound
    BY <1>2, <1>3, <2>1 DEF BeginRound, Exit, Add
  <2>2. CASE BrokenAnswer
    BY <1>2, <1>3, <2>2 DEF BrokenAnswer, Add
  <2>3. CASE AfterCorrection
    <3>1. pc' # "call" /\ ~ok'
      BY <1>2, <2>3 DEF AfterCorrection, Exit
    <3>2. \/ draft' = Append(draft, Message("notice", 0))
          \/ draft' = draft /\ (pc' = "finish" \/ (~cancelled /\ missing < MissingLimit))
      BY <2>3 DEF AfterCorrection, Exit, Add
    <3> QED BY <1>4, <3>1, <3>2
  <2>4. CASE ProgressAllows
    BY <1>2, <1>3, <2>4 DEF ProgressAllows, Add
  <2>5. CASE Recover
    <3>1. pc = "recover" /\ pc' \in {"finish", "round"} /\ ok' \in {FALSE, ok}
      BY <2>5 DEF Recover, Exit
    <3>2. draft' = Append(draft, Message("feedback", 0)) \/ draft' = draft
      BY <2>5 DEF Recover, Add
    <3>3. ~ok
      BY <1>2
    <3>4. ~ok'
      BY <3>1, <3>3, Zenon
    <3>5. pc' # "call" /\ pc # "logged"
      BY <3>1
    <3> QED BY <1>3, <3>2, <3>4, <3>5
  <2> QED BY <2>1, <2>2, <2>3, <2>4, <2>5
<1>7. Tidy(draft') /\ (NoOpenText(draft') \/ pc' = "finish")
  BY <1>2, <1>5, <1>6
<1>8. pc' \in InBatch \cup {"assess", "recover", "close"} => HasCalls(draft')
  BY <1>1, <1>2, <1>6 DEF InBatch
<1> QED BY <1>1, <1>6, <1>7, <1>8, Goes

LEMMA AnswerWithCallsGoes == ASSUME Inv, GapInv, AnswerWithCalls PROVE GapInv'
<1>1. /\ pc = "request" /\ pc \in Early /\ history' = history /\ latest' = latest
      /\ reached' = reached /\ pc' = "call" /\ ok' = ok
  BY DEF AnswerWithCalls, session, Early
<1>2. TypeOK /\ Tidy(draft) /\ ~ok /\ NoOpenText(draft)
  BY <1>1, Going
<1>3. PICK n \in 1 .. MaxCalls : draft' = Append(draft, Message("calls", n))
  BY DEF AnswerWithCalls
<1>4. PICK m \in Messages : m = Message("calls", n) /\ m.kind = "calls"
  <2>1. n \in Nat
    BY BoundsAssumption
  <2> QED BY <1>2, <2>1, Made DEF Kinds
<1>5. Tidy(draft') /\ NoOpenText(draft') /\ HasCalls(draft')
  BY <1>2, <1>3, <1>4, Adding
<1> QED BY <1>1, <1>2, <1>5, Goes

LEMMA AnswerWithoutCallsGoes == ASSUME Inv, GapInv, AnswerWithoutCalls PROVE GapInv'
<1>1. /\ pc = "request" /\ pc \in Early /\ history' = history /\ latest' = latest
      /\ reached' = reached /\ pc' = "logged" /\ ok' = ok /\ cancelled' = cancelled
  BY DEF AnswerWithoutCalls, session, Early
<1>2. TypeOK /\ Tidy(draft) /\ ~ok /\ NoOpenText(draft)
  BY <1>1, Going
<1>3. PICK text \in BOOLEAN :
        draft' = (IF text THEN Add("text") ELSE draft) \o
                 (IF missing' >= MissingLimit \/ cancelled THEN <<>>
                  ELSE <<Message("feedback", 0)>>)
  BY DEF AnswerWithoutCalls
<1>4. PICK d : d = IF text THEN Add("text") ELSE draft
  OBVIOUS
<1>5. Tidy(d)
  <2>1. PICK m \in Messages : m = Message("text", 0) /\ m.kind = "text"
    BY <1>2, Made DEF Kinds
  <2> QED BY <1>2, <1>4, <2>1, Adding DEF Add
<1>6. CASE missing' >= MissingLimit \/ cancelled
  <2>1. draft' = d
    <3>1. d \o <<>> = d
      BY <1>5, ConcatEmptySeq DEF Tidy
    <3> QED BY <1>3, <1>4, <1>6, <3>1
  <2> QED BY <1>1, <1>2, <1>5, <1>6, <2>1, Goes DEF InBatch
<1>7. CASE ~(missing' >= MissingLimit \/ cancelled)
  <2>1. PICK m \in Messages : m = Message("feedback", 0) /\ m.kind = "feedback"
    BY <1>2, Made DEF Kinds
  <2>2. draft' = d \o <<m>>
    BY <1>3, <1>4, <1>7, <2>1
  <2>3. Tidy(draft') /\ NoOpenText(draft')
    BY <1>5, <2>1, <2>2, Adding
  <2> QED BY <1>1, <1>2, <2>3, Goes DEF InBatch
<1> QED BY <1>6, <1>7

LEMMA BatchGoes ==
    ASSUME Inv, GapInv, StopBeforeCall \/ Result \/ AfterCall \/ ProgressStops
    PROVE  GapInv'
<1>1. /\ pc \in Early /\ pc \in InBatch /\ history' = history /\ latest' = latest
      /\ reached' = reached /\ pc \notin {"logged", "close"}
  BY DEF StopBeforeCall, Result, AfterCall, ProgressStops, session, Early, InBatch
<1>2. /\ TypeOK /\ Tidy(draft) /\ ~ok /\ NoOpenText(draft) /\ HasCalls(draft)
      /\ Tidy(Skipped) /\ NoOpenText(Skipped) /\ HasCalls(Skipped)
  BY <1>1, Going, SkippedTidy
<1>3. PICK notice \in Messages : notice = Message("notice", 0) /\ notice.kind = "notice"
  BY <1>2, Made DEF Kinds
<1>4. PICK feedback \in Messages : feedback = Message("feedback", 0) /\ feedback.kind = "feedback"
  BY <1>2, Made DEF Kinds
<1>5. CASE StopBeforeCall
  <2>1. draft' = Skipped /\ pc' = "finish" /\ ~ok'
    BY <1>5 DEF StopBeforeCall, Exit
  <2> QED BY <1>1, <1>2, <2>1, Goes DEF InBatch
<1>6. CASE Result
  <2>1. PICK result \in Outcomes : draft' = Append(draft, Message(Answer(result), next + 1))
    BY <1>6 DEF Result
  <2>2. PICK m \in Messages : /\ m = Message(Answer(result), next + 1)
                              /\ m.kind \notin {"task", "text"}
    <3>1. Answer(result) \in Kinds /\ Answer(result) \notin {"task", "text"} /\ next + 1 \in Nat
      BY <1>2 DEF Answer, Kinds, Answers, TypeOK
    <3> QED BY <1>2, <3>1, Made
  <2>3. Tidy(draft') /\ NoOpenText(draft') /\ HasCalls(draft')
    BY <1>2, <2>1, <2>2, Adding
  <2>4. pc' = "ran" /\ ok' = ok
    BY <1>6 DEF Result
  <2> QED BY <1>1, <1>2, <2>3, <2>4, Goes
<1>7. CASE AfterCall
  <2>1. \/ pc' = "finish" /\ ~ok' /\ draft' \in {draft, Skipped, draft \o <<notice>>, Skipped \o <<notice>>}
        \/ pc' \in {"round", "progress", "assess"} /\ ok' = ok /\ draft' \in {draft, Skipped}
    <3>1. got \in DOMAIN After => After[got] \in {"round", "progress", "assess"}
      BY AfterIs
    <3> QED BY <1>3, <1>7, <3>1 DEF AfterCall, Exit
  <2>2. Tidy(draft \o <<notice>>) /\ Tidy(Skipped \o <<notice>>)
    BY <1>2, <1>3, Adding
  <2>3. Tidy(draft') /\ (pc' # "finish" => NoOpenText(draft') /\ HasCalls(draft'))
    BY <1>2, <2>1, <2>2
  <2> QED BY <1>1, <1>2, <2>1, <2>3, Goes DEF InBatch
<1>8. CASE ProgressStops
  <2>1. PICK warned \in {<<>>, <<feedback>>}, told \in {<<>>, <<notice>>} :
            draft' = Skipped \o warned \o told
    BY <1>3, <1>4, <1>8 DEF ProgressStops
  <2>2. PICK d : d = Skipped \o warned
    OBVIOUS
  <2>3. Tidy(d) /\ NoOpenText(d)
    <3>1. Skipped \o <<>> = Skipped
      BY <1>2, ConcatEmptySeq DEF Tidy
    <3> QED BY <1>2, <1>4, <2>2, <3>1, Adding
  <2>4. Tidy(draft')
    <3>1. d \o <<>> = d
      BY <2>3, ConcatEmptySeq DEF Tidy
    <3> QED BY <1>3, <2>1, <2>2, <2>3, <3>1, Adding
  <2>5. pc' = "finish" /\ ~ok'
    BY <1>8 DEF ProgressStops, Exit
  <2> QED BY <1>1, <2>4, <2>5, Goes DEF InBatch
<1> QED BY <1>5, <1>6, <1>7, <1>8

\* A draft that is closed without success, or that ended with a finish, is a
\* closed block.
LEMMA ToldClosed ==
    ASSUME TypeOK, NEW d, Sound(d), Tidy(d), Closing(d, tasks), NEW success \in BOOLEAN,
           success => NoOpenText(d) /\ HasCalls(d), NEW e, e = Told(success, d)
    PROVE  /\ Sound(e) /\ Tidy(e) /\ Closing(e, tasks) /\ NoOpenText(e) /\ Closed(e)
           /\ HasCalls(d) => HasCalls(e)
<1>1. d \in Seq(Messages) /\ Len(d) \in Nat /\ Len(d) > 0
  BY DEF Tidy, OneTask
<1>2. Notices(d) = {} \/ Notices(d) = {Len(d)}
  BY <1>1 DEF Closing, Notices
<1>3. Sound(e) /\ Closing(e, tasks)
  BY <1>1, ToldSound, ToldCloses
<1>4. CASE success \/ Notices(d) # {}
  <2>1. e = d
    BY <1>4 DEF Told
  <2>2. NoOpenText(d)
    <3>1. Notices(d) # {} => Len(d) \in Notices(d)
      BY <1>2
    <3>2. Notices(d) # {} => d[Len(d)].kind = "notice"
      BY <3>1 DEF Notices
    <3> QED BY <1>4, <3>2 DEF NoOpenText
  <2>3. (Notices(d) = {} /\ HasCalls(d)) \/ Notices(d) = {Len(d)}
    BY <1>2, <1>4
  <2>4. \A i \in 1 .. Len(d) : d[i].kind = "text" =>
            i < Len(d) /\ d[i + 1].kind \in {"feedback", "notice"}
    <3> SUFFICES ASSUME NEW i \in 1 .. Len(d), d[i].kind = "text"
                 PROVE  i < Len(d) /\ d[i + 1].kind \in {"feedback", "notice"}
      OBVIOUS
    <3>1. i # Len(d)
      BY <2>2 DEF NoOpenText
    <3>2. i \in 1 .. Len(d) - 1
      BY <1>1, <3>1
    <3> QED BY <1>1, <3>2 DEF Tidy, TextsAnswered
  <2>5. Closed(d)
    BY <2>3, <2>4 DEF Closed, Sound, HasCalls
  <2> QED BY <1>3, <2>1, <2>2, <2>5
<1>5. CASE ~success /\ Notices(d) = {}
  <2>1. PICK m \in Messages : m = Message("notice", 0) /\ m.kind = "notice"
    BY Made DEF Kinds
  <2>2. e = Append(d, m)
    BY <1>5, <2>1 DEF Told
  <2>3. Tidy(e) /\ NoOpenText(e) /\ (HasCalls(d) => HasCalls(e))
    BY <2>1, <2>2, Adding
  <2>4. e \in Seq(Messages) /\ Len(e) = Len(d) + 1 /\ e[Len(e)] = m /\ \A i \in 1 .. Len(d) : e[i] = d[i]
    BY <1>1, <2>1, <2>2
  <2>5. Notices(e) = {Len(e)}
    <3>1. \A i \in 1 .. Len(d) : d[i].kind # "notice"
      BY <1>5 DEF Notices
    <3>2. \A i \in 1 .. Len(e) : i \in 1 .. Len(d) \/ i = Len(e)
      BY <1>1, <2>4
    <3>3. Len(e) \in 1 .. Len(e)
      BY <1>1, <2>4
    <3> QED BY <2>1, <2>4, <3>1, <3>2, <3>3 DEF Notices
  <2>6. \A i \in 1 .. Len(e) : e[i].kind = "text" =>
            i < Len(e) /\ e[i + 1].kind \in {"feedback", "notice"}
    <3> SUFFICES ASSUME NEW i \in 1 .. Len(e), e[i].kind = "text"
                 PROVE  i < Len(e) /\ e[i + 1].kind \in {"feedback", "notice"}
      OBVIOUS
    <3>1. i # Len(e)
      BY <2>3 DEF NoOpenText
    <3>2. i \in 1 .. Len(e) - 1
      BY <1>1, <2>4, <3>1
    <3> QED BY <1>1, <2>3, <2>4, <3>2 DEF Tidy, TextsAnswered
  <2>7. Closed(e)
    BY <1>3, <2>5, <2>6 DEF Closed, Sound
  <2> QED BY <1>3, <2>3, <2>7
<1> QED BY <1>4, <1>5

\* The blocks of a history that a task is added to: those it had, and the task.
LEMMA BlocksOfConcat ==
    ASSUME NEW h \in Seq(Messages), NEW d \in Seq(Messages), OneTask(d),
           NEW g, g = h \o d, NEW a \in 1 .. Len(g), NEW b \in a .. Len(g), Block(g, a, b)
    PROVE  (b <= Len(h) /\ Block(h, a, b)) \/ (a = Len(h) + 1 /\ b = Len(g))
<1>1. PICK n \in Nat : n = Len(h)
  OBVIOUS
<1>2. PICK k \in Nat : k = Len(d) /\ k > 0
  BY DEF OneTask
<1>3. g \in Seq(Messages) /\ Len(g) = n + k
  BY <1>1, <1>2, ConcatProperties
<1>4. \A i \in 1 .. n : g[i] = h[i]
  BY <1>1, <1>2, ConcatProperties
<1>5. \A i \in n + 1 .. n + k : g[i] = d[i - n]
  BY <1>1, <1>2, ConcatProperties
<1>6. d[1].kind = "task" /\ \A i \in 2 .. k : d[i].kind # "task"
  BY <1>2 DEF OneTask
<1>7. g[n + 1].kind = "task" /\ \A i \in n + 2 .. n + k : g[i].kind # "task"
  <2>1. n + 1 \in n + 1 .. n + k /\ n + 1 - n = 1
    BY <1>2
  <2>2. g[n + 1] = d[1]
    <3>1. PICK i \in n + 1 .. n + k : i = n + 1
      BY <2>1
    <3>2. g[i] = d[i - n]
      BY <1>5
    <3>3. i - n = 1
      BY <3>1
    <3> QED BY <3>1, <3>2, <3>3, Zenon
  <2>3. ASSUME NEW i \in n + 2 .. n + k PROVE g[i].kind # "task"
    <3>1. i \in n + 1 .. n + k /\ i - n \in 2 .. k
      BY <1>2
    <3>2. g[i] = d[i - n]
      BY <1>5, <3>1
    <3> QED BY <1>6, <3>1, <3>2
  <2> QED BY <1>6, <2>2, <2>3
<1>8. /\ a \in 1 .. n + k /\ b \in a .. n + k /\ g[a].kind = "task"
      /\ \A i \in a + 1 .. b : g[i].kind # "task"
      /\ b = n + k \/ g[b + 1].kind = "task"
  BY <1>3 DEF Block
<1>9. CASE a <= n
  <2>1. b <= n
    <3>1. ~(n + 1 \in a + 1 .. b)
      BY <1>7, <1>8
    <3> QED BY <1>8, <1>9, <3>1
  <2>2. /\ h[a].kind = "task" /\ \A i \in a + 1 .. b : h[i].kind # "task"
        /\ b = n \/ h[b + 1].kind = "task"
    <3>1. a \in 1 .. n /\ (\A i \in a + 1 .. b : i \in 1 .. n) /\ (b = n \/ b + 1 \in 1 .. n)
      BY <1>8, <1>9, <2>1
    <3>2. b # n + k
      BY <1>2, <2>1
    <3> QED BY <1>4, <1>8, <3>1, <3>2
  <2> QED BY <1>1, <2>1, <2>2 DEF Block
<1>10. CASE a > n
  <2>1. a = n + 1
    <3>1. ~(a \in n + 2 .. n + k)
      BY <1>7, <1>8
    <3> QED BY <1>8, <1>10, <3>1
  <2>2. b = n + k
    <3>1. b + 1 \in n + 2 .. n + k \/ b = n + k
      <4>1. n \in Nat /\ k \in Nat /\ b \in n + 1 .. n + k
        BY <1>1, <1>2, <1>8, <2>1
      <4> QED BY <4>1
    <3> QED BY <1>7, <1>8, <3>1
  <2> QED BY <1>1, <1>3, <2>1, <2>2
<1> QED BY <1>1, <1>8, <1>9, <1>10

\* A history without a gap is continuous for a watermark that covers all but its
\* last block.
LEMMA GaplessContinuous ==
    ASSUME NEW g \in Seq(Messages), g # <<>>, Gapless(g), NEW covered \in Nat,
           \A a \in 1 .. Len(g) : \A b \in a .. Len(g) :
               Block(g, a, b) => b = Len(g) \/ b <= covered,
           NEW t, t = g[Len(g)].task
    PROVE  Continuous(g, covered, t)
<1> SUFFICES ASSUME NEW a \in 1 .. Len(g), NEW b \in a .. Len(g), Block(g, a, b)
             PROVE  /\ Closed(SubSeq(g, a, b))
                    /\ b = Len(g) => g[a].task = t
                    /\ a <= covered /\ covered < b => b = Len(g) /\ g[a].task = t
  BY DEF Continuous, Gapless
<1>1. Closed(SubSeq(g, a, b)) /\ \A i \in a .. b : g[i].task = g[a].task
  BY DEF Gapless
<1>2. b = Len(g) => g[a].task = t
  BY <1>1
<1>3. covered < b => b = Len(g)
  <2>1. b = Len(g) \/ b <= covered
    OBVIOUS
  <2>2. b \in Nat
    OBVIOUS
  <2> QED BY <2>1, <2>2
<1> QED BY <1>1, <1>2, <1>3

\* A closed block of one task can be added.
LEMMA GaplessConcat ==
    ASSUME NEW h \in Seq(Messages), Gapless(h), NEW d \in Seq(Messages), OneTask(d), Closed(d),
           NEW t, \A i \in 1 .. Len(d) : d[i].task = t, NEW g, g = h \o d
    PROVE  /\ g \in Seq(Messages) /\ Gapless(g) /\ Len(g) = Len(h) + Len(d)
           /\ \A covered \in Nat : covered >= Len(h) => Continuous(g, covered, t)
<1>1. PICK n \in Nat : n = Len(h)
  OBVIOUS
<1>2. PICK k \in Nat : k = Len(d) /\ k > 0
  BY DEF OneTask
<1>3. /\ g \in Seq(Messages) /\ Len(g) = n + k
      /\ \A i \in 1 .. n + k : g[i] = IF i <= n THEN h[i] ELSE d[i - n]
  BY <1>1, <1>2, ConcatProperties
<1>4. \A i \in 1 .. n : g[i] = h[i]
  BY <1>3
<1>5. \A i \in n + 1 .. n + k : g[i] = d[i - n] /\ i - n \in 1 .. k
  BY <1>3
<1>6. g # <<>> /\ g[1].kind = "task"
  <2>1. g # <<>>
    BY <1>2, <1>3
  <2>2. CASE h = <<>>
    <3>1. g[1] = d[1]
      BY <1>1, <1>2, <1>5, <2>2
    <3> QED BY <2>1, <3>1 DEF OneTask
  <2>3. CASE h # <<>>
    <3>1. 1 \in 1 .. n
      BY <1>1, <2>3
    <3> QED BY <1>4, <2>1, <2>3, <3>1 DEF Gapless
  <2> QED BY <2>2, <2>3
<1>7. ASSUME NEW a \in 1 .. Len(g), NEW b \in a .. Len(g), Block(g, a, b)
      PROVE  /\ Closed(SubSeq(g, a, b)) /\ \A i \in a .. b : g[i].task = g[a].task
             /\ b = Len(g) \/ b <= n
  <2>1. CASE b <= n /\ Block(h, a, b)
    <3>1. a \in 1 .. Len(h) /\ b \in a .. Len(h) /\ b \in 1 .. Len(h) /\ \A i \in a .. b : i \in 1 .. n
      BY <1>1, <1>3, <2>1
    <3>2. SubSeq(g, a, b) = SubSeq(h, a, b)
      BY <3>1, SubSeqOfConcat1
    <3>3. Closed(SubSeq(h, a, b)) /\ \A i \in a .. b : h[i].task = h[a].task
      BY <2>1, <3>1 DEF Gapless
    <3> QED BY <1>1, <1>4, <2>1, <3>1, <3>2, <3>3
  <2>2. CASE a = n + 1 /\ b = Len(g)
    <3>1. SubSeq(g, a, b) = d
      <4>1. a \in Len(h) + 1 .. Len(h) + Len(d) /\ b \in Len(h) + 1 .. Len(h) + Len(d)
        BY <1>1, <1>2, <1>3, <2>2
      <4>2. a - Len(h) = 1 /\ b - Len(h) = Len(d)
        BY <1>1, <1>2, <1>3, <2>2
      <4>3. SubSeq(g, a, b) = SubSeq(d, a - Len(h), b - Len(h))
        BY <4>1, SubSeqOfConcat2
      <4> QED BY <4>2, <4>3, SubSeqFull
    <3>2. \A i \in a .. b : i \in n + 1 .. n + k
      BY <1>3, <2>2
    <3>3. \A i \in a .. b : g[i].task = t
      BY <1>2, <1>5, <3>2
    <3>4. a \in a .. b
      BY <1>2, <1>3, <2>2
    <3> QED BY <2>2, <3>1, <3>3, <3>4
  <2> QED BY <1>1, <1>7, <2>1, <2>2, BlocksOfConcat
<1>8. Gapless(g)
  BY <1>6, <1>7 DEF Gapless
<1>9. t = g[Len(g)].task
  <2>1. Len(g) \in n + 1 .. n + k
    BY <1>2, <1>3
  <2> QED BY <1>2, <1>5, <2>1
<1>10. ASSUME NEW covered \in Nat, covered >= Len(h) PROVE Continuous(g, covered, t)
  <2>1. \A a \in 1 .. Len(g) : \A b \in a .. Len(g) :
            Block(g, a, b) => b = Len(g) \/ b <= covered
    <3> SUFFICES ASSUME NEW a \in 1 .. Len(g), NEW b \in a .. Len(g), Block(g, a, b)
                 PROVE  b = Len(g) \/ b <= covered
      OBVIOUS
    <3>1. b = Len(g) \/ b <= n
      BY <1>7
    <3> QED BY <1>1, <1>10, <3>1
  <2> QED BY <1>3, <1>6, <1>8, <1>9, <2>1, GaplessContinuous
<1> QED BY <1>1, <1>2, <1>3, <1>8, <1>10

\* What the end of a task needs of its draft.
LEMMA DraftFacts ==
    ASSUME Inv, TellInv, GapInv, pc \in {"close", "review", "finish"}
    PROVE  /\ TypeOK /\ Sound(draft) /\ Tidy(draft) /\ Closing(draft, tasks)
           /\ ok \in BOOLEAN /\ (ok => NoOpenText(draft) /\ HasCalls(draft))
           /\ history \in Seq(Messages) /\ Gapless(history) /\ latest = Len(history)
           /\ reached \in Nat /\ reached >= Len(history)
<1>1. TypeOK /\ Sound(draft)
  BY DEF Inv, Settled, InBatch
<1>2. Tidy(draft) /\ (ok => NoOpenText(draft) /\ HasCalls(draft))
  BY DEF GapInv, Closable
<1>3. Closing(draft, tasks)
  BY QuietCloses DEF TellInv, DraftTold, Early
<1>4. history \in Seq(Messages) /\ draft \in Seq(Messages) /\ reached \in Nat /\ ok \in BOOLEAN
  BY <1>1 DEF TypeOK
<1>5. Gapless(history) /\ latest = Len(history)
  BY DEF GapInv
<1>6. reached >= Len(history)
  <2>1. reached = Len(history) \/ reached = Len(history) + Len(draft)
    BY DEF GapInv, Reached
  <2>2. Len(history) \in Nat /\ Len(draft) \in Nat
    BY <1>4
  <2> QED BY <2>1, <2>2
<1> QED BY <1>1, <1>2, <1>3, <1>4, <1>5, <1>6

LEMMA CloseTaskGoes == ASSUME Inv, TellInv, GapInv, CloseTask PROVE GapInv'
<1>1. pc = "close" /\ pc' = "review" /\ history' = history /\ latest' = latest
  BY DEF CloseTask, session
<1>2. /\ TypeOK /\ Sound(draft) /\ Tidy(draft) /\ Closing(draft, tasks) /\ NoOpenText(draft)
      /\ ok \in BOOLEAN /\ HasCalls(draft)
      /\ history \in Seq(Messages) /\ Gapless(history) /\ latest = Len(history)
      /\ reached \in Nat /\ reached >= Len(history)
  BY <1>1, DraftFacts DEF GapInv, Closable, InBatch
<1>3. PICK first : first = Told(ok, draft)
  OBVIOUS
<1>4. Sound(first) /\ Tidy(first) /\ Closing(first, tasks) /\ NoOpenText(first) /\ HasCalls(first)
      /\ Closed(first)
  BY <1>2, <1>3, ToldClosed
<1>5. ok' = (ok /\ Continuous(history \o first, reached, tasks))
  BY <1>3 DEF CloseTask
<1>6. ok' = ok
  <2>1. first \in Seq(Messages) /\ OneTask(first) /\ \A i \in 1 .. Len(first) : first[i].task = tasks
    BY <1>4 DEF Tidy, Closing
  <2>2. Continuous(history \o first, reached, tasks)
    BY <1>2, <1>4, <2>1, GaplessConcat
  <2> QED BY <1>2, <1>5, <2>2
<1>7. PICK e : e = draft'
  OBVIOUS
<1>8. e = Told(ok, first)
  BY <1>3, <1>6, <1>7 DEF CloseTask
<1>9. Tidy(e) /\ Closing(e, tasks) /\ NoOpenText(e) /\ HasCalls(e) /\ Closed(e)
  BY <1>2, <1>4, <1>8, ToldClosed
<1>10. reached' = Len(history') + Len(draft')
  <2>1. e \in Seq(Messages) /\ OneTask(e) /\ \A i \in 1 .. Len(e) : e[i].task = tasks
    BY <1>9 DEF Tidy, Closing
  <2>2. Continuous(history \o e, reached, tasks) /\ Len(history \o e) = Len(history) + Len(e)
    BY <1>2, <1>9, <2>1, GaplessConcat
  <2>3. reached' = IF Continuous(history \o e, reached, tasks) THEN Len(history \o e) ELSE reached
    BY <1>7 DEF CloseTask
  <2> QED BY <1>1, <1>7, <2>2, <2>3
<1>11. Closable'
  BY <1>1, <1>7, <1>9 DEF Closable, InBatch
<1>12. Reached' /\ latest' = Len(history') /\ Gapless(history')
  BY <1>1, <1>2, <1>10 DEF Reached
<1> QED BY <1>11, <1>12 DEF GapInv

LEMMA ReviewGoes == ASSUME Inv, TellInv, GapInv, Review PROVE GapInv'
<1>1. /\ pc = "review" /\ pc' = "finish" /\ history' = history /\ latest' = latest
      /\ draft' = draft /\ reached' = reached /\ ok' \in {FALSE, ok}
  BY DEF Review, Exit, session
<1>2. Tidy(draft) /\ (ok => HasCalls(draft)) /\ NoOpenText(draft)
  BY <1>1 DEF GapInv, Closable
<1>3. Closable'
  <2>1. Tidy(draft') /\ NoOpenText(draft')
    BY <1>1, <1>2
  <2>2. ok' => HasCalls(draft')
    <3>1. ok' => ok
      BY <1>1, Zenon
    <3> QED BY <1>1, <1>2, <3>1
  <2> QED BY <1>1, <2>1, <2>2 DEF Closable, InBatch
<1>4. Reached' /\ latest' = Len(history') /\ Gapless(history')
  BY <1>1 DEF GapInv, Reached
<1> QED BY <1>3, <1>4 DEF GapInv

LEMMA FinishGoes == ASSUME Inv, TellInv, GapInv, Finish PROVE GapInv'
<1>1. pc = "finish" /\ pc' = "returned"
  BY DEF Finish
<1>2. /\ TypeOK /\ Sound(draft) /\ Tidy(draft) /\ Closing(draft, tasks)
      /\ ok \in BOOLEAN /\ (ok => NoOpenText(draft) /\ HasCalls(draft))
      /\ history \in Seq(Messages) /\ Gapless(history) /\ latest = Len(history)
      /\ reached \in Nat /\ reached >= Len(history)
  BY <1>1, DraftFacts
<1>3. PICK told : told = Told(ok, draft)
  OBVIOUS
<1>4. Tidy(told) /\ Closing(told, tasks) /\ Closed(told)
  BY <1>2, <1>3, ToldClosed
<1>5. told \in Seq(Messages) /\ OneTask(told) /\ \A i \in 1 .. Len(told) : told[i].task = tasks
  BY <1>4 DEF Tidy, Closing
<1>6. PICK all : all = history \o told
  OBVIOUS
<1>7. Gapless(all) /\ Continuous(all, reached, tasks)
  BY <1>2, <1>4, <1>5, <1>6, GaplessConcat
<1>8. history' = all /\ latest' = Len(all)
  BY <1>3, <1>6, <1>7 DEF Finish
<1>9. Closable' /\ Reached'
  BY <1>1 DEF Closable, Reached, InBatch
<1> QED BY <1>7, <1>8, <1>9 DEF GapInv

LEMMA StartGoes == ASSUME Inv, GapInv, Start PROVE GapInv'
<1>1. pc = "idle" /\ history' = history /\ latest' = latest /\ ok' = ok /\ tasks \in Nat
  BY BoundsAssumption DEF Start, Inv, TypeOK
<1>2. ~ok' /\ latest' = Len(history') /\ Gapless(history')
  BY <1>1 DEF GapInv, Closable
<1>3. CASE pc' = "returned"
  <2>1. Closable' /\ Reached'
    BY <1>2, <1>3 DEF Closable, Reached, InBatch
  <2> QED BY <1>2, <2>1 DEF GapInv
<1>4. CASE pc' # "returned"
  <2>1. /\ pc' = "prepare" /\ reached' = latest
        /\ draft' = <<[Message("task", 0) EXCEPT !.task = tasks + 1]>>
    BY <1>4 DEF Start
  <2>2. PICK m : m = [kind |-> "task", n |-> 0, task |-> tasks + 1]
    OBVIOUS
  <2>3. m \in Messages /\ m.kind = "task"
    BY <1>1, <2>2 DEF Messages, Kinds
  <2>4. PICK d : d = draft'
    OBVIOUS
  <2>5. d = <<m>>
    BY <2>1, <2>2, <2>4 DEF Message
  <2>6. d \in Seq(Messages) /\ Len(d) = 1 /\ d[1] = m /\ d # <<>>
    BY <2>3, <2>5
  <2>7. Tidy(d) /\ NoOpenText(d)
    BY <2>3, <2>6 DEF Tidy, TextsAnswered, OneTask, NoOpenText
  <2>8. Closable'
    BY <1>2, <2>1, <2>4, <2>7 DEF Closable, InBatch
  <2>9. Reached'
    BY <1>1, <1>2, <2>1 DEF Reached
  <2> QED BY <1>2, <2>8, <2>9 DEF GapInv
<1> QED BY <1>3, <1>4

LEMMA OverGoes ==
    ASSUME Inv, GapInv, Reset, history' = history, latest' = latest
    PROVE  GapInv'
<1>1. Closable' /\ Reached'
  BY DEF Closable, Reached, Reset, InBatch
<1>2. latest' = Len(history') /\ Gapless(history')
  BY DEF GapInv
<1> QED BY <1>1, <1>2 DEF GapInv

\* A closed block that has no notice yet stays closed when it gets one.
LEMMA ClosedAppend ==
    ASSUME NEW c \in Seq(Messages), c # <<>>, Closed(c), Notices(c) = {},
           NEW m \in Messages, m.kind = "notice"
    PROVE  Closed(Append(c, m))
<1>1. PICK e : e = Append(c, m)
  OBVIOUS
<1>2. PICK l \in Nat : l = Len(c) /\ l > 0
  OBVIOUS
<1>3. e \in Seq(Messages) /\ Len(e) = l + 1 /\ e[l + 1] = m /\ \A i \in 1 .. l : e[i] = c[i]
  BY <1>1, <1>2
<1>4. Paired(e)
  BY <1>1, AppendPaired DEF Closed, Answers
<1>5. \A i \in 1 .. Len(e) : i \in 1 .. l \/ i = l + 1
  BY <1>2, <1>3
<1>6. e[1].kind = "task"
  <2>1. 1 \in 1 .. l
    BY <1>2
  <2> QED BY <1>3, <2>1 DEF Closed
<1>7. Notices(e) = {l + 1}
  <2>1. \A i \in 1 .. l : c[i].kind # "notice"
    BY <1>2 DEF Notices
  <2>2. l + 1 \in 1 .. Len(e)
    BY <1>2, <1>3
  <2> QED BY <1>3, <1>5, <2>1, <2>2 DEF Notices
<1>8. ASSUME NEW i \in 1 .. Len(e), e[i].kind = "text"
      PROVE  i < Len(e) /\ e[i + 1].kind \in {"feedback", "notice"}
  <2>1. i \in 1 .. l
    BY <1>3, <1>5, <1>8
  <2>2. i < l /\ c[i + 1].kind \in {"feedback", "notice"}
    BY <1>2, <1>3, <1>8, <2>1 DEF Closed
  <2>3. i + 1 \in 1 .. l
    BY <1>2, <2>1, <2>2
  <2> QED BY <1>2, <1>3, <2>1, <2>2, <2>3
<1>9. Closed(e)
  BY <1>3, <1>4, <1>6, <1>7, <1>8 DEF Closed
<1> QED BY <1>1, <1>9

\* The blocks of a history that a notice is added to.
LEMMA BlocksOfAppend ==
    ASSUME NEW h \in Seq(Messages), NEW m \in Messages, m.kind # "task",
           NEW g, g = Append(h, m), NEW a \in 1 .. Len(g), NEW b \in a .. Len(g), Block(g, a, b)
    PROVE  \/ b < Len(h) /\ Block(h, a, b)
           \/ b = Len(h) + 1 /\ a \in 1 .. Len(h) /\ Block(h, a, Len(h))
<1>1. PICK n \in Nat : n = Len(h)
  OBVIOUS
<1>2. Len(g) = n + 1 /\ g[n + 1] = m /\ \A i \in 1 .. n : g[i] = h[i]
  BY <1>1
<1>3. /\ a \in 1 .. n + 1 /\ b \in a .. n + 1 /\ g[a].kind = "task"
      /\ \A i \in a + 1 .. b : g[i].kind # "task"
      /\ b = n + 1 \/ g[b + 1].kind = "task"
  BY <1>2 DEF Block
<1>4. a \in 1 .. n
  <2>1. a # n + 1
    BY <1>2, <1>3
  <2> QED BY <1>1, <1>3, <2>1
<1>5. CASE b = n + 1
  <2>1. \A i \in a + 1 .. n : i \in a + 1 .. b /\ i \in 1 .. n
    BY <1>4, <1>5
  <2>2. h[a].kind = "task" /\ \A i \in a + 1 .. n : h[i].kind # "task"
    BY <1>2, <1>3, <1>4, <2>1
  <2> QED BY <1>1, <1>4, <1>5, <2>2 DEF Block
<1>6. CASE b # n + 1
  <2>1. b < n
    <3>1. b # n
      BY <1>2, <1>3, <1>6
    <3>2. b \in 1 .. n + 1
      BY <1>3
    <3> QED BY <1>6, <3>1, <3>2
  <2>2. b + 1 \in 1 .. n /\ \A i \in a + 1 .. b : i \in 1 .. n
    BY <1>3, <1>4, <2>1
  <2>3. h[a].kind = "task" /\ \A i \in a + 1 .. b : h[i].kind # "task"
    BY <1>2, <1>3, <1>4, <2>2
  <2>4. h[b + 1].kind = "task"
    <3>1. g[b + 1] = h[b + 1]
      BY <1>2, <2>2
    <3> QED BY <1>3, <1>6, <3>1
  <2> QED BY <1>1, <2>1, <2>3, <2>4 DEF Block
<1> QED BY <1>5, <1>6

\* A notice for the last task of a history that has none is added without a gap.
LEMMA GaplessAppend ==
    ASSUME NEW h \in Seq(Messages), h # <<>>, Gapless(h),
           NEW m \in Messages, m.kind = "notice", m.task = h[Len(h)].task,
           \A i \in 1 .. Len(h) : h[i].kind = "notice" => h[i].task # h[Len(h)].task,
           NEW g, g = Append(h, m)
    PROVE  Gapless(g) /\ Continuous(g, Len(h), m.task)
<1>1. PICK n \in Nat : n = Len(h) /\ n > 0
  OBVIOUS
<1>2. /\ g \in Seq(Messages) /\ Len(g) = n + 1 /\ g[n + 1] = m /\ g # <<>>
      /\ \A i \in 1 .. n : g[i] = h[i]
  BY <1>1
<1>3. g[1].kind = "task"
  <2>1. 1 \in 1 .. n
    BY <1>1
  <2> QED BY <1>1, <1>2, <2>1 DEF Gapless
<1>4. g = h \o <<m>> /\ <<m>> \in Seq(Messages)
  BY AppendIsConcat
<1>5. ASSUME NEW a \in 1 .. Len(g), NEW b \in a .. Len(g), Block(g, a, b)
      PROVE  /\ Closed(SubSeq(g, a, b)) /\ \A i \in a .. b : g[i].task = g[a].task
             /\ b = Len(g) \/ b <= n
  <2>1. CASE b < n /\ Block(h, a, b)
    <3>1. a \in 1 .. Len(h) /\ b \in a .. Len(h) /\ b \in 1 .. Len(h) /\ \A i \in a .. b : i \in 1 .. n
      BY <1>1, <1>2, <2>1
    <3>2. SubSeq(g, a, b) = SubSeq(h, a, b)
      BY <1>4, <3>1, SubSeqOfConcat1
    <3>3. Closed(SubSeq(h, a, b)) /\ \A i \in a .. b : h[i].task = h[a].task
      BY <2>1, <3>1 DEF Gapless
    <3> QED BY <1>1, <1>2, <2>1, <3>1, <3>2, <3>3
  <2>2. CASE b = n + 1 /\ a \in 1 .. n /\ Block(h, a, n)
    <3>1. n \in a .. Len(h) /\ n \in 1 .. Len(h) /\ a \in 1 .. Len(h) /\ n \in a .. n
      BY <1>1, <2>2
    <3>2. Closed(SubSeq(h, a, n)) /\ \A i \in a .. n : h[i].task = h[a].task
      BY <2>2, <3>1 DEF Gapless
    <3>3. PICK c : c = SubSeq(h, a, n)
      OBVIOUS
    <3>4. /\ c \in Seq(Messages) /\ Len(c) = n - a + 1
          /\ \A i \in 1 .. n - a + 1 : c[i] = h[a + i - 1]
      <4>1. a \in Int /\ n \in Int /\ a <= n /\ \A i \in a .. n : i \in 1 .. Len(h)
        BY <1>1, <2>2
      <4>2. \A i \in a .. n : h[i] \in Messages
        BY <4>1
      <4> QED BY <3>3, <4>1, <4>2, SubSeqProperties
    <3>5. c # <<>>
      BY <2>2, <3>4
    <3>6. Notices(c) = {}
      <4> SUFFICES ASSUME NEW i \in 1 .. n - a + 1, c[i].kind = "notice" PROVE FALSE
        BY <3>4 DEF Notices
      <4>1. a + i - 1 \in a .. n /\ a + i - 1 \in 1 .. Len(h)
        BY <1>1, <2>2
      <4>2. h[a + i - 1].kind = "notice"
        BY <3>4
      <4>3. h[a + i - 1].task = h[n].task
        BY <3>1, <3>2, <4>1
      <4> QED BY <1>1, <4>1, <4>2, <4>3
    <3>7. SubSeq(g, a, b) = Append(c, m)
      <4>1. b \in a .. Len(g) /\ b - 1 = n
        BY <1>2, <2>2
      <4>2. SubSeq(g, a, b) = SubSeq(g, a, b - 1) \o <<g[b]>>
        BY <1>2, <4>1, SubSeqRecursiveSecond
      <4>3. SubSeq(g, a, n) = SubSeq(h, a, n)
        BY <1>4, <3>1, SubSeqOfConcat1
      <4>4. SubSeq(g, a, b) = c \o <<m>>
        BY <1>2, <2>2, <3>3, <4>1, <4>2, <4>3
      <4> QED BY <3>4, <4>4, AppendIsConcat
    <3>8. Closed(SubSeq(g, a, b))
      BY <3>2, <3>3, <3>4, <3>5, <3>6, <3>7, ClosedAppend
    <3>9. \A i \in a .. b : g[i].task = g[a].task
      <4>1. \A i \in a .. n : i \in 1 .. n
        BY <2>2
      <4>2. \A i \in a .. n : g[i].task = h[a].task
        BY <1>2, <3>2, <4>1
      <4>3. g[n + 1].task = h[a].task
        BY <1>1, <1>2, <3>1, <3>2
      <4>4. \A i \in a .. b : i \in a .. n \/ i = n + 1
        BY <2>2
      <4>5. g[a].task = h[a].task
        BY <1>2, <2>2
      <4> QED BY <4>2, <4>3, <4>4, <4>5
    <3> QED BY <1>2, <2>2, <3>8, <3>9
  <2>3. m.kind # "task"
    OBVIOUS
  <2>4. \/ b < n /\ Block(h, a, b)
        \/ b = n + 1 /\ a \in 1 .. n /\ Block(h, a, n)
    BY <1>1, <1>5, <2>3, BlocksOfAppend
  <2> QED BY <2>1, <2>2, <2>4
<1>6. Gapless(g)
  BY <1>3, <1>5 DEF Gapless
<1>7. \A a \in 1 .. Len(g) : \A b \in a .. Len(g) : Block(g, a, b) => b = Len(g) \/ b <= Len(h)
  BY <1>1, <1>5
<1>8. m.task = g[Len(g)].task /\ Len(h) \in Nat
  BY <1>1, <1>2
<1> QED BY <1>2, <1>6, <1>7, <1>8, GaplessContinuous

\* A history without a gap is covered by a watermark at its end.
LEMMA WholeContinuous ==
    ASSUME NEW h \in Seq(Messages), h # <<>>, Gapless(h)
    PROVE  Continuous(h, Len(h), h[Len(h)].task)
<1>1. Len(h) \in Nat
  OBVIOUS
<1>2. \A a \in 1 .. Len(h) : \A b \in a .. Len(h) : Block(h, a, b) => b = Len(h) \/ b <= Len(h)
  OBVIOUS
<1>3. PICK t : t = h[Len(h)].task
  OBVIOUS
<1> QED BY <1>1, <1>2, <1>3, GaplessContinuous

LEMMA RejectGoes == ASSUME Inv, TellInv, GapInv, Reject PROVE GapInv'
<1>1. Reset /\ history \in Seq(Messages) /\ Gapless(history) /\ latest = Len(history)
  BY DEF Reject, Inv, TypeOK, GapInv
<1>2. Closable' /\ Reached'
  BY <1>1 DEF Closable, Reached, Reset, InBatch
<1>3. CASE history = <<>>
  <2>1. history' = history /\ latest' = latest
    BY <1>3 DEF Reject
  <2> QED BY <1>1, <2>1, OverGoes
<1>4. CASE history # <<>>
  <2>1. PICK n \in Nat : n = Len(history) /\ n > 0
    BY <1>1, <1>4
  <2>2. PICK last : last = history[n].task
    OBVIOUS
  <2>3. last \in Nat
    <3>1. n \in 1 .. Len(history)
      BY <2>1
    <3>2. history[n] \in Messages
      BY <1>1, <3>1
    <3> QED BY <2>2, <3>2 DEF Messages
  <2>4. CloseFailure(history)
    BY <1>4 DEF Reject
  <2>5. CASE \E i \in Notices(history) : history[i].task = last
    <3>1. history' = history /\ latest' = latest
      <4>1. history' = history
        BY <2>1, <2>2, <2>4, <2>5 DEF CloseFailure
      <4>2. latest' \in {Len(history'), latest}
        BY <2>4 DEF CloseFailure
      <4> QED BY <1>1, <4>1, <4>2
    <3> QED BY <1>1, <3>1, OverGoes
  <2>6. CASE ~ \E i \in Notices(history) : history[i].task = last
    <3>1. PICK m : m = [kind |-> "notice", n |-> 0, task |-> last]
      OBVIOUS
    <3>2. m \in Messages /\ m.kind = "notice" /\ m.task = last
      BY <2>3, <3>1 DEF Messages, Kinds
    <3>3. PICK told : told = Append(history, m)
      OBVIOUS
    <3>4. history' = told /\ latest' = IF Continuous(told, latest, last) THEN Len(told) ELSE latest
      BY <2>1, <2>2, <2>4, <2>6, <3>1, <3>3 DEF CloseFailure
    <3>5. \A i \in 1 .. Len(history) : history[i].kind = "notice" => history[i].task # last
      BY <2>6 DEF Notices
    <3>6. Gapless(told) /\ Continuous(told, Len(history), m.task)
      BY <1>1, <1>4, <2>1, <2>2, <3>2, <3>3, <3>5, GaplessAppend
    <3>7. latest' = Len(history') /\ Gapless(history')
      BY <1>1, <3>2, <3>4, <3>6
    <3> QED BY <1>2, <3>7 DEF GapInv
  <2> QED BY <2>5, <2>6
<1> QED BY <1>3, <1>4

LEMMA ClearGoes == ASSUME Inv, GapInv, Clear PROVE GapInv'
<1>1. /\ pc = "idle" /\ pc' = "idle" /\ Len(history') = 0 /\ history' = <<>> /\ latest' = 0
      /\ ok' = ok
  BY DEF Clear
<1>2. Closable' /\ Reached'
  BY <1>1 DEF GapInv, Closable, Reached, InBatch
<1>3. latest' = Len(history') /\ Gapless(history')
  BY <1>1 DEF Gapless
<1> QED BY <1>2, <1>3 DEF GapInv

LEMMA EndGoes == ASSUME Inv, TellInv, GapInv, Deliver \/ Raise \/ Break \/ Reject PROVE GapInv'
<1>1. CASE Deliver \/ Raise \/ Break
  <2>1. Reset /\ history' = history /\ latest' = latest
    BY <1>1 DEF Deliver, Raise, Break
  <2> QED BY <2>1, OverGoes
<1> QED BY <1>1, RejectGoes

LEMMA GapStep == Inv /\ TellInv /\ GapInv /\ [Next]_vars => GapInv'
<1> SUFFICES ASSUME Inv, TellInv, GapInv, [Next]_vars PROVE GapInv'
  OBVIOUS
<1>1. CASE Advance
  BY <1>1, SameDraftGoes, AddingGoes, AnswerWithCallsGoes, AnswerWithoutCallsGoes, BatchGoes,
     CloseTaskGoes, ReviewGoes, FinishGoes, EndGoes DEF Advance
<1>2. CASE Cancel \/ UNCHANGED vars
  <2>1. /\ history' = history /\ latest' = latest /\ pc' = pc /\ draft' = draft
        /\ reached' = reached /\ missing' = missing /\ ok' = ok
        /\ cancelled' = cancelled \/ cancelled' = TRUE
    BY <1>2 DEF Cancel, vars, session, counters
  <2>2. Closable'
    BY <2>1 DEF GapInv, Closable
  <2>3. Reached' /\ latest' = Len(history') /\ Gapless(history')
    BY <2>1 DEF GapInv, Reached
  <2> QED BY <2>2, <2>3 DEF GapInv
<1> QED BY <1>1, <1>2, StartGoes, EndGoes, ClearGoes DEF Next

LEMMA GapInit == Init => GapInv
<1> SUFFICES ASSUME Init PROVE GapInv
  OBVIOUS
<1>1. Len(history) = 0 /\ history = <<>> /\ latest = 0 /\ pc = "idle" /\ ok = FALSE
  BY DEF Init
<1> QED BY <1>1 DEF GapInv, Closable, Reached, Gapless, InBatch

\* Between tasks the history is closed blocks, each of one task, and the
\* watermark covers them all: memory is never held up by a gap, whichever way
\* out a task took (context/manager.py closed_task_boundary).
THEOREM HistoryStaysClosed == Spec => []HistoryClosed
<1>1. Inv /\ GapInv => HistoryClosed
  <2> SUFFICES ASSUME Inv, GapInv, history # <<>>
               PROVE  latest = Len(history)
                      /\ Continuous(history, latest, history[Len(history)].task)
    BY DEF HistoryClosed
  <2>1. history \in Seq(Messages) /\ Gapless(history) /\ latest = Len(history)
    BY DEF Inv, TypeOK, GapInv
  <2> QED BY <2>1, WholeContinuous
<1>2. Spec => [](Inv /\ TellInv /\ GapInv)
  BY Initial, Inductive, TellInit, TellStep, GapInit, GapStep, PTL DEF Spec
<1> QED BY <1>1, <1>2, PTL

-----------------------------------------------------------------------------
(* Positions *)

\* A set of numbers that is not empty has a least member.
LEMMA Least ==
    ASSUME NEW S \in SUBSET Nat, S # {}
    PROVE  \E m \in S : \A i \in S : m <= i
<1>1. \E m \in S : \A i \in S : ~(<<i, m>> \in OpToRel(<, Nat))
  BY NatLessThanWellFounded, WFMin
<1>2. PICK m \in S : \A i \in S : ~(<<i, m>> \in OpToRel(<, Nat))
  BY <1>1
<1>3. ASSUME NEW i \in S PROVE m <= i
  <2>1. ~(<<i, m>> \in OpToRel(<, Nat))
    BY <1>2
  <2>2. i \in Nat /\ m \in Nat
    OBVIOUS
  <2>3. ~(i < m)
    BY <2>1, <2>2 DEF OpToRel
  <2> QED BY <2>2, <2>3
<1> QED BY <1>3

\* A member of F before i is followed by a last one before i.
LEMMA LastBefore ==
    ASSUME NEW F \in SUBSET Nat, NEW i \in Nat, NEW j \in F, j < i
    PROVE  \E m \in F : j <= m /\ m < i /\ \A k \in F : k <= m \/ i <= k
<1> DEFINE D == {d \in Nat : \E f \in F : f < i /\ f + d = i}
<1>1. D \in SUBSET Nat /\ D # {}
  <2>1. i - j \in Nat /\ j + (i - j) = i
    OBVIOUS
  <2> QED BY <2>1
<1>2. PICK d \in D : \A e \in D : d <= e
  BY <1>1, Least
<1>3. PICK m \in F : m < i /\ m + d = i
  BY <1>2
<1>4. ASSUME NEW k \in F PROVE k <= m \/ i <= k
  <2> SUFFICES ASSUME k < i PROVE k <= m
    OBVIOUS
  <2>1. i - k \in Nat /\ k + (i - k) = i
    OBVIOUS
  <2>2. i - k \in D
    BY <2>1
  <2>3. d <= i - k
    BY <1>2, <2>2
  <2> QED BY <1>2, <1>3, <2>3
<1>5. j <= m
  BY <1>4
<1> QED BY <1>3, <1>4, <1>5

\* Three or four members in their order, and back.
LEMMA Ascending ==
    ASSUME NEW S \in SUBSET Nat, IsFiniteSet(S)
    PROVE  /\ Cardinality(S) >= 3 => \E i, j, k \in S : i < j /\ j < k
           /\ Cardinality(S) >= 4 => \E h, i, j, k \in S : h < i /\ i < j /\ j < k
<1>1. Cardinality(S) \in Nat
  BY FS_CardinalityType
<1>2. ASSUME NEW T \in SUBSET S, NEW n \in Nat, Cardinality(T) >= n + 1
      PROVE  \E m \in T : LET U == T \ {m} IN
                /\ U \in SUBSET S /\ Cardinality(U) >= n /\ \A i \in U : m < i
  <2>1. IsFiniteSet(T) /\ Cardinality(T) \in Nat
    BY FS_Subset, FS_CardinalityType
  <2>2. T # {}
    BY <1>2, <2>1, FS_EmptySet
  <2>3. PICK m \in T : \A i \in T : m <= i
    BY <2>2, Least
  <2>4. Cardinality(T \ {m}) = Cardinality(T) - 1
    BY <2>1, <2>3, FS_RemoveElement
  <2>5. \A i \in T \ {m} : m < i
    BY <2>3
  <2>6. (T \ {m}) \in SUBSET S
    OBVIOUS
  <2>7. Cardinality(T \ {m}) >= n
    BY <1>2, <2>1, <2>4
  <2> QED BY <2>5, <2>6, <2>7
<1>3. ASSUME NEW T \in SUBSET S, Cardinality(T) >= 3
      PROVE  \E i, j, k \in T : i < j /\ j < k
  <2>1. PICK i \in T : LET U == T \ {i} IN
                U \in SUBSET S /\ Cardinality(U) >= 2 /\ \A x \in U : i < x
    BY <1>2, <1>3
  <2>2. PICK j \in T \ {i} : LET U == (T \ {i}) \ {j} IN
                U \in SUBSET S /\ Cardinality(U) >= 1 /\ \A x \in U : j < x
    BY <1>2, <2>1
  <2>3. PICK k \in (T \ {i}) \ {j} : TRUE
    BY <1>2, <2>2
  <2> QED BY <2>1, <2>2, <2>3
<1>4. ASSUME Cardinality(S) >= 4 PROVE \E h, i, j, k \in S : h < i /\ i < j /\ j < k
  <2>1. PICK h \in S : LET U == S \ {h} IN
                U \in SUBSET S /\ Cardinality(U) >= 3 /\ \A x \in U : h < x
    BY <1>2, <1>4
  <2>2. PICK i \in S \ {h}, j \in S \ {h}, k \in S \ {h} : i < j /\ j < k
    BY <1>3, <2>1
  <2> QED BY <2>1, <2>2
<1> QED BY <1>3, <1>4

LEMMA AtLeast ==
    ASSUME NEW S \in SUBSET Nat, IsFiniteSet(S), NEW j \in S, NEW k \in S, j < k
    PROVE  /\ Cardinality(S) \in Nat /\ Cardinality(S) >= 2
           /\ \A i \in S : i < j => Cardinality(S) >= 3
           /\ \A h, i \in S : h < i /\ i < j => Cardinality(S) >= 4
<1>1. Cardinality(S) \in Nat
  BY FS_CardinalityType
<1>2. IsFiniteSet({j, k}) /\ Cardinality({j, k}) = 2
  <2>1. IsFiniteSet({k}) /\ Cardinality({k}) = 1
    BY FS_Singleton
  <2>2. {j, k} = {k} \cup {j} /\ j \notin {k}
    OBVIOUS
  <2> QED BY <2>1, <2>2, FS_AddElement
<1>3. ASSUME NEW i \in S, i < j
      PROVE  IsFiniteSet({i, j, k}) /\ Cardinality({i, j, k}) = 3
  <2>1. {i, j, k} = {j, k} \cup {i} /\ i \notin {j, k}
    BY <1>3
  <2> QED BY <1>2, <2>1, FS_AddElement
<1>4. ASSUME NEW h \in S, NEW i \in S, h < i, i < j
      PROVE  IsFiniteSet({h, i, j, k}) /\ Cardinality({h, i, j, k}) = 4
  <2> DEFINE T == {i, j, k}
  <2>1. {h, i, j, k} = T \cup {h} /\ h \notin T
    BY <1>4
  <2>2. IsFiniteSet(T) /\ Cardinality(T) = 3
    BY <1>3, <1>4
  <2> HIDE DEF T
  <2>3. Cardinality(T \cup {h}) = 4 /\ IsFiniteSet(T \cup {h})
    BY <2>1, <2>2, FS_AddElement
  <2> QED BY <2>1, <2>3
<1>5. Cardinality(S) >= 2
  <2>1. {j, k} \in SUBSET S
    OBVIOUS
  <2> QED BY <1>1, <1>2, <2>1, FS_Subset
<1>6. ASSUME NEW i \in S, i < j PROVE Cardinality(S) >= 3
  <2>1. {i, j, k} \in SUBSET S
    OBVIOUS
  <2>2. Cardinality({i, j, k}) = 3
    BY <1>3, <1>6
  <2>3. Cardinality({i, j, k}) <= Cardinality(S)
    BY <2>1, FS_Subset
  <2> QED BY <1>1, <2>2, <2>3
<1>7. ASSUME NEW h \in S, NEW i \in S, h < i, i < j PROVE Cardinality(S) >= 4
  <2>1. {h, i, j, k} \in SUBSET S
    OBVIOUS
  <2>2. Cardinality({h, i, j, k}) = 4
    BY <1>4, <1>7
  <2>3. Cardinality({h, i, j, k}) <= Cardinality(S)
    BY <2>1, FS_Subset
  <2> QED BY <1>1, <2>2, <2>3
<1> QED BY <1>1, <1>5, <1>6, <1>7

-----------------------------------------------------------------------------
(* The turns of a check that fails *)

\* Before a turn, the last failure was in another state, so one was since any failure.
LEMMA TurnIs ==
    ASSUME NEW w, NEW o, DOMAIN w \subseteq Nat, NEW i \in CheckFailures(w, o)
    PROVE  i \in Turns(w, o) <=>
               \A j \in CheckFailures(w, o) : j < i =>
                   \E k \in CheckFailures(w, o) : j <= k /\ k < i /\ w[k].state # w[i].state
<1> DEFINE F == CheckFailures(w, o)
<1>1. F \in SUBSET Nat /\ i \in Nat
  BY DEF CheckFailures
<1>2. i \in Turns(w, o) <=>
          \A j \in F : j < i /\ F \cap (j + 1)..(i - 1) = {} => w[j].state # w[i].state
  BY DEF Turns
<1> HIDE DEF F
<1>3. ASSUME i \in Turns(w, o), NEW j \in F, j < i
      PROVE  \E k \in F : j <= k /\ k < i /\ w[k].state # w[i].state
  <2>1. PICK m \in F : j <= m /\ m < i /\ \A k \in F : k <= m \/ i <= k
    BY <1>1, <1>3, LastBefore
  <2>2. F \cap (m + 1)..(i - 1) = {}
    BY <1>1, <2>1
  <2> QED BY <1>2, <1>3, <2>1, <2>2
<1>4. ASSUME \A j \in F : j < i => \E k \in F : j <= k /\ k < i /\ w[k].state # w[i].state,
             NEW j \in F, j < i, F \cap (j + 1)..(i - 1) = {}
      PROVE  w[j].state # w[i].state
  <2>1. PICK k \in F : j <= k /\ k < i /\ w[k].state # w[i].state
    BY <1>4
  <2>2. k = j
    BY <1>1, <1>4, <2>1
  <2> QED BY <2>1, <2>2
<1>5. CASE i \in Turns(w, o)
  BY <1>3, <1>5 DEF F
<1>6. CASE i \notin Turns(w, o)
  BY <1>2, <1>4, <1>6 DEF F
<1> QED BY <1>5, <1>6

LEMMA TurnsFail ==
    ASSUME NEW w, NEW o
    PROVE  Turns(w, o) \subseteq CheckFailures(w, o)
BY DEF Turns

\* A failure has a turn since which the check failed in its state only.
LEMMA RunStart ==
    ASSUME NEW w, NEW o, DOMAIN w \subseteq Nat, NEW i \in CheckFailures(w, o)
    PROVE  \E t \in Turns(w, o) :
               /\ t <= i
               /\ \A k \in CheckFailures(w, o) :
                      t <= k /\ k <= i => w[k].state = w[i].state
<1> DEFINE F == CheckFailures(w, o)
           R == {r \in F : r <= i /\ \A k \in F : r <= k /\ k <= i => w[k].state = w[i].state}
<1>1. F \in SUBSET Nat
  BY DEF CheckFailures
<1>2. i \in R
  <2>1. \A k \in F : i <= k /\ k <= i => k = i
    BY <1>1
  <2> QED BY <1>1, <2>1
<1>3. PICK t \in R : \A r \in R : t <= r
  BY <1>1, <1>2, Least
<1>4. ASSUME NEW j \in F, j < t
      PROVE  \E k \in F : j <= k /\ k < t /\ w[k].state # w[t].state
  <2> SUFFICES ASSUME \A k \in F : j <= k /\ k < t => w[k].state = w[t].state PROVE FALSE
    OBVIOUS
  <2>1. w[t].state = w[i].state
    BY <1>1, <1>3
  <2>2. \A k \in F : j <= k /\ k <= i => w[k].state = w[i].state
    BY <1>1, <1>3, <2>1
  <2>3. j \in R
    BY <1>1, <1>3, <1>4, <2>2
  <2> QED BY <1>1, <1>3, <1>4, <2>3
<1>5. t \in Turns(w, o)
  BY <1>3, <1>4, TurnIs
<1> QED BY <1>3, <1>5

\* The turn before a turn t, when there is a failure p before it.
LEMMA StepBack ==
    ASSUME NEW w, NEW o, DOMAIN w \subseteq Nat,
           NEW t \in Turns(w, o), NEW p \in CheckFailures(w, o), p < t
    PROVE  \E s \in Turns(w, o), q \in CheckFailures(w, o) :
               /\ s <= q /\ p <= q /\ q < t
               /\ w[q].state = w[s].state /\ w[s].state # w[t].state
               /\ \A k \in CheckFailures(w, o) : s <= k /\ k < t => w[k].state = w[s].state
               /\ \A u \in Turns(w, o) : u <= s \/ t <= u
<1> DEFINE F == CheckFailures(w, o)
<1>1. F \in SUBSET Nat /\ t \in F /\ Turns(w, o) \subseteq F
  BY TurnsFail DEF CheckFailures
<1>2. PICK q \in F : p <= q /\ q < t /\ \A k \in F : k <= q \/ t <= k
  BY <1>1, LastBefore
<1>3. w[q].state # w[t].state
  <2>1. PICK k \in F : q <= k /\ k < t /\ w[k].state # w[t].state
    BY <1>1, <1>2, TurnIs
  <2>2. k = q
    BY <1>1, <1>2, <2>1
  <2> QED BY <2>1, <2>2
<1>4. PICK s \in Turns(w, o) :
          s <= q /\ \A k \in F : s <= k /\ k <= q => w[k].state = w[q].state
  BY <1>2, RunStart
<1>5. w[s].state = w[q].state
  BY <1>1, <1>4
<1>6. \A k \in F : s <= k /\ k < t => w[k].state = w[s].state
  BY <1>1, <1>2, <1>4, <1>5
<1>7. ASSUME NEW u \in Turns(w, o), s < u, u < t PROVE FALSE
  <2>1. PICK k \in F : s <= k /\ k < u /\ w[k].state # w[u].state
    BY <1>1, <1>7, TurnIs
  <2>2. w[k].state = w[s].state /\ w[u].state = w[s].state
    BY <1>1, <1>6, <1>7, <2>1
  <2> QED BY <2>1, <2>2
<1>8. \A u \in Turns(w, o) : u <= s \/ t <= u
  BY <1>1, <1>7
<1> QED BY <1>2, <1>3, <1>4, <1>5, <1>6, <1>8

\* Failures that go to and fro up to the last one: so do the last five turns.
LEMMA RoundOscillates ==
    ASSUME NEW w, NEW o, DOMAIN w \subseteq Nat, o.call \in Checks,
           NEW p \in [1..5 -> CheckFailures(w, o)],
           \A k \in 1..4 : p[k] < p[k + 1],
           \A k \in 1..3 : w[p[k]].state = w[p[k + 2]].state,
           w[p[1]].state # w[p[2]].state,
           \A i \in CheckFailures(w, o) :
               /\ i <= p[5]
               /\ p[1] <= i => w[i].state \in {w[p[1]].state, w[p[2]].state}
    PROVE  Oscillates(w, o)
<1> DEFINE F == CheckFailures(w, o)
           a == w[p[1]].state
           b == w[p[2]].state
<1>1. F \in SUBSET Nat /\ Turns(w, o) \subseteq F
  BY TurnsFail DEF CheckFailures
<1>2. /\ p[1] \in F /\ p[2] \in F /\ p[3] \in F /\ p[4] \in F /\ p[5] \in F
      /\ p[1] < p[2] /\ p[2] < p[3] /\ p[3] < p[4] /\ p[4] < p[5]
      /\ w[p[3]].state = a /\ w[p[4]].state = b /\ w[p[5]].state = a /\ a # b
  <2>1. p[1] < p[1 + 1] /\ p[2] < p[2 + 1] /\ p[3] < p[3 + 1] /\ p[4] < p[4 + 1]
    OBVIOUS
  <2>2. /\ w[p[1]].state = w[p[1 + 2]].state /\ w[p[2]].state = w[p[2 + 2]].state
        /\ w[p[3]].state = w[p[3 + 2]].state
    OBVIOUS
  <2> QED BY <2>1, <2>2
<1>3. \A i \in F : i <= p[5] /\ (p[1] <= i => w[i].state = a \/ w[i].state = b)
  OBVIOUS
<1>4. PICK t5 \in Turns(w, o) :
          t5 <= p[5] /\ \A k \in F : t5 <= k /\ k <= p[5] => w[k].state = w[p[5]].state
  BY <1>2, RunStart
<1>5. w[t5].state = a /\ p[4] < t5 /\ t5 \in F
  BY <1>1, <1>2, <1>4
<1>6. \A u \in Turns(w, o) : u <= t5
  <2> SUFFICES ASSUME NEW u \in Turns(w, o), t5 < u PROVE FALSE
    BY <1>1, <1>5
  <2>1. PICK k \in F : t5 <= k /\ k < u /\ w[k].state # w[u].state
    BY <1>1, <1>5, TurnIs
  <2>2. w[k].state = a /\ w[u].state = a
    BY <1>1, <1>2, <1>3, <1>4, <2>1
  <2> QED BY <2>1, <2>2
<1>7. PICK t4 \in Turns(w, o), q4 \in F :
          /\ t4 <= q4 /\ p[4] <= q4 /\ q4 < t5
          /\ w[q4].state = w[t4].state /\ w[t4].state # w[t5].state
          /\ \A k \in F : t4 <= k /\ k < t5 => w[k].state = w[t4].state
          /\ \A u \in Turns(w, o) : u <= t4 \/ t5 <= u
  BY <1>2, <1>5, StepBack, SMTT(30)
<1>8. w[t4].state = b /\ p[3] < t4 /\ t4 \in F
  BY <1>1, <1>2, <1>3, <1>5, <1>7
<1>9. PICK t3 \in Turns(w, o), q3 \in F :
          /\ t3 <= q3 /\ p[3] <= q3 /\ q3 < t4
          /\ w[q3].state = w[t3].state /\ w[t3].state # w[t4].state
          /\ \A k \in F : t3 <= k /\ k < t4 => w[k].state = w[t3].state
          /\ \A u \in Turns(w, o) : u <= t3 \/ t4 <= u
  BY <1>2, <1>8, StepBack, SMTT(30)
<1>10. w[t3].state = a /\ p[2] < t3 /\ t3 \in F
  BY <1>1, <1>2, <1>3, <1>8, <1>9
<1>11. PICK t2 \in Turns(w, o), q2 \in F :
          /\ t2 <= q2 /\ p[2] <= q2 /\ q2 < t3
          /\ w[q2].state = w[t2].state /\ w[t2].state # w[t3].state
          /\ \A k \in F : t2 <= k /\ k < t3 => w[k].state = w[t2].state
          /\ \A u \in Turns(w, o) : u <= t2 \/ t3 <= u
  BY <1>2, <1>10, StepBack, SMTT(30)
<1>12. w[t2].state = b /\ p[1] < t2 /\ t2 \in F
  BY <1>1, <1>2, <1>3, <1>10, <1>11
<1>13. PICK t1 \in Turns(w, o), q1 \in F :
          /\ t1 <= q1 /\ p[1] <= q1 /\ q1 < t2
          /\ w[q1].state = w[t1].state /\ w[t1].state # w[t2].state
          /\ \A k \in F : t1 <= k /\ k < t2 => w[k].state = w[t1].state
          /\ \A u \in Turns(w, o) : u <= t1 \/ t2 <= u
  BY <1>2, <1>12, StepBack, SMTT(30)
<1>14. w[t1].state = a /\ t1 \in F
  BY <1>1, <1>2, <1>3, <1>12, <1>13
<1>15. t1 < t2 /\ t2 < t3 /\ t3 < t4 /\ t4 < t5
  BY <1>1, <1>5, <1>7, <1>8, <1>9, <1>10, <1>11, <1>12, <1>13, <1>14
<1>16. \A u \in Turns(w, o) : u < t1 \/ u = t1 \/ u = t2 \/ u = t3 \/ u = t4 \/ u = t5
  BY <1>1, <1>5, <1>6, <1>7, <1>8, <1>9, <1>10, <1>11, <1>12, <1>13, <1>14
<1> DEFINE t == <<t1, t2, t3, t4, t5>>
<1>17. /\ t \in [1..5 -> Turns(w, o)]
       /\ t[1] = t1 /\ t[2] = t2 /\ t[3] = t3 /\ t[4] = t4 /\ t[5] = t5
  OBVIOUS
<1> HIDE DEF t
<1>18. /\ \A k \in 1..4 : t[k] < t[k + 1]
       /\ \A i \in Turns(w, o) : i < t[1] \/ \E k \in 1..5 : i = t[k]
       /\ \A k \in 1..3 : w[t[k]].state = w[t[k + 2]].state
       /\ w[t[1]].state # w[t[2]].state
  <2>1. \A k \in 1..4 : t[k] < t[k + 1]
    <3>1. \A k \in 1..4 : k = 1 \/ k = 2 \/ k = 3 \/ k = 4
      OBVIOUS
    <3>2. t[1] < t[1 + 1] /\ t[2] < t[2 + 1] /\ t[3] < t[3 + 1] /\ t[4] < t[4 + 1]
      BY <1>15, <1>17
    <3> QED BY <3>1, <3>2
  <2>2. \A k \in 1..3 : w[t[k]].state = w[t[k + 2]].state
    <3>1. \A k \in 1..3 : k = 1 \/ k = 2 \/ k = 3
      OBVIOUS
    <3>2. /\ w[t[1]].state = w[t[1 + 2]].state /\ w[t[2]].state = w[t[2 + 2]].state
          /\ w[t[3]].state = w[t[3 + 2]].state
      BY <1>5, <1>8, <1>10, <1>12, <1>14, <1>17
    <3> QED BY <3>1, <3>2
  <2>3. \A i \in Turns(w, o) : i < t[1] \/ \E k \in 1..5 : i = t[k]
    BY <1>16, <1>17
  <2> QED BY <1>2, <1>12, <1>14, <1>17, <2>1, <2>2, <2>3
<1> QED BY <1>17, <1>18 DEF Oscillates

\* The other way: since the first of the last five turns, only their two states failed.
LEMMA OscillationTurns ==
    ASSUME NEW w, NEW o, DOMAIN w \subseteq Nat, Oscillates(w, o)
    PROVE  \E t \in [1..5 -> CheckFailures(w, o)] :
               /\ \A k \in 1..4 : t[k] < t[k + 1]
               /\ \A k \in 1..3 : w[t[k]].state = w[t[k + 2]].state
               /\ w[t[1]].state # w[t[2]].state
               /\ \A i \in CheckFailures(w, o) :
                      t[1] <= i => w[i].state \in {w[t[1]].state, w[t[2]].state}
<1> DEFINE F == CheckFailures(w, o)
<1>1. F \in SUBSET Nat /\ Turns(w, o) \subseteq F
  BY TurnsFail DEF CheckFailures
<1>2. PICK t \in [1..5 -> Turns(w, o)] :
        /\ \A k \in 1..4 : t[k] < t[k + 1]
        /\ \A i \in Turns(w, o) : i < t[1] \/ \E k \in 1..5 : i = t[k]
        /\ \A k \in 1..3 : w[t[k]].state = w[t[k + 2]].state
        /\ w[t[1]].state # w[t[2]].state
  BY DEF Oscillates
<1>3. /\ w[t[3]].state = w[t[1]].state /\ w[t[4]].state = w[t[2]].state
      /\ w[t[5]].state = w[t[1]].state
  <2>1. /\ w[t[1]].state = w[t[1 + 2]].state /\ w[t[2]].state = w[t[2 + 2]].state
        /\ w[t[3]].state = w[t[3 + 2]].state
    BY <1>2
  <2> QED BY <2>1
<1>4. ASSUME NEW i \in F, t[1] <= i PROVE w[i].state \in {w[t[1]].state, w[t[2]].state}
  <2>1. PICK r \in Turns(w, o) :
            r <= i /\ \A k \in F : r <= k /\ k <= i => w[k].state = w[i].state
    BY RunStart
  <2>2. CASE r < t[1]
    <3>1. t[1] \in F
      BY <1>1
    <3> QED BY <1>1, <1>4, <2>1, <2>2, <3>1
  <2>3. CASE \E k \in 1..5 : r = t[k]
    <3>1. PICK k \in 1..5 : r = t[k]
      BY <2>3
    <3>2. w[r].state = w[i].state
      BY <1>1, <2>1
    <3>3. k = 1 \/ k = 2 \/ k = 3 \/ k = 4 \/ k = 5
      OBVIOUS
    <3> QED BY <1>3, <3>1, <3>2, <3>3
  <2> QED BY <1>2, <2>2, <2>3
<1>5. t \in [1..5 -> F]
  BY <1>1
<1> QED BY <1>2, <1>4, <1>5
-----------------------------------------------------------------------------
(* What the guard keeps, and the history *)

\* No change of the task's and no answer from i to j of the history h.
Unbroken(h, i, j) == \A k \in i..j : h[k].kind \in ObservedKinds

\* The observation at a of the window is the one at pos[a] of the history, the window is
\* the end of what was observed, and epochs tell whether a reading was left untouched.
Mirrors(pos) ==
    /\ pos \in [DOMAIN window -> Noticed]
    /\ \A a, b \in DOMAIN window : a < b => pos[a] < pos[b]
    /\ \A a \in DOMAIN window : Alike(window[a], log[pos[a]])
    /\ \A i \in Noticed : \/ \E a \in DOMAIN window : i = pos[a]
                          \/ Len(window) = Window /\ \A a \in DOMAIN window : i < pos[a]
    /\ \A a \in DOMAIN window :
          /\ window[a].epoch <= epoch
          /\ (window[a].epoch = epoch) <=> Unbroken(log, pos[a], Len(log))
    /\ \A a, b \in DOMAIN window :
          a <= b => ((window[a].epoch = window[b].epoch) <=> Unbroken(log, pos[a], pos[b]))

\* What repeats itself and did not stop the task was announced.
Warned ==
    \A i, j \in Recent : i < j /\ Repeats(i, j) =>
        \E k \in Noticed : k <= j /\ log[k].said = "warn" /\ Repeats(k, j)

GoesOn == phase \in {"running", "scanning"}

GuardInv ==
    /\ GuardTypes
    /\ \E pos \in [DOMAIN window -> DOMAIN log] : Mirrors(pos)
    /\ StopsWhenStuck
    /\ GoesOn => Warned

LEMMA NoticedIs ==
    GuardTypes => /\ Noticed \subseteq DOMAIN log /\ DOMAIN log = 1..Len(log) /\ Len(log) \in Nat
                  /\ DOMAIN window = 1..Len(window) /\ Len(window) \in Nat
                  /\ Noticed \in SUBSET Nat /\ IsFiniteSet(Noticed)
<1> SUFFICES ASSUME GuardTypes
             PROVE  /\ Noticed \subseteq DOMAIN log /\ DOMAIN log = 1..Len(log) /\ Len(log) \in Nat
                    /\ DOMAIN window = 1..Len(window) /\ Len(window) \in Nat
                    /\ Noticed \in SUBSET Nat /\ IsFiniteSet(Noticed)
  OBVIOUS
<1>1. /\ Noticed \subseteq DOMAIN log /\ DOMAIN log = 1..Len(log) /\ Len(log) \in Nat
      /\ DOMAIN window = 1..Len(window) /\ Len(window) \in Nat
  BY DEF GuardTypes, Noticed
<1>2. IsFiniteSet(1..Len(log))
  BY <1>1, FS_Interval
<1> QED BY <1>1, <1>2, FS_Subset

\* Recent is what the guard keeps.
LEMMA RecentIs ==
    GuardTypes => \A pos \in [DOMAIN window -> DOMAIN log] :
        Mirrors(pos) => \A i : i \in Recent <=> \E a \in DOMAIN window : i = pos[a]
<1> SUFFICES ASSUME GuardTypes, NEW pos \in [DOMAIN window -> DOMAIN log], Mirrors(pos)
             PROVE  \A i : i \in Recent <=> \E a \in DOMAIN window : i = pos[a]
  OBVIOUS
<1> DEFINE Later(i) == {j \in Noticed : j > i}
           n == Len(window)
<1>1. /\ Noticed \in SUBSET Nat /\ IsFiniteSet(Noticed) /\ n \in Nat /\ DOMAIN window = 1..n
      /\ n <= Window /\ Window \in Nat
  BY NoticedIs, GuardAssumption DEF GuardTypes
<1>2. /\ pos \in [1..n -> Noticed]
      /\ \A a, b \in 1..n : a < b => pos[a] < pos[b]
      /\ \A i \in Noticed : (\E a \in 1..n : i = pos[a]) \/ (n = Window /\ \A a \in 1..n : i < pos[a])
  BY <1>1 DEF Mirrors
<1>3. \A i : IsFiniteSet(Later(i)) /\ Cardinality(Later(i)) \in Nat
  BY <1>1, FS_Subset, FS_CardinalityType
<1>4. \A i : i \in Recent <=> i \in Noticed /\ Cardinality(Later(i)) < Window
  BY DEF Recent
<1>0. \A i, j : j \in Later(i) <=> j \in Noticed /\ j > i
  OBVIOUS
<1> HIDE DEF n, Later
<1>5. ASSUME NEW a \in 1..n PROVE Cardinality(Later(pos[a])) < Window
  <2> DEFINE f == [b \in (a + 1)..n |-> pos[b]]
  <2>1. \A j \in Later(pos[a]) : \E b \in (a + 1)..n : j = pos[b]
    <3> SUFFICES ASSUME NEW j \in Noticed, j > pos[a] PROVE \E b \in (a + 1)..n : j = pos[b]
      BY <1>0
    <3>1. pos[a] \in Nat /\ j \in Nat /\ a \in Nat /\ ~(j < pos[a])
      <4>1. pos[a] \in Noticed
        BY <1>2
      <4>2. pos[a] \in Nat /\ j \in Nat
        BY <1>1, <4>1
      <4> QED BY <1>1, <4>2
    <3>2. PICK b \in 1..n : j = pos[b]
      BY <1>2, <3>1
    <3>3. ~(b < a) /\ b # a
      BY <1>1, <1>2, <3>1, <3>2
    <3>4. b \in (a + 1)..n
      BY <1>1, <3>1, <3>3
    <3> QED BY <3>2, <3>4
  <2>2. f \in Surjection((a + 1)..n, Later(pos[a]))
    <3>1. f \in [(a + 1)..n -> Later(pos[a])]
      <4>1. ASSUME NEW b \in (a + 1)..n PROVE pos[b] \in Later(pos[a])
        <5>1. a \in Nat /\ b \in 1..n /\ a < b
          BY <1>1
        <5>2. pos[b] \in Noticed /\ pos[a] < pos[b]
          BY <1>2, <5>1
        <5>3. pos[a] \in Nat /\ pos[b] \in Nat
          BY <1>1, <1>2, <5>2
        <5> QED BY <1>0, <5>2, <5>3
      <4> QED BY <4>1
    <3> QED BY <2>1, <3>1 DEF Surjection
  <2>3. IsFiniteSet((a + 1)..n) /\ Cardinality((a + 1)..n) < n
    <3>1. a + 1 \in Int /\ n \in Int /\ a \in Nat /\ a > 0 /\ a <= n
      BY <1>1
    <3>2. /\ IsFiniteSet((a + 1)..n)
          /\ Cardinality((a + 1)..n) = IF a + 1 > n THEN 0 ELSE n - (a + 1) + 1
      BY <3>1, FS_Interval
    <3> QED BY <3>1, <3>2
  <2>4. Cardinality(Later(pos[a])) <= Cardinality((a + 1)..n)
    BY <2>2, <2>3, FS_Surjection
  <2>5. Cardinality((a + 1)..n) \in Nat /\ Cardinality(Later(pos[a])) \in Nat
    BY <1>3, <2>3, FS_CardinalityType
  <2> QED BY <1>1, <2>3, <2>4, <2>5
<1>6. ASSUME NEW i \in Noticed, Cardinality(Later(i)) < Window
      PROVE  \E a \in 1..n : i = pos[a]
  <2> SUFFICES ASSUME n = Window, \A a \in 1..n : i < pos[a] PROVE FALSE
    BY <1>2
  <2>1. pos \in Injection(1..n, Later(i))
    <3>1. pos \in [1..n -> Later(i)]
      <4>1. ASSUME NEW a \in 1..n PROVE pos[a] \in Later(i)
        <5>1. pos[a] \in Noticed /\ pos[a] \in Nat /\ i \in Nat /\ i < pos[a]
          BY <1>1, <1>2
        <5> QED BY <1>0, <5>1
      <4> QED BY <1>2, <4>1
    <3>2. \A a, b \in 1..n : pos[a] = pos[b] => a = b
      <4> SUFFICES ASSUME NEW a \in 1..n, NEW b \in 1..n, pos[a] = pos[b], a # b PROVE FALSE
        OBVIOUS
      <4>1. a < b \/ b < a
        BY <1>1
      <4>2. pos[a] \in Nat /\ pos[b] \in Nat
        BY <1>1, <1>2
      <4> QED BY <1>2, <4>1, <4>2
    <3> QED BY <3>1, <3>2 DEF Injection, IsInjective
  <2>2. Cardinality(1..n) = n
    BY <1>1, FS_Interval
  <2>3. Cardinality(1..n) <= Cardinality(Later(i))
    BY <1>3, <2>1, FS_Injection
  <2>4. Cardinality(Later(i)) \in Nat
    BY <1>3
  <2> QED BY <1>1, <1>6, <2>2, <2>3, <2>4
<1> QED BY <1>1, <1>2, <1>4, <1>5, <1>6

\* What is added to the window, and what is lost for it.
LEMMA AppendedIs ==
    ASSUME GuardTypes, NEW o \in Observations, NEW w, w = Appended(o)
    PROVE  \E s \in {0, 1} :
               /\ s = 0 => Len(window) < Window
               /\ s = 1 => Len(window) = Window
               /\ w \in Seq(Observations) /\ Len(w) = Len(window) + 1 - s
               /\ Len(w) \in Nat \ {0} /\ Len(w) <= Window /\ DOMAIN w = 1..Len(w)
               /\ w[Len(w)] = o
               /\ \A k \in DOMAIN w : k # Len(w) => k + s \in DOMAIN window /\ w[k] = window[k + s]
<1>1. /\ window \in Seq(Observations) /\ Len(window) \in Nat /\ Len(window) <= Window
      /\ Window \in Nat /\ Window # 0 /\ DOMAIN window = 1..Len(window)
  BY GuardAssumption DEF GuardTypes
<1>2. CASE Len(window) < Window
  <2>1. w = Append(window, o)
    BY <1>2 DEF Appended
  <2>2. /\ w \in Seq(Observations) /\ Len(w) = Len(window) + 1 /\ w[Len(window) + 1] = o
        /\ \A k \in 1..Len(window) : w[k] = window[k]
    BY <1>1, <2>1, AppendProperties
  <2>3. DOMAIN w = 1..Len(w)
    BY <2>2
  <2>4. \A k \in DOMAIN w : k # Len(w) => k + 0 \in DOMAIN window /\ w[k] = window[k + 0]
    BY <1>1, <2>2, <2>3
  <2>5. /\ Len(w) = Len(window) + 1 - 0 /\ Len(w) \in Nat \ {0} /\ Len(w) <= Window
        /\ w[Len(w)] = o
    BY <1>1, <1>2, <2>2
  <2> QED BY <1>2, <2>2, <2>3, <2>4, <2>5
<1>3. CASE Len(window) = Window
  <2>1. Len(window) = Window /\ window # <<>>
    <3>1. Len(window) # 0
      BY <1>1, <1>3
    <3> QED BY <1>3, <3>1
  <2> DEFINE t == Tail(window)
  <2>2. w = Append(t, o)
    <3>1. ~(Len(window) < Window)
      BY <1>1, <1>3
    <3> QED BY <3>1 DEF Appended
  <2>3. /\ t \in Seq(Observations) /\ Len(t) = Len(window) - 1
        /\ \A k \in 1..Len(t) : t[k] = window[k + 1]
    BY <1>1, <2>1, HeadTailProperties
  <2> HIDE DEF t
  <2>4. /\ w \in Seq(Observations) /\ Len(w) = Len(t) + 1 /\ w[Len(t) + 1] = o
        /\ \A k \in 1..Len(t) : w[k] = t[k]
    BY <2>2, <2>3, AppendProperties
  <2>5. /\ Len(w) = Len(window) + 1 - 1 /\ Len(w) \in Nat \ {0} /\ Len(w) <= Window
        /\ DOMAIN w = 1..Len(w) /\ w[Len(w)] = o
    BY <1>1, <2>1, <2>3, <2>4
  <2>6. \A k \in DOMAIN w : k # Len(w) => k + 1 \in DOMAIN window /\ w[k] = window[k + 1]
    <3> SUFFICES ASSUME NEW k \in DOMAIN w, k # Len(w)
                 PROVE  k + 1 \in DOMAIN window /\ w[k] = window[k + 1]
      OBVIOUS
    <3>1. k \in 1..Len(t) /\ k + 1 \in 1..Len(window)
      BY <1>1, <2>3, <2>4, <2>5
    <3> QED BY <1>1, <2>3, <2>4, <3>1
  <2> QED BY <2>1, <2>4, <2>5, <2>6
<1>4. Len(window) < Window \/ Len(window) = Window
  <2>1. \A x, y \in Nat : x <= y => x < y \/ x = y
    OBVIOUS
  <2>2. Len(window) \in Nat /\ Window \in Nat /\ Len(window) <= Window
    BY <1>1
  <2> QED BY <2>1, <2>2
<1> QED BY <1>2, <1>3, <1>4

\* A history that grows keeps what it says of what it had.
LEMMA LogGrows ==
    ASSUME GuardTypes, NEW r \in Records, log' = Append(log, r), NEW l, l = Len(log) + 1
    PROVE  /\ log' \in Seq(Records) /\ Len(log') = l /\ log'[l] = r
           /\ \A i \in DOMAIN log : log'[i] = log[i]
           /\ DOMAIN log' = DOMAIN log \cup {l}
           /\ r.kind \in ObservedKinds => Noticed' = Noticed \cup {l}
           /\ r.kind \notin ObservedKinds => Noticed' = Noticed
           /\ \A i, j \in DOMAIN log :
                  /\ Unbroken(log', i, j) <=> Unbroken(log, i, j)
                  /\ Untouched(i, j)' <=> Untouched(i, j)
                  /\ Same(i, j)' <=> Same(i, j)
                  /\ Repeats(i, j)' <=> Repeats(i, j)
           /\ \A i \in DOMAIN log :
                  Unbroken(log', i, l) <=> Unbroken(log, i, Len(log)) /\ r.kind \in ObservedKinds
<1>1. log \in Seq(Records) /\ Len(log) \in Nat /\ DOMAIN log = 1..Len(log) /\ l \in Nat
  BY DEF GuardTypes
<1>2. /\ log' \in Seq(Records) /\ Len(log') = l /\ log'[l] = r
      /\ \A i \in DOMAIN log : log'[i] = log[i]
  BY <1>1, AppendProperties
<1>3. DOMAIN log' = DOMAIN log \cup {l}
  BY <1>1, <1>2
<1>4. /\ r.kind \in ObservedKinds => Noticed' = Noticed \cup {l}
      /\ r.kind \notin ObservedKinds => Noticed' = Noticed
  <2>1. PICK g : g = log'
    OBVIOUS
  <2>2. \A i : i \in Noticed' <=> i \in DOMAIN g /\ g[i].kind \in ObservedKinds
    BY <2>1 DEF Noticed, ObservedKinds
  <2>3. \A i : i \in Noticed <=> i \in DOMAIN log /\ log[i].kind \in ObservedKinds
    BY DEF Noticed
  <2>4. \A i : i \in DOMAIN log => g[i].kind = log[i].kind
    BY <1>2, <2>1
  <2>5. (\A i : i \in DOMAIN g <=> i \in DOMAIN log \/ i = l) /\ g[l].kind = r.kind
    BY <1>2, <1>3, <2>1
  <2>6. l \notin DOMAIN log
    BY <1>1
  <2>7. ASSUME NEW i PROVE i \in Noticed' <=> i \in Noticed \/ (i = l /\ r.kind \in ObservedKinds)
    <3>1. CASE i = l
      BY <2>2, <2>3, <2>5, <2>6, <3>1
    <3>2. CASE i # l
      BY <2>2, <2>3, <2>4, <2>5, <3>2
    <3> QED BY <3>1, <3>2
  <2> QED BY <2>7
<1>5. ASSUME NEW i \in DOMAIN log, NEW j \in DOMAIN log
      PROVE  /\ Unbroken(log', i, j) <=> Unbroken(log, i, j)
             /\ Untouched(i, j)' <=> Untouched(i, j)
             /\ Same(i, j)' <=> Same(i, j)
             /\ Repeats(i, j)' <=> Repeats(i, j)
  <2>1. log'[i] = log[i] /\ log'[j] = log[j]
    BY <1>2
  <2>2. \A k \in i..j : k \in DOMAIN log
    BY <1>1
  <2>3. Unbroken(log', i, j) <=> Unbroken(log, i, j)
    BY <1>2, <2>2 DEF Unbroken
  <2>5. Untouched(i, j)' <=> Untouched(i, j)
    BY <2>3 DEF Unbroken, Untouched, ObservedKinds
  <2>4. Same(i, j)' <=> Same(i, j)
    BY <2>1 DEF Same, Alike
  <2> QED BY <2>1, <2>3, <2>4, <2>5 DEF Repeats
<1>6. ASSUME NEW i \in DOMAIN log
      PROVE  Unbroken(log', i, l) <=> Unbroken(log, i, Len(log)) /\ r.kind \in ObservedKinds
  <2>1. i..l = i..Len(log) \cup {l}
    BY <1>1
  <2>2. \A k \in i..Len(log) : k \in DOMAIN log
    BY <1>1
  <2> QED BY <1>2, <2>1, <2>2 DEF Unbroken
<1> QED BY <1>2, <1>3, <1>4, <1>5, <1>6

LEMMA RecentThen ==
    GuardTypes' => \A pos \in [DOMAIN window' -> DOMAIN log'] :
        Mirrors(pos)' => \A i : i \in Recent' <=> \E a \in DOMAIN window' : i = pos[a]
<1>1. (GuardTypes => \A pos \in [DOMAIN window -> DOMAIN log] :
        Mirrors(pos) => \A i : i \in Recent <=> \E a \in DOMAIN window : i = pos[a])'
  BY RecentIs, PTL
<1> QED BY <1>1
-----------------------------------------------------------------------------
(* An observation *)

\* What an observation does.
LEMMA Scanned ==
    ASSUME GuardInv, NEW state \in States, Observe(state), left' \in [Things -> Nat],
           NEW o, o = Observation(state), NEW l, l = Len(log) + 1
    PROVE  /\ phase = "scanning" /\ epoch' = epoch /\ window' = Appended(o)
           /\ o \in Observations /\ o.state = state /\ o.epoch = epoch
           /\ Decision(window', o) \in {"continue", "warn", "stop"}
           /\ \/ Decision(window', o) = "stop" /\ phase' = "stopped"
              \/ Decision(window', o) # "stop" /\ phase' = "running"
              \/ phase' = "over"
           /\ \E r \in Records :
                  /\ log' = Append(log, r) /\ r.kind \in ObservedKinds /\ Alike(o, r)
                  /\ r.said = Decision(window', o)
           /\ Len(log') = l /\ log'[l].said = Decision(window', o) /\ Alike(o, log'[l])
           /\ GuardTypes'
<1>1. /\ phase = "scanning" /\ pending \in Fingerprints
      /\ log \in Seq(Records) /\ Len(log) \in Nat /\ epoch \in Nat
  BY DEF GuardInv, GuardTypes, Observe
<1>2. /\ o = [kind |-> pending.kind, call |-> pending.call, result |-> pending.result,
              state |-> state, epoch |-> epoch]
      /\ o \in Observations
  BY <1>1 DEF Observation, Observations, Fingerprints
<1>3. /\ window' = Appended(o) /\ epoch' = epoch /\ pending' = Silence /\ disk' = disk
      /\ log' = Append(log, [kind |-> o.kind, call |-> o.call, result |-> o.result,
                             state |-> state, said |-> Decision(window', o)])
      /\ \/ Decision(window', o) = "stop" /\ phase' = "stopped"
         \/ Decision(window', o) # "stop" /\ phase' = "running"
         \/ Decision(window', o) # "continue" /\ phase' = "over"
  BY DEF Observe
<1>4. Decision(window', o) \in {"continue", "warn", "stop"}
  BY DEF Decision
<1> DEFINE r == [kind |-> o.kind, call |-> o.call, result |-> o.result, state |-> state,
                 said |-> Decision(window', o)]
<1>5. /\ r \in Records /\ r.kind = o.kind /\ r.call = o.call /\ r.result = o.result
      /\ r.state = state /\ r.said = Decision(window', o)
  BY <1>2, <1>4 DEF Records, Observations
<1>6. log' = Append(log, r)
  BY <1>3
<1>7. o.state = state /\ o.epoch = epoch /\ o.kind \in ObservedKinds
  BY <1>2 DEF Observations
<1> HIDE DEF r
<1>8. r.kind \in ObservedKinds /\ Alike(o, r)
  BY <1>5, <1>7 DEF Alike
<1>9. log' \in Seq(Records) /\ Len(log') = l /\ log'[l] = r
  BY <1>1, <1>5, <1>6, AppendProperties
<1>10. GuardTypes'
  <2>1. window' \in Seq(Observations) /\ Len(window') <= Window
    BY <1>2, <1>3, AppendedIs DEF GuardInv
  <2> QED BY <1>1, <1>3, <1>9, <2>1 DEF GuardInv, GuardTypes, States, Observations, Records, ObservedKinds,
             Calls, Fingerprints, Things
<1> QED BY <1>1, <1>2, <1>3, <1>4, <1>5, <1>6, <1>7, <1>8, <1>9, <1>10

\* The window slides along the history.
LEMMA MirrorsThen ==
    ASSUME GuardInv, NEW state \in States, Observe(state), left' \in [Things -> Nat],
           NEW o, o = Observation(state), NEW l, l = Len(log) + 1,
           NEW pos \in [DOMAIN window -> DOMAIN log], Mirrors(pos)
    PROVE  \E then \in [DOMAIN window' -> DOMAIN log'] :
               /\ Mirrors(then)' /\ then[Len(window')] = l
               /\ \A i \in Recent' : i = l \/ i \in Recent
               /\ \A i \in Recent, j \in Recent' : j <= i => i \in Recent'
               /\ l \in Recent'
<1>1. /\ window' = Appended(o) /\ o \in Observations /\ epoch' = epoch /\ o.epoch = epoch
      /\ Len(log') = l /\ Alike(o, log'[l]) /\ GuardTypes'
  BY Scanned
<1>2. PICK r \in Records : log' = Append(log, r) /\ r.kind \in ObservedKinds /\ Alike(o, r)
  BY Scanned
<1>3. /\ GuardTypes /\ Noticed \subseteq DOMAIN log /\ DOMAIN log = 1..Len(log) /\ Len(log) \in Nat
      /\ DOMAIN window = 1..Len(window) /\ Len(window) \in Nat /\ l \in Nat
  BY NoticedIs DEF GuardInv
<1>4. /\ Noticed' = Noticed \cup {l} /\ DOMAIN log' = DOMAIN log \cup {l} /\ log'[l] = r
      /\ \A i \in DOMAIN log : log'[i] = log[i]
      /\ \A i, j \in DOMAIN log : Unbroken(log', i, j) <=> Unbroken(log, i, j)
      /\ \A i \in DOMAIN log : Unbroken(log', i, l) <=> Unbroken(log, i, Len(log))
  BY <1>2, <1>3, LogGrows
<1>19. PICK m : m = Len(window')
  OBVIOUS
<1>5. PICK s \in {0, 1} :
          /\ s = 0 => Len(window) < Window
          /\ s = 1 => Len(window) = Window
          /\ m = Len(window) + 1 - s
          /\ m \in Nat \ {0} /\ m <= Window /\ DOMAIN window' = 1..m
          /\ window'[m] = o
          /\ \A k \in DOMAIN window' :
                 k # m => k + s \in DOMAIN window /\ window'[k] = window[k + s]
  <2>1. \E s \in {0, 1} :
            /\ s = 0 => Len(window) < Window
            /\ s = 1 => Len(window) = Window
            /\ Len(window') = Len(window) + 1 - s
            /\ Len(window') \in Nat \ {0} /\ Len(window') <= Window
            /\ DOMAIN window' = 1..Len(window') /\ window'[Len(window')] = o
            /\ \A k \in DOMAIN window' :
                   k # Len(window') => k + s \in DOMAIN window /\ window'[k] = window[k + s]
    BY <1>1, <1>3, AppendedIs, SMTT(30)
  <2> QED BY <1>19, <2>1
<1>20. PICK then : then = [k \in 1..m |-> IF k = m THEN l ELSE pos[k + s]]
  OBVIOUS
<1>6. /\ \A a \in DOMAIN window : pos[a] \in Noticed /\ pos[a] \in DOMAIN log /\ pos[a] < l
      /\ \A a, b \in DOMAIN window : a < b => pos[a] < pos[b]
  BY <1>3 DEF Mirrors
<1>7. /\ then[m] = l
      /\ \A k \in 1..m : k # m =>
             /\ k + s \in DOMAIN window /\ then[k] = pos[k + s] /\ window'[k] = window[k + s]
             /\ then[k] \in Noticed /\ then[k] \in DOMAIN log /\ then[k] < l
  BY <1>5, <1>6, <1>20
<1>8. then \in [DOMAIN window' -> Noticed'] /\ then \in [DOMAIN window' -> DOMAIN log']
  BY <1>4, <1>5, <1>7, <1>20
<1>9. ASSUME NEW a \in 1..m, NEW b \in 1..m, a < b PROVE then[a] < then[b]
  <2>1. CASE b = m
    BY <1>5, <1>7, <1>9, <2>1
  <2>2. CASE b # m
    <3>1. a # m /\ a + s < b + s
      BY <1>5, <1>9, <2>2
    <3> QED BY <1>6, <1>7, <2>2, <3>1
  <2> QED BY <2>1, <2>2
<1>10. ASSUME NEW a \in 1..m PROVE Alike(window'[a], log'[then[a]])
  <2>1. CASE a = m
    BY <1>1, <1>5, <1>7, <2>1
  <2>2. CASE a # m
    <3>1. Alike(window[a + s], log[pos[a + s]])
      BY <1>7, <2>2 DEF Mirrors
    <3> QED BY <1>4, <1>7, <2>2, <3>1
  <2> QED BY <2>1, <2>2
<1>11. ASSUME NEW i \in Noticed'
       PROVE  (\E a \in 1..m : i = then[a]) \/ (m = Window /\ \A a \in 1..m : i < then[a])
  <2>1. CASE i = l
    BY <1>5, <1>7, <2>1
  <2>2. CASE i \in Noticed
    <3>1. i \in DOMAIN log /\ i < l /\ i \in Nat
      BY <1>3, <2>2
    <3>2. CASE \E a \in DOMAIN window : i = pos[a]
      <4>1. PICK a \in DOMAIN window : i = pos[a]
        BY <3>2
      <4>2. CASE s < a
        <5>1. a - s \in 1..m /\ a - s # m /\ (a - s) + s = a
          BY <1>3, <1>5, <4>2
        <5> QED BY <1>7, <4>1, <5>1
      <4>3. CASE ~(s < a)
        <5>1. s = 1 /\ a = 1
          BY <1>3, <1>5, <4>3
        <5>2. m = Window
          BY <1>3, <1>5, <5>1
        <5>3. ASSUME NEW k \in 1..m PROVE i < then[k]
          <6>1. CASE k = m
            BY <1>7, <3>1, <6>1
          <6>2. CASE k # m
            <7>1. a < k + s /\ k + s \in DOMAIN window /\ then[k] = pos[k + s]
              BY <1>5, <1>7, <5>1, <6>2
            <7> QED BY <1>6, <4>1, <7>1
          <6> QED BY <6>1, <6>2
        <5> QED BY <5>2, <5>3
      <4> QED BY <4>2, <4>3
    <3>3. CASE Len(window) = Window /\ \A a \in DOMAIN window : i < pos[a]
      <4>1. m = Window
        BY <1>3, <1>5, <3>3
      <4> QED BY <1>7, <3>1, <3>3, <4>1
    <3> QED BY <2>2, <3>2, <3>3 DEF Mirrors
  <2> QED BY <1>4, <2>1, <2>2
<1>12. ASSUME NEW a \in 1..m
       PROVE  /\ window'[a].epoch <= epoch'
              /\ (window'[a].epoch = epoch') <=> Unbroken(log', then[a], Len(log'))
  <2>1. CASE a = m
    <3>1. Unbroken(log', l, l)
      BY <1>2, <1>3, <1>4 DEF Unbroken
    <3>2. epoch \in Nat
      BY <1>3 DEF GuardTypes
    <3> QED BY <1>1, <1>5, <1>7, <2>1, <3>1, <3>2
  <2>2. CASE a # m
    <3>1. /\ window[a + s].epoch <= epoch
          /\ (window[a + s].epoch = epoch) <=> Unbroken(log, pos[a + s], Len(log))
      BY <1>7, <2>2 DEF Mirrors
    <3> QED BY <1>1, <1>4, <1>7, <2>2, <3>1
  <2> QED BY <2>1, <2>2
<1>13. ASSUME NEW a \in 1..m, NEW b \in 1..m, a <= b
       PROVE  (window'[a].epoch = window'[b].epoch) <=> Unbroken(log', then[a], then[b])
  <2>1. CASE b = m
    BY <1>1, <1>5, <1>7, <1>12, <2>1
  <2>2. CASE b # m
    <3>1. a # m /\ a + s <= b + s
      BY <1>5, <1>13, <2>2
    <3>2. (window[a + s].epoch = window[b + s].epoch) <=> Unbroken(log, pos[a + s], pos[b + s])
      BY <1>7, <2>2, <3>1 DEF Mirrors
    <3> QED BY <1>4, <1>7, <2>2, <3>1, <3>2
  <2> QED BY <2>1, <2>2
<1>14. Mirrors(then)'
  BY <1>5, <1>8, <1>9, <1>10, <1>11, <1>12, <1>13, <1>19 DEF Mirrors
<1>15. /\ \A i : i \in Recent' <=> \E a \in 1..m : i = then[a]
       /\ \A i : i \in Recent <=> \E a \in DOMAIN window : i = pos[a]
  <2>1. \A i : i \in Recent' <=> \E a \in DOMAIN window' : i = then[a]
    BY <1>1, <1>8, <1>14, RecentThen
  <2>2. \A i : i \in Recent <=> \E a \in DOMAIN window : i = pos[a]
    BY <1>3, RecentIs
  <2> QED BY <1>5, <2>1, <2>2
<1>16. l \in Recent'
  BY <1>5, <1>7, <1>15
<1>17. ASSUME NEW i \in Recent', i # l PROVE i \in Recent
  BY <1>7, <1>15, <1>17
<1>18. ASSUME NEW i \in Recent, NEW j \in Recent', j <= i PROVE i \in Recent'
  <2>1. PICK a \in DOMAIN window : i = pos[a]
    BY <1>15
  <2>2. PICK b \in 1..m : j = then[b]
    BY <1>15
  <2>3. i < l /\ i \in Nat /\ j \in Nat
    BY <1>3, <1>6, <1>7, <2>1, <2>2
  <2>4. b # m /\ j = pos[b + s] /\ b + s \in DOMAIN window
    BY <1>7, <1>18, <2>2, <2>3
  <2>5. ~(a < b + s)
    BY <1>6, <1>18, <2>1, <2>3, <2>4
  <2>6. a - s \in 1..m /\ a - s # m /\ (a - s) + s = a
    BY <1>3, <1>5, <2>4, <2>5
  <2> QED BY <1>7, <1>15, <2>1, <2>6
<1> QED BY <1>7, <1>8, <1>14, <1>16, <1>17, <1>18, <1>19
-----------------------------------------------------------------------------
(* What the guard says, and what happened *)

LEMMA DecisionIs ==
    ASSUME NEW w, NEW o
    PROVE  LET alike == Cardinality(IF o.kind = "read" THEN SameReads(w, o) ELSE SameFailures(w, o))
               limit == IF o.kind = "read" THEN 4 ELSE 3
               circling == o.kind = "failure" /\ Oscillates(w, o)
           IN  /\ Decision(w, o) = "stop" => Seen(o) /\ (circling \/ alike >= limit)
               /\ Decision(w, o) # "stop" => ~Seen(o) \/ (~circling /\ ~(alike >= limit))
               /\ Decision(w, o) # "stop" /\ alike = 2 => ~Seen(o) \/ Decision(w, o) = "warn"
<1> DEFINE alike == Cardinality(IF o.kind = "read" THEN SameReads(w, o) ELSE SameFailures(w, o))
           limit == IF o.kind = "read" THEN 4 ELSE 3
           circling == o.kind = "failure" /\ Oscillates(w, o)
           much == alike >= limit
           twice == alike = 2
<1>1. Decision(w, o) = IF ~Seen(o) THEN "continue" ELSE IF circling \/ much THEN "stop"
                       ELSE IF twice THEN "warn" ELSE "continue"
  BY DEF Decision
<1> HIDE DEF circling, much, twice
<1>2. /\ Decision(w, o) = "stop" => Seen(o) /\ (circling \/ much)
      /\ Decision(w, o) # "stop" => ~Seen(o) \/ (~circling /\ ~much)
      /\ Decision(w, o) # "stop" /\ twice => ~Seen(o) \/ Decision(w, o) = "warn"
  BY <1>1
<1> QED BY <1>2 DEF circling, much, twice

\* The state after an observation: the window ends with it, as the history does.
Latest == window[Len(window)]
JustSeen(pos) == Mirrors(pos) /\ window # <<>> /\ pos[Len(window)] = Len(log)

\* The failures of a check in the history, and five of them that go to and fro.
FailedIn(c) == {i \in Recent : log[i].kind = "failure" /\ log[i].call = c /\ log[i].state # Unseen}
ToAndFro(h, p) ==
    /\ \A k \in 1..4 : p[k] < p[k + 1]
    /\ \A k \in 1..3 : h[p[k]].state = h[p[k + 2]].state
    /\ h[p[1]].state # h[p[2]].state

LEMMA GoesRoundIs ==
    GoesRound <=> \E c \in Checks : \E p \in [1..5 -> FailedIn(c)] :
                      /\ ToAndFro(log, p)
                      /\ \A i \in FailedIn(c) \cap p[1]..p[5] :
                             log[i].state \in {log[p[1]].state, log[p[2]].state}
BY DEF GoesRound, FailedIn, ToAndFro

LEMMA JustSeenIs ==
    GuardTypes => \A pos \in [DOMAIN window -> DOMAIN log] : JustSeen(pos) =>
        /\ Len(window) \in DOMAIN window /\ DOMAIN window = 1..Len(window) /\ Len(window) \in Nat
        /\ DOMAIN log = 1..Len(log) /\ Len(log) \in Nat
        /\ \A a \in DOMAIN window : pos[a] \in Recent /\ pos[a] \in Nat
        /\ \A i \in Recent : \E a \in DOMAIN window : i = pos[a]
        /\ \A a, b \in DOMAIN window : a < b <=> pos[a] < pos[b]
        /\ \A a, b \in DOMAIN window : pos[a] = pos[b] => a = b
        /\ \A a \in DOMAIN window : Alike(window[a], log[pos[a]])
        /\ \A a \in DOMAIN window : window[a].kind \in ObservedKinds /\ pos[a] <= Len(log)
<1> SUFFICES ASSUME GuardTypes, NEW pos \in [DOMAIN window -> DOMAIN log], JustSeen(pos)
             PROVE
        /\ Len(window) \in DOMAIN window /\ DOMAIN window = 1..Len(window) /\ Len(window) \in Nat
        /\ DOMAIN log = 1..Len(log) /\ Len(log) \in Nat
        /\ \A a \in DOMAIN window : pos[a] \in Recent /\ pos[a] \in Nat
        /\ \A i \in Recent : \E a \in DOMAIN window : i = pos[a]
        /\ \A a, b \in DOMAIN window : a < b <=> pos[a] < pos[b]
        /\ \A a, b \in DOMAIN window : pos[a] = pos[b] => a = b
        /\ \A a \in DOMAIN window : Alike(window[a], log[pos[a]])
        /\ \A a \in DOMAIN window : window[a].kind \in ObservedKinds /\ pos[a] <= Len(log)
  OBVIOUS
<1>1. /\ DOMAIN window = 1..Len(window) /\ Len(window) \in Nat
      /\ DOMAIN log = 1..Len(log) /\ Len(log) \in Nat /\ Mirrors(pos) /\ window # <<>>
      /\ window \in Seq(Observations)
  BY NoticedIs DEF JustSeen, GuardTypes
<1>2. Len(window) \in DOMAIN window
  <2>1. Len(window) # 0
    BY <1>1
  <2> QED BY <1>1, <2>1
<1>3. \A i : i \in Recent <=> \E a \in DOMAIN window : i = pos[a]
  BY <1>1, RecentIs
<1>4. \A a \in DOMAIN window : pos[a] \in Nat /\ pos[a] <= Len(log)
  BY <1>1
<1>5. \A a, b \in DOMAIN window : a < b => pos[a] < pos[b]
  BY <1>1 DEF Mirrors
<1>6. ASSUME NEW a \in DOMAIN window, NEW b \in DOMAIN window
      PROVE  (a < b <=> pos[a] < pos[b]) /\ (pos[a] = pos[b] => a = b)
  <2>1. a < b \/ a = b \/ b < a
    BY <1>1
  <2>2. (a < b => pos[a] < pos[b]) /\ (b < a => pos[b] < pos[a])
    BY <1>5
  <2>3. pos[a] \in Nat /\ pos[b] \in Nat /\ a \in Nat /\ b \in Nat
    BY <1>1, <1>4
  <2> QED BY <2>1, <2>2, <2>3
<1>7. \A a \in DOMAIN window : Alike(window[a], log[pos[a]])
  BY <1>1 DEF Mirrors
<1>8. \A a \in DOMAIN window : window[a].kind \in ObservedKinds
  <2>1. \A a \in DOMAIN window : window[a] \in Observations
    BY <1>1
  <2> QED BY <2>1 DEF Observations
<1> QED BY <1>1, <1>2, <1>3, <1>4, <1>6, <1>7, <1>8

\* Where a check failed in the window is where it did in the history.
LEMMA FailedIs ==
    GuardTypes => \A pos \in [DOMAIN window -> DOMAIN log] : JustSeen(pos) =>
        /\ \A a \in CheckFailures(window, Latest) :
               pos[a] \in FailedIn(Latest.call) /\ window[a].state = log[pos[a]].state
        /\ \A i \in FailedIn(Latest.call) : \E a \in CheckFailures(window, Latest) : i = pos[a]
<1> SUFFICES ASSUME GuardTypes, NEW pos \in [DOMAIN window -> DOMAIN log], JustSeen(pos)
             PROVE
        /\ \A a \in CheckFailures(window, Latest) :
               pos[a] \in FailedIn(Latest.call) /\ window[a].state = log[pos[a]].state
        /\ \A i \in FailedIn(Latest.call) : \E a \in CheckFailures(window, Latest) : i = pos[a]
  OBVIOUS
<1>1. /\ \A a \in DOMAIN window : pos[a] \in Recent /\ Alike(window[a], log[pos[a]])
      /\ \A i \in Recent : \E a \in DOMAIN window : i = pos[a]
  BY JustSeenIs
<1>2. ASSUME NEW a \in DOMAIN window
      PROVE  /\ a \in CheckFailures(window, Latest) <=> pos[a] \in FailedIn(Latest.call)
             /\ window[a].state = log[pos[a]].state
  BY <1>1 DEF Alike, CheckFailures, FailedIn, Seen
<1> QED BY <1>1, <1>2 DEF CheckFailures, FailedIn

\* When the guard sees that a check goes round, it does.
LEMMA RoundSeen ==
    GuardTypes => \A pos \in [DOMAIN window -> DOMAIN log] :
        JustSeen(pos) /\ Oscillates(window, Latest) => GoesRound
<1> SUFFICES ASSUME GuardTypes, NEW pos \in [DOMAIN window -> DOMAIN log], JustSeen(pos),
                    Oscillates(window, Latest)
             PROVE  GoesRound
  OBVIOUS
<1> DEFINE F == CheckFailures(window, Latest)
<1>1. /\ DOMAIN window \subseteq Nat /\ F \subseteq DOMAIN window
      /\ \A a, b \in DOMAIN window : a < b <=> pos[a] < pos[b]
      /\ \A a \in DOMAIN window : pos[a] \in Nat
  BY JustSeenIs DEF CheckFailures
<1>2. /\ \A a \in F : pos[a] \in FailedIn(Latest.call) /\ window[a].state = log[pos[a]].state
      /\ \A i \in FailedIn(Latest.call) : \E a \in F : i = pos[a]
  BY FailedIs
<1>3. PICK t \in [1..5 -> F] :
               /\ \A k \in 1..4 : t[k] < t[k + 1]
               /\ \A k \in 1..3 : window[t[k]].state = window[t[k + 2]].state
               /\ window[t[1]].state # window[t[2]].state
               /\ \A i \in F : t[1] <= i => window[i].state \in {window[t[1]].state, window[t[2]].state}
  BY <1>1, OscillationTurns
<1>4. Latest.call \in Checks
  BY DEF Oscillates
<1> HIDE DEF F
<1>5. PICK p : p = [k \in 1..5 |-> pos[t[k]]]
  OBVIOUS
<1>6. /\ p \in [1..5 -> FailedIn(Latest.call)]
      /\ \A k \in 1..5 : t[k] \in F /\ p[k] = pos[t[k]] /\ log[p[k]].state = window[t[k]].state
  BY <1>2, <1>5
<1>7. ToAndFro(log, p)
  <2>1. \A k \in 1..4 : k \in 1..5 /\ k + 1 \in 1..5
    OBVIOUS
  <2>2. \A k \in 1..4 : p[k] < p[k + 1]
    BY <1>1, <1>3, <1>6, <2>1
  <2>3. \A k \in 1..3 : k \in 1..5 /\ k + 2 \in 1..5
    OBVIOUS
  <2>4. \A k \in 1..3 : log[p[k]].state = log[p[k + 2]].state
    BY <1>3, <1>6, <2>3
  <2>5. log[p[1]].state # log[p[2]].state
    BY <1>3, <1>6
  <2> QED BY <2>2, <2>4, <2>5 DEF ToAndFro
<1>8. ASSUME NEW i \in FailedIn(Latest.call) \cap p[1]..p[5]
      PROVE  log[i].state \in {log[p[1]].state, log[p[2]].state}
  <2>1. PICK a \in F : i = pos[a]
    BY <1>2
  <2>2. t[1] \in F /\ p[1] = pos[t[1]] /\ ~(a < t[1])
    BY <1>1, <1>6, <2>1
  <2>3. t[1] <= a
    BY <1>1, <2>1, <2>2
  <2> QED BY <1>2, <1>3, <1>6, <2>1, <2>3
<1> QED BY <1>4, <1>6, <1>7, <1>8, GoesRoundIs

\* When a check goes round up to the last observation, the guard sees it.
LEMMA RoundTold ==
    GuardTypes => \A pos \in [DOMAIN window -> DOMAIN log] : JustSeen(pos) =>
        \A c \in Checks : \A p \in [1..5 -> FailedIn(c)] :
            /\ ToAndFro(log, p) /\ p[5] = Len(log)
            /\ \A i \in FailedIn(c) \cap p[1]..p[5] :
                   log[i].state \in {log[p[1]].state, log[p[2]].state}
            => Seen(Latest) /\ Latest.kind = "failure" /\ Oscillates(window, Latest)
<1> SUFFICES ASSUME GuardTypes, NEW pos \in [DOMAIN window -> DOMAIN log], JustSeen(pos),
                    NEW c \in Checks, NEW p \in [1..5 -> FailedIn(c)],
                    ToAndFro(log, p), p[5] = Len(log),
                    \A i \in FailedIn(c) \cap p[1]..p[5] :
                        log[i].state \in {log[p[1]].state, log[p[2]].state}
             PROVE  Seen(Latest) /\ Latest.kind = "failure" /\ Oscillates(window, Latest)
  OBVIOUS
<1> DEFINE F == CheckFailures(window, Latest)
           n == Len(window)
<1>1. /\ DOMAIN window \subseteq Nat /\ F \subseteq DOMAIN window
      /\ n \in DOMAIN window /\ pos[n] = Len(log) /\ \A a \in DOMAIN window : a <= n
      /\ \A a, b \in DOMAIN window : a < b <=> pos[a] < pos[b]
      /\ \A a, b \in DOMAIN window : pos[a] = pos[b] => a = b
      /\ \A a \in DOMAIN window : pos[a] \in Nat /\ pos[a] <= Len(log)
      /\ Len(log) \in Nat
      /\ Alike(window[n], log[pos[n]])
  BY JustSeenIs DEF CheckFailures, JustSeen
<1>2. /\ Latest.kind = "failure" /\ Latest.call = c /\ Seen(Latest)
  <2>1. p[5] \in FailedIn(c)
    OBVIOUS
  <2>2. Alike(Latest, log[p[5]])
    BY <1>1 DEF Latest
  <2> QED BY <2>1, <2>2 DEF FailedIn, Alike, Seen
<1>3. /\ \A a \in F : pos[a] \in FailedIn(c) /\ window[a].state = log[pos[a]].state
      /\ \A i \in FailedIn(c) : \E a \in F : i = pos[a]
  BY <1>2, FailedIs
<1> HIDE DEF F, n
<1>4. PICK t : t = [k \in 1..5 |-> CHOOSE a \in F : p[k] = pos[a]]
  OBVIOUS
<1>5. ASSUME NEW k \in 1..5
      PROVE  t[k] \in F /\ p[k] = pos[t[k]] /\ log[p[k]].state = window[t[k]].state
  <2>1. p[k] \in FailedIn(c)
    OBVIOUS
  <2>2. t[k] \in F /\ p[k] = pos[t[k]]
    BY <1>3, <1>4, <2>1
  <2> QED BY <1>3, <2>2
<1>6. t \in [1..5 -> F]
  BY <1>4, <1>5
<1>7. ToAndFro(window, t)
  <2>1. \A k \in 1..4 : k \in 1..5 /\ k + 1 \in 1..5
    OBVIOUS
  <2>2. \A k \in 1..4 : t[k] < t[k + 1]
    BY <1>1, <1>5, <2>1 DEF ToAndFro
  <2>3. \A k \in 1..3 : k \in 1..5 /\ k + 2 \in 1..5
    OBVIOUS
  <2>4. \A k \in 1..3 : window[t[k]].state = window[t[k + 2]].state
    BY <1>5, <2>3 DEF ToAndFro
  <2>5. window[t[1]].state # window[t[2]].state
    BY <1>5 DEF ToAndFro
  <2> QED BY <2>2, <2>4, <2>5 DEF ToAndFro
<1>8. t[5] = n
  BY <1>1, <1>5
<1>9. ASSUME NEW a \in F
      PROVE  /\ a <= t[5]
             /\ t[1] <= a => window[a].state \in {window[t[1]].state, window[t[2]].state}
  <2>1. a <= t[5]
    BY <1>1, <1>8
  <2>2. ASSUME t[1] <= a PROVE window[a].state \in {window[t[1]].state, window[t[2]].state}
    <3>1. pos[a] \in FailedIn(c) /\ window[a].state = log[pos[a]].state
      BY <1>3
    <3>2. ~(pos[a] < pos[t[1]]) /\ pos[a] <= p[5]
      <4>1. t[1] \in F
        BY <1>5
      <4>2. t[1] \in Nat /\ a \in Nat /\ ~(a < t[1])
        BY <1>1, <2>2, <4>1
      <4> QED BY <1>1, <4>1, <4>2
    <3>3. pos[a] \in p[1]..p[5]
      <4>1. p[1] = pos[t[1]] /\ pos[t[1]] \in Nat /\ pos[a] \in Nat
        BY <1>1, <1>5, SMTT(30)
      <4> QED BY <1>1, <3>2, <4>1
    <3>4. log[pos[a]].state \in {log[p[1]].state, log[p[2]].state}
      BY <3>1, <3>3
    <3> QED BY <1>5, <3>1, <3>4
  <2> QED BY <2>1, <2>2
<1>10. Oscillates(window, Latest)
  BY <1>1, <1>2, <1>6, <1>7, <1>9, RoundOscillates DEF ToAndFro, F
<1> QED BY <1>2, <1>10

\* What the guard counts, of readings and of failures.
Counted == IF Latest.kind = "read" THEN SameReads(window, Latest)
                                   ELSE SameFailures(window, Latest)

LEMMA CountedIs ==
    GuardTypes => \A pos \in [DOMAIN window -> DOMAIN log] : JustSeen(pos) =>
        /\ \A a \in DOMAIN window : a \in Counted <=> Repeats(pos[a], Len(log))
        /\ Counted \subseteq DOMAIN window /\ IsFiniteSet(Counted) /\ Counted \in SUBSET Nat
        /\ Seen(Latest) <=> Len(window) \in Counted
<1> SUFFICES ASSUME GuardTypes, NEW pos \in [DOMAIN window -> DOMAIN log], JustSeen(pos)
             PROVE  /\ \A a \in DOMAIN window : a \in Counted <=> Repeats(pos[a], Len(log))
                    /\ Counted \subseteq DOMAIN window /\ IsFiniteSet(Counted)
                    /\ Counted \in SUBSET Nat
                    /\ Seen(Latest) <=> Len(window) \in Counted
  OBVIOUS
<1> DEFINE n == Len(window)
<1>1. /\ n \in DOMAIN window /\ pos[n] = Len(log) /\ DOMAIN window = 1..n /\ n \in Nat
      /\ \A a \in DOMAIN window : Alike(window[a], log[pos[a]]) /\ a <= n
  BY JustSeenIs DEF JustSeen
<1>2. Counted \subseteq DOMAIN window
  BY DEF Counted, SameReads, SameFailures
<1>3. IsFiniteSet(Counted) /\ Counted \in SUBSET Nat
  <2>1. IsFiniteSet(1..n)
    BY <1>1, FS_Interval
  <2> QED BY <1>1, <1>2, <2>1, FS_Subset
<1>4. ASSUME NEW a \in DOMAIN window
      PROVE  a \in Counted <=> Repeats(pos[a], Len(log))
  <2>1. Alike(window[a], log[pos[a]]) /\ Alike(Latest, log[Len(log)])
    BY <1>1 DEF Latest
  <2>2. a \in SameFailures(window, Latest) <=> Same(pos[a], Len(log))
    BY <2>1 DEF SameFailures, Same, Alike, Seen
  <2>3. (window[a].epoch = Latest.epoch) <=> Untouched(pos[a], Len(log))
    BY <1>1 DEF JustSeen, Mirrors, Latest, Untouched, Unbroken
  <2>4. Latest.kind = log[Len(log)].kind
    BY <2>1 DEF Alike
  <2> QED BY <2>2, <2>3, <2>4 DEF Counted, SameReads, Repeats
<1>5. Seen(Latest) <=> n \in Counted
  BY <1>1 DEF Counted, SameReads, SameFailures, Latest, Alike
<1> QED BY <1>2, <1>3, <1>4, <1>5

\* What repeats itself is counted: the bounds of the count say how often.
LEMMA CountIs ==
    GuardTypes => \A pos \in [DOMAIN window -> DOMAIN log] : JustSeen(pos) =>
        LET l == Len(log)
            alike == Cardinality(Counted)
        IN  /\ \A i \in Recent : Repeats(i, l) => Seen(Latest)
            /\ \A j \in Recent : j < l /\ Repeats(j, l) =>
                  /\ alike \in Nat /\ alike >= 2
                  /\ \A i \in Recent : i < j /\ Repeats(i, l) =>
                        /\ alike >= 3
                        /\ \A h \in Recent : h < i /\ Repeats(h, l) => alike >= 4
            /\ Seen(Latest) /\ alike >= 3 =>
                  \E i, j \in Recent : i < j /\ j < l /\ Repeats(i, l) /\ Repeats(j, l)
            /\ Seen(Latest) /\ alike >= 4 =>
                  \E h, i, j \in Recent : /\ h < i /\ i < j /\ j < l
                                          /\ Repeats(h, l) /\ Repeats(i, l) /\ Repeats(j, l)
<1> SUFFICES ASSUME GuardTypes, NEW pos \in [DOMAIN window -> DOMAIN log], JustSeen(pos)
    PROVE
        LET l == Len(log)
            alike == Cardinality(Counted)
        IN  /\ \A i \in Recent : Repeats(i, l) => Seen(Latest)
            /\ \A j \in Recent : j < l /\ Repeats(j, l) =>
                  /\ alike \in Nat /\ alike >= 2
                  /\ \A i \in Recent : i < j /\ Repeats(i, l) =>
                        /\ alike >= 3
                        /\ \A h \in Recent : h < i /\ Repeats(h, l) => alike >= 4
            /\ Seen(Latest) /\ alike >= 3 =>
                  \E i, j \in Recent : i < j /\ j < l /\ Repeats(i, l) /\ Repeats(j, l)
            /\ Seen(Latest) /\ alike >= 4 =>
                  \E h, i, j \in Recent : /\ h < i /\ i < j /\ j < l
                                          /\ Repeats(h, l) /\ Repeats(i, l) /\ Repeats(j, l)
  OBVIOUS
<1> DEFINE l == Len(log)
           n == Len(window)
           alike == Cardinality(Counted)
<1>1. /\ n \in DOMAIN window /\ pos[n] = l /\ DOMAIN window = 1..n /\ n \in Nat
      /\ \A a \in DOMAIN window : pos[a] \in Recent /\ a <= n
      /\ \A i \in Recent : \E a \in DOMAIN window : i = pos[a]
      /\ \A a, b \in DOMAIN window : a < b <=> pos[a] < pos[b]
      /\ Alike(Latest, log[l])
  BY JustSeenIs DEF JustSeen, Latest
<1>2. /\ \A a \in DOMAIN window : a \in Counted <=> Repeats(pos[a], l)
      /\ Counted \subseteq DOMAIN window /\ IsFiniteSet(Counted) /\ Counted \in SUBSET Nat
      /\ Seen(Latest) <=> n \in Counted
  BY CountedIs
<1> HIDE DEF l, n
<1>3. ASSUME NEW i \in Recent, Repeats(i, l) PROVE Seen(Latest)
  <2>1. log[i].state # Unseen /\ log[i].state = log[l].state
    BY <1>3 DEF Repeats, Same, Alike
  <2> QED BY <1>1, <2>1 DEF Alike, Seen
<1>4. ASSUME NEW j \in Recent, j < l, Repeats(j, l)
      PROVE  /\ alike \in Nat /\ alike >= 2
             /\ \A i \in Recent : i < j /\ Repeats(i, l) =>
                   /\ alike >= 3
                   /\ \A h \in Recent : h < i /\ Repeats(h, l) => alike >= 4
  <2>1. n \in Counted
    BY <1>2, <1>3, <1>4
  <2>2. PICK b \in DOMAIN window : j = pos[b]
    BY <1>1
  <2>3. b \in Counted /\ b < n
    BY <1>1, <1>2, <1>4, <2>2
  <2>4. /\ alike \in Nat /\ alike >= 2
        /\ \A x \in Counted : x < b => alike >= 3
        /\ \A x, y \in Counted : x < y /\ y < b => alike >= 4
    BY <1>2, <2>1, <2>3, AtLeast
  <2> HIDE DEF alike
  <2>5. ASSUME NEW i \in Recent, i < j, Repeats(i, l)
        PROVE  alike >= 3 /\ \A h \in Recent : h < i /\ Repeats(h, l) => alike >= 4
    <3>1. PICK a \in DOMAIN window : i = pos[a]
      BY <1>1
    <3>2. a \in Counted /\ a < b
      BY <1>1, <1>2, <2>2, <2>5, <3>1
    <3>3. ASSUME NEW h \in Recent, h < i, Repeats(h, l) PROVE alike >= 4
      <4>1. PICK x \in DOMAIN window : h = pos[x]
        BY <1>1
      <4>2. x \in Counted /\ x < a
        BY <1>1, <1>2, <3>1, <3>3, <4>1
      <4> QED BY <2>4, <3>2, <4>2
    <3> QED BY <2>4, <3>2, <3>3
  <2> QED BY <2>4, <2>5
<1>5. ASSUME Seen(Latest), alike >= 3
      PROVE  \E i, j \in Recent : i < j /\ j < l /\ Repeats(i, l) /\ Repeats(j, l)
  <2>1. PICK a \in Counted, b \in Counted, c \in Counted : a < b /\ b < c
    BY <1>2, <1>5, Ascending
  <2>2. b < n
    BY <1>1, <1>2, <2>1
  <2> QED BY <1>1, <1>2, <2>1, <2>2
<1>6. ASSUME Seen(Latest), alike >= 4
      PROVE  \E h, i, j \in Recent : /\ h < i /\ i < j /\ j < l
                                     /\ Repeats(h, l) /\ Repeats(i, l) /\ Repeats(j, l)
  <2>1. PICK x \in Counted, a \in Counted, b \in Counted, c \in Counted : x < a /\ a < b /\ b < c
    BY <1>2, <1>6, Ascending
  <2>2. b < n
    BY <1>1, <1>2, <2>1
  <2> QED BY <1>1, <1>2, <2>1, <2>2
<1> QED BY <1>3, <1>4, <1>5, <1>6 DEF l
-----------------------------------------------------------------------------
(* The guard is right *)

\* j repeats i in the history h.
Again(h, i, j) ==
    /\ h[i].state # Unseen /\ Alike(h[i], h[j])
    /\ h[j].kind = "read" => Unbroken(h, i, j)

Sees == \E pos \in [DOMAIN window -> DOMAIN log] : JustSeen(pos)

\* The last observation repeats two earlier ones, or three.
Twice ==
    \E i, j \in Recent : /\ i < j /\ j < Len(log)
                         /\ Again(log, i, Len(log)) /\ Again(log, j, Len(log))
ThreeTimes ==
    \E h, i, j \in Recent : /\ h < i /\ i < j /\ j < Len(log) /\ Again(log, h, Len(log))
                            /\ Again(log, i, Len(log)) /\ Again(log, j, Len(log))

\* A check goes round up to the last observation.
RoundNow ==
    \E c \in Checks : \E p \in [1..5 -> FailedIn(c)] :
        /\ ToAndFro(log, p) /\ p[5] = Len(log)
        /\ \A i \in FailedIn(c) \cap p[1]..p[5] :
               log[i].state \in {log[p[1]].state, log[p[2]].state}

RightlyJudged ==
    LET says == Decision(window, Latest)
        kind == log[Len(log)].kind
    IN  /\ says = "stop" => GoesRound \/ ((FailedThrice \/ ReadInVain) /\ Twice)
        /\ says # "stop" =>
              /\ ~RoundNow /\ ~(kind = "failure" /\ Twice) /\ ~(kind = "read" /\ ThreeTimes)
              /\ \A i \in Recent : i < Len(log) /\ Again(log, i, Len(log)) => says = "warn" \/ Twice

LEMMA RepeatsIs == \A i, j : Repeats(i, j) <=> Again(log, i, j)
BY DEF Repeats, Again, Same, Untouched, Unbroken

LEMMA Judged == GuardTypes /\ Sees => RightlyJudged
<1> SUFFICES ASSUME GuardTypes, Sees PROVE RightlyJudged
  OBVIOUS
<1>1. PICK pos \in [DOMAIN window -> DOMAIN log] : JustSeen(pos)
  BY DEF Sees
<1> DEFINE alike == Cardinality(Counted)
           l == Len(log)
           limit == IF Latest.kind = "read" THEN 4 ELSE 3
           circling == Latest.kind = "failure" /\ Oscillates(window, Latest)
           says == Decision(window, Latest)
<1>2. /\ Len(window) \in DOMAIN window /\ pos[Len(window)] = l /\ l \in Recent /\ l \in Nat
      /\ Latest.kind = log[l].kind /\ Latest.kind \in ObservedKinds
  <2>1. Alike(Latest, log[l]) /\ pos[Len(window)] = l
    BY <1>1, JustSeenIs DEF Latest, JustSeen
  <2> QED BY <1>1, <2>1, JustSeenIs DEF Latest, Alike
<1>3. /\ \A i \in Recent : Again(log, i, l) => Seen(Latest)
      /\ \A j \in Recent : j < l /\ Again(log, j, l) =>
            /\ alike \in Nat /\ alike >= 2
            /\ \A i \in Recent : i < j /\ Again(log, i, l) =>
                  /\ alike >= 3
                  /\ \A h \in Recent : h < i /\ Again(log, h, l) => alike >= 4
      /\ Seen(Latest) /\ alike >= 3 =>
            \E i, j \in Recent : i < j /\ j < l /\ Again(log, i, l) /\ Again(log, j, l)
      /\ Seen(Latest) /\ alike >= 4 =>
            \E h, i, j \in Recent : /\ h < i /\ i < j /\ j < l
                                    /\ Again(log, h, l) /\ Again(log, i, l) /\ Again(log, j, l)
  BY <1>1, CountIs, RepeatsIs
<1>4. /\ says = "stop" => Seen(Latest) /\ (circling \/ alike >= limit)
      /\ says # "stop" => ~Seen(Latest) \/ (~circling /\ ~(alike >= limit))
      /\ says # "stop" /\ alike = 2 => ~Seen(Latest) \/ says = "warn"
  BY DecisionIs DEF Counted
<1>5. circling => GoesRound
  BY <1>1, RoundSeen
<1>6. RoundNow => Seen(Latest) /\ circling
  BY <1>1, RoundTold DEF RoundNow
<1> HIDE DEF alike, l, circling, says
<1>7. ASSUME Seen(Latest), alike >= limit PROVE (FailedThrice \/ ReadInVain) /\ Twice
  <2>1. CASE Latest.kind = "read"
    <3>1. alike >= 4
      BY <1>7, <2>1
    <3>2. PICK h \in Recent, i \in Recent, j \in Recent :
              /\ h < i /\ i < j /\ j < l
              /\ Again(log, h, l) /\ Again(log, i, l) /\ Again(log, j, l)
      BY <1>3, <1>7, <3>1
    <3>3. Same(h, l) /\ Same(i, l) /\ Same(j, l) /\ Untouched(h, l) /\ log[l].kind = "read"
      BY <1>2, <2>1, <3>2 DEF Again, Same, Untouched, Unbroken
    <3>4. ReadInVain
      BY <1>2, <3>2, <3>3 DEF ReadInVain
    <3>5. Twice
      BY <3>2 DEF Twice, l
    <3> QED BY <3>4, <3>5
  <2>2. CASE Latest.kind = "failure"
    <3>1. alike >= 3
      BY <1>7, <2>2
    <3>2. PICK i \in Recent, j \in Recent :
              i < j /\ j < l /\ Again(log, i, l) /\ Again(log, j, l)
      BY <1>3, <1>7, <3>1
    <3>3. Same(i, l) /\ Same(j, l) /\ log[l].kind = "failure"
      BY <1>2, <2>2, <3>2 DEF Again, Same
    <3>4. FailedThrice
      BY <1>2, <3>2, <3>3 DEF FailedThrice
    <3>5. Twice
      BY <3>2 DEF Twice, l
    <3> QED BY <3>4, <3>5
  <2> QED BY <1>2, <2>1, <2>2 DEF ObservedKinds
<1>8. ASSUME says # "stop", Twice, log[l].kind = "failure" PROVE FALSE
  <2>1. PICK i \in Recent, j \in Recent :
            i < j /\ j < l /\ Again(log, i, l) /\ Again(log, j, l)
    BY <1>8 DEF Twice, l
  <2>2. Seen(Latest) /\ alike >= 3
    BY <1>3, <2>1
  <2>3. limit = 3
    BY <1>2, <1>8
  <2> QED BY <1>4, <1>8, <2>2, <2>3
<1>9. ASSUME says # "stop", ThreeTimes, log[l].kind = "read" PROVE FALSE
  <2>1. PICK h \in Recent, i \in Recent, j \in Recent :
            /\ h < i /\ i < j /\ j < l
            /\ Again(log, h, l) /\ Again(log, i, l) /\ Again(log, j, l)
    BY <1>9 DEF ThreeTimes, l
  <2>2. Seen(Latest) /\ alike >= 4
    BY <1>3, <2>1
  <2>3. limit = 4
    BY <1>2, <1>9
  <2> QED BY <1>4, <1>9, <2>2, <2>3
<1>10. ASSUME says # "stop", NEW i \in Recent, i < l, Again(log, i, l)
       PROVE  says = "warn" \/ Twice
  <2>1. Seen(Latest) /\ alike \in Nat /\ alike >= 2
    BY <1>3, <1>10
  <2>2. CASE alike = 2
    BY <1>4, <1>10, <2>1, <2>2
  <2>3. CASE alike >= 3
    BY <1>3, <2>1, <2>3 DEF Twice, l
  <2> QED BY <2>1, <2>2, <2>3
<1>11. says = "stop" => GoesRound \/ ((FailedThrice \/ ReadInVain) /\ Twice)
  BY <1>4, <1>5, <1>7
<1>12. says # "stop" => ~RoundNow
  BY <1>4, <1>6
<1> QED BY <1>8, <1>9, <1>10, <1>11, <1>12 DEF RightlyJudged, says, l

LEMMA AgainMore ==
    ASSUME NEW h, NEW i \in Nat, NEW j \in Nat, NEW l \in Nat, i <= j, j <= l
    PROVE  /\ Again(h, i, l) /\ Again(h, j, l) => Again(h, i, j)
           /\ Again(h, i, j) /\ Again(h, j, l) => Again(h, i, l)
           /\ Again(h, i, l) => h[l].state # Unseen
<1>1. Alike(h[i], h[l]) => h[l].state = h[i].state
  BY DEF Alike
<1>2. Alike(h[i], h[l]) /\ Alike(h[j], h[l]) => Alike(h[i], h[j]) /\ h[j].kind = h[l].kind
  BY DEF Alike
<1>3. Alike(h[i], h[j]) /\ Alike(h[j], h[l]) => Alike(h[i], h[l]) /\ h[j].kind = h[l].kind
  BY DEF Alike
<1>4. i..l = i..j \cup j..l
  OBVIOUS
<1>5. Unbroken(h, i, l) <=> Unbroken(h, i, j) /\ Unbroken(h, j, l)
  BY <1>4 DEF Unbroken
<1> QED BY <1>1, <1>2, <1>3, <1>5 DEF Again

LEMMA ObserveKeeps ==
    ASSUME GuardInv, NEW state \in States, Observe(state), left' \in [Things -> Nat]
    PROVE  GuardInv'
<1>1. PICK o : o = Observation(state)
  OBVIOUS
<1>2. PICK l : l = Len(log) + 1
  OBVIOUS
<1>3. PICK pos \in [DOMAIN window -> DOMAIN log] : Mirrors(pos)
  BY DEF GuardInv
<1>4. PICK then \in [DOMAIN window' -> DOMAIN log'] :
               /\ Mirrors(then)' /\ then[Len(window')] = l
               /\ \A i \in Recent' : i = l \/ i \in Recent
               /\ \A i \in Recent, j \in Recent' : j <= i => i \in Recent'
               /\ l \in Recent'
  BY <1>1, <1>2, <1>3, MirrorsThen
<1>5. /\ phase = "scanning" /\ window' = Appended(o) /\ o \in Observations
      /\ \/ Decision(window', o) = "stop" /\ phase' = "stopped"
         \/ Decision(window', o) # "stop" /\ phase' = "running"
         \/ phase' = "over"
      /\ Len(log') = l /\ log'[l].said = Decision(window', o) /\ GuardTypes'
  BY <1>1, <1>2, Scanned
<1>6. /\ GuardTypes /\ DOMAIN log = 1..Len(log) /\ Len(log) \in Nat /\ l \in Nat
      /\ Noticed \in SUBSET DOMAIN log /\ Recent \in SUBSET Noticed
      /\ \A i \in Recent : i \in DOMAIN log /\ i \in Nat /\ i < l
  BY <1>2, NoticedIs DEF GuardInv, Recent
<1>7. PICK r \in Records : log' = Append(log, r) /\ r.kind \in ObservedKinds
  BY <1>1, <1>2, Scanned
<1>8. /\ Noticed' = Noticed \cup {l}
      /\ \A i \in DOMAIN log : log'[i] = log[i]
      /\ \A i, j \in DOMAIN log :
             /\ Unbroken(log', i, j) <=> Unbroken(log, i, j)
             /\ Untouched(i, j)' <=> Untouched(i, j)
             /\ Same(i, j)' <=> Same(i, j)
             /\ Repeats(i, j)' <=> Repeats(i, j)
  BY <1>2, <1>6, <1>7, LogGrows
<1>9. Latest' = o /\ window' # <<>>
  <2>1. window'[Len(window')] = o /\ Len(window') # 0
    BY <1>5, <1>6, AppendedIs
  <2> QED BY <2>1 DEF Latest
<1>10. RightlyJudged'
  <2>1. JustSeen(then)'
    BY <1>4, <1>5, <1>9 DEF JustSeen
  <2>2. Sees'
    BY <2>1 DEF Sees
  <2>3. (GuardTypes /\ Sees => RightlyJudged)'
    BY Judged, PTL
  <2> QED BY <1>5, <2>2, <2>3
<1>11. /\ Decision(window', o) = "stop" => GoesRound' \/ ((FailedThrice' \/ ReadInVain') /\ Twice')
       /\ Decision(window', o) # "stop" =>
             /\ ~RoundNow' /\ ~(log'[l].kind = "failure" /\ Twice')
             /\ ~(log'[l].kind = "read" /\ ThreeTimes')
             /\ \A i \in Recent' : i < l /\ Again(log', i, l) => Decision(window', o) = "warn" \/ Twice'
  BY <1>5, <1>9, <1>10 DEF RightlyJudged
<1>12. /\ Twice' <=> \E i, j \in Recent' :
              i < j /\ j < l /\ Again(log', i, l) /\ Again(log', j, l)
       /\ ThreeTimes' <=> \E h, i, j \in Recent' :
              /\ h < i /\ i < j /\ j < l
              /\ Again(log', h, l) /\ Again(log', i, l) /\ Again(log', j, l)
  BY <1>5 DEF Twice, ThreeTimes
<1>13. \A i, j : Repeats(i, j)' <=> Again(log', i, j)
  BY DEF Repeats, Again, Same, Untouched, Unbroken, Alike, ObservedKinds
<1>14. Warned
  BY <1>5 DEF GuardInv, GoesOn
<1>15. ASSUME Twice' PROVE \E k \in Noticed : log'[k].said = "warn" /\ Again(log', k, l)
  <2>1. PICK i \in Recent', j \in Recent' :
            i < j /\ j < l /\ Again(log', i, l) /\ Again(log', j, l)
    BY <1>12, <1>15
  <2>2. i \in Recent /\ j \in Recent
    BY <1>4, <1>6, <2>1
  <2>3. i \in Nat /\ j \in Nat /\ l \in Nat /\ i <= j /\ j <= l
    BY <1>6, <2>1, <2>2
  <2>4. Again(log', i, j)
    BY <2>1, <2>3, AgainMore
  <2>5. Repeats(i, j)
    BY <1>6, <1>8, <1>13, <2>2, <2>4
  <2>6. PICK k \in Noticed : k <= j /\ log[k].said = "warn" /\ Repeats(k, j)
    BY <1>14, <2>1, <2>2, <2>5 DEF Warned
  <2>7. k \in DOMAIN log /\ k \in Nat
    BY <1>6
  <2>8. Again(log', k, j) /\ log'[k].said = "warn"
    BY <1>6, <1>8, <1>13, <2>2, <2>6, <2>7
  <2>9. Again(log', k, l)
    BY <2>1, <2>3, <2>6, <2>7, <2>8, AgainMore
  <2> QED BY <2>8, <2>9
<1>16. CASE phase' = "stopped" /\ Decision(window', o) = "stop"
  <2>1. GoesRound' \/ ((FailedThrice' \/ ReadInVain') /\ Twice')
    BY <1>11, <1>16
  <2>2. ASSUME Twice' PROVE Announced'
    <3>1. PICK k \in Noticed : log'[k].said = "warn" /\ Again(log', k, l)
      BY <1>15, <2>2
    <3>2. k \in Noticed' /\ k # l
      BY <1>2, <1>6, <1>8
    <3>3. Announced' <=> \E j \in Noticed' \ {l} : log'[j].said = "warn" /\ Again(log', j, l)
      BY <1>5 DEF Announced, Repeats, Again, Same, Untouched, Unbroken, Alike, ObservedKinds
    <3> QED BY <3>1, <3>2, <3>3
  <2>3. StopsWhenStuck'
    BY <1>16, <2>1, <2>2 DEF StopsWhenStuck
  <2> QED BY <1>4, <1>5, <1>16, <2>3 DEF GuardInv, GoesOn
<1>17. CASE phase' = "running" /\ Decision(window', o) # "stop"
  <2>1. /\ ~GoesRound /\ ~FailedThrice /\ ~ReadInVain
    BY <1>5 DEF GuardInv, StopsWhenStuck
  <2>2. /\ ~RoundNow' /\ ~(log'[l].kind = "failure" /\ Twice')
        /\ ~(log'[l].kind = "read" /\ ThreeTimes')
        /\ \A i \in Recent' : i < l /\ Again(log', i, l) => Decision(window', o) = "warn" \/ Twice'
    BY <1>11, <1>17
  <2>3. \A i \in Recent' : i = l \/ (i \in Recent /\ i < l /\ i \in DOMAIN log /\ i \in Nat)
    BY <1>4, <1>6
  <2>4. ~FailedThrice'
    <3> SUFFICES ASSUME FailedThrice' PROVE FALSE
      OBVIOUS
    <3>1. PICK i \in Recent', j \in Recent', k \in Recent' :
              /\ i < j /\ j < k /\ log'[k].kind = "failure" /\ Same(i, k)' /\ Same(j, k)'
      BY DEF FailedThrice
    <3>2. i # l /\ j # l
      BY <1>6, <2>3, <3>1
    <3>3. CASE k = l
      <4>1. Again(log', i, l) /\ Again(log', j, l)
        BY <3>1, <3>3 DEF Again, Same, Alike
      <4>2. Twice'
        BY <1>12, <3>1, <3>3, <4>1
      <4> QED BY <2>2, <3>1, <3>3, <4>2
    <3>4. CASE k # l
      <4>1. i \in Recent /\ j \in Recent /\ k \in Recent
        BY <2>3, <3>2, <3>4
      <4>2. log[k].kind = "failure" /\ Same(i, k) /\ Same(j, k)
        BY <1>6, <1>8, <3>1, <4>1
      <4> QED BY <2>1, <3>1, <4>1, <4>2 DEF FailedThrice
    <3> QED BY <3>3, <3>4
  <2>5. ~ReadInVain'
    <3> SUFFICES ASSUME ReadInVain' PROVE FALSE
      OBVIOUS
    <3>1. PICK h \in Recent', i \in Recent', j \in Recent', k \in Recent' :
              /\ h < i /\ i < j /\ j < k /\ log'[k].kind = "read"
              /\ Same(h, k)' /\ Same(i, k)' /\ Same(j, k)' /\ Untouched(h, k)'
      BY DEF ReadInVain
    <3>2. h # l /\ i # l /\ j # l
      BY <1>6, <2>3, <3>1
    <3>3. CASE k = l
      <4>1. /\ h \in Nat /\ i \in Nat /\ j \in Nat /\ l \in Nat /\ h < i /\ i < j /\ j < l
        BY <1>6, <2>3, <3>1, <3>2, <3>3
      <4>2. Unbroken(log', h, l)
        BY <3>1, <3>3 DEF Untouched, Unbroken, ObservedKinds
      <4>3. h..l = h..i \cup i..l /\ h..l = h..j \cup j..l
        BY <4>1
      <4>4. Unbroken(log', i, l) /\ Unbroken(log', j, l)
        BY <4>2, <4>3 DEF Unbroken
      <4>5. Again(log', h, l) /\ Again(log', i, l) /\ Again(log', j, l)
        BY <3>1, <3>3, <4>2, <4>4 DEF Again, Same, Alike
      <4>6. ThreeTimes'
        BY <1>12, <4>1, <4>5
      <4> QED BY <2>2, <3>1, <3>3, <4>6
    <3>4. CASE k # l
      <4>1. h \in Recent /\ i \in Recent /\ j \in Recent /\ k \in Recent
        BY <2>3, <3>2, <3>4
      <4>2. /\ log[k].kind = "read" /\ Same(h, k) /\ Same(i, k) /\ Same(j, k)
            /\ Untouched(h, k)
        BY <1>6, <1>8, <3>1, <4>1
      <4> QED BY <2>1, <3>1, <4>1, <4>2 DEF ReadInVain
    <3> QED BY <3>3, <3>4
  <2>6. ~GoesRound'
    <3> SUFFICES ASSUME GoesRound' PROVE FALSE
      OBVIOUS
    <3>1. (GoesRound <=> \E c \in Checks : \E p \in [1..5 -> FailedIn(c)] :
                      /\ ToAndFro(log, p)
                      /\ \A i \in FailedIn(c) \cap p[1]..p[5] :
                             log[i].state \in {log[p[1]].state, log[p[2]].state})'
      BY GoesRoundIs, PTL
    <3>2. PICK c \in Checks : \E p \in [1..5 -> FailedIn(c)'] :
                      /\ ToAndFro(log', p)
                      /\ \A i \in FailedIn(c)' \cap p[1]..p[5] :
                             log'[i].state \in {log'[p[1]].state, log'[p[2]].state}
      BY <3>1
    <3>3. PICK p \in [1..5 -> FailedIn(c)'] :
                      /\ ToAndFro(log', p)
                      /\ \A i \in FailedIn(c)' \cap p[1]..p[5] :
                             log'[i].state \in {log'[p[1]].state, log'[p[2]].state}
      BY <3>2
    <3>4. CASE p[5] = l
      <4>1. RoundNow'
        BY <1>5, <3>3, <3>4 DEF RoundNow
      <4> QED BY <2>2, <4>1
    <3>5. CASE p[5] # l
      <4>1. /\ p[1] \in FailedIn(c)' /\ p[2] \in FailedIn(c)' /\ p[3] \in FailedIn(c)'
            /\ p[4] \in FailedIn(c)' /\ p[5] \in FailedIn(c)'
        BY <3>3
      <4>2. FailedIn(c)' = {i \in Recent' : /\ log'[i].kind = "failure" /\ log'[i].call = c
                                            /\ log'[i].state # Unseen}
        BY DEF FailedIn
      <4>3. p[1] < p[2] /\ p[2] < p[3] /\ p[3] < p[4] /\ p[4] < p[5]
        <5>1. p[1] < p[1 + 1] /\ p[2] < p[2 + 1] /\ p[3] < p[3 + 1] /\ p[4] < p[4 + 1]
          BY <3>3 DEF ToAndFro
        <5> QED BY <5>1
      <4>4. p[5] \in Recent /\ p[5] < l /\ p[5] \in Nat
        BY <2>3, <3>5, <4>1, <4>2
      <4>5. \A k \in 1..5 : p[k] \in FailedIn(c)' /\ p[k] < l
        <5>1. \A k \in 1..5 : k = 1 \/ k = 2 \/ k = 3 \/ k = 4 \/ k = 5
          OBVIOUS
        <5>2. p[1] \in Nat /\ p[2] \in Nat /\ p[3] \in Nat /\ p[4] \in Nat /\ l \in Nat
          BY <1>6, <2>3, <4>1, <4>2
        <5>3. p[4] < l /\ p[3] < l /\ p[2] < l /\ p[1] < l
          BY <4>3, <4>4, <5>2
        <5> QED BY <4>1, <4>4, <5>1, <5>3
      <4>6. \A k \in 1..5 : p[k] \in FailedIn(c) /\ log'[p[k]] = log[p[k]]
        <5> SUFFICES ASSUME NEW k \in 1..5 PROVE p[k] \in FailedIn(c) /\ log'[p[k]] = log[p[k]]
          OBVIOUS
        <5>1. p[k] \in Recent' /\ p[k] # l
          BY <1>6, <4>2, <4>5
        <5>2. p[k] \in Recent /\ p[k] \in DOMAIN log
          BY <2>3, <5>1
        <5> QED BY <1>8, <4>2, <4>5, <5>2 DEF FailedIn
      <4>7. p \in [1..5 -> FailedIn(c)]
        BY <4>6
      <4>8. ToAndFro(log, p)
        <5>1. \A k \in 1..3 : k \in 1..5 /\ k + 2 \in 1..5
          OBVIOUS
        <5> QED BY <3>3, <4>6, <5>1 DEF ToAndFro
      <4>9. ASSUME NEW i \in FailedIn(c) \cap p[1]..p[5]
            PROVE  log[i].state \in {log[p[1]].state, log[p[2]].state}
        <5>1. i \in Recent /\ p[1] \in Recent' /\ p[1] <= i
          BY <4>1, <4>2 DEF FailedIn
        <5>2. i \in Recent' /\ log'[i] = log[i]
          BY <1>4, <1>6, <1>8, <5>1
        <5>3. i \in FailedIn(c)'
          BY <4>2, <5>2 DEF FailedIn
        <5> QED BY <3>3, <4>6, <5>2, <5>3
      <4> QED BY <2>1, <4>7, <4>8, <4>9, GoesRoundIs
    <3> QED BY <3>4, <3>5
  <2>7. Warned'
    <3> SUFFICES ASSUME NEW i \in Recent', NEW j \in Recent', i < j, Repeats(i, j)'
                 PROVE  \E k \in Noticed' : k <= j /\ log'[k].said = "warn" /\ Repeats(k, j)'
      BY DEF Warned
    <3>1. i # l /\ i \in Recent /\ i \in Nat /\ i < l
      BY <1>6, <2>3
    <3>2. CASE j = l
      <4>1. Again(log', i, l) /\ i \in Recent'
        BY <1>13, <3>2
      <4>2. CASE Decision(window', o) = "warn"
        <5>1. Again(log', l, l)
          <6>1. log'[l].state # Unseen
            BY <1>6, <3>1, <4>1, AgainMore
          <6>2. Alike(log'[l], log'[l])
            BY DEF Alike
          <6>3. log'[l].kind \in ObservedKinds
            BY <1>4, <1>5 DEF Recent, Noticed, ObservedKinds
          <6>4. \A k \in l..l : k = l
            BY <1>6
          <6> QED BY <6>1, <6>2, <6>3, <6>4 DEF Again, Unbroken
        <5>2. l \in Noticed' /\ l <= l
          BY <1>6, <1>8
        <5> QED BY <1>5, <1>13, <3>2, <4>2, <5>1, <5>2
      <4>3. CASE Twice'
        <5>1. PICK k \in Noticed : log'[k].said = "warn" /\ Again(log', k, l)
          BY <1>15, <4>3
        <5>2. k \in Noticed' /\ k <= l
          BY <1>6, <1>2, <1>8
        <5> QED BY <1>13, <3>2, <5>1, <5>2
      <4> QED BY <2>2, <3>1, <4>1, <4>2, <4>3
    <3>3. CASE j # l
      <4>1. j \in Recent /\ Repeats(i, j)
        BY <1>6, <1>8, <2>3, <3>1, <3>3
      <4>2. PICK k \in Noticed : k <= j /\ log[k].said = "warn" /\ Repeats(k, j)
        BY <1>14, <3>1, <4>1 DEF Warned
      <4> QED BY <1>6, <1>8, <4>1, <4>2
    <3> QED BY <3>2, <3>3
  <2>8. StopsWhenStuck'
    BY <1>17, <2>4, <2>5, <2>6 DEF StopsWhenStuck
  <2> QED BY <1>4, <1>5, <2>7, <2>8 DEF GuardInv
<1>18. CASE phase' = "over"
  BY <1>4, <1>5, <1>18 DEF GuardInv, GoesOn, StopsWhenStuck
<1> QED BY <1>5, <1>16, <1>17, <1>18

-----------------------------------------------------------------------------
(* The other steps *)

\* What the invariant says of the guard depends on these alone.
LEMMA NothingObserved ==
    ASSUME UNCHANGED <<window, epoch, log>>
    PROVE  /\ Noticed' = Noticed /\ Recent' = Recent
           /\ \A pos : Mirrors(pos)' <=> Mirrors(pos)
           /\ Warned' <=> Warned
           /\ GoesRound' <=> GoesRound
           /\ FailedThrice' <=> FailedThrice
           /\ ReadInVain' <=> ReadInVain
           /\ Announced' <=> Announced
<1>1. Noticed' = Noticed
  BY DEF Noticed, ObservedKinds
<1>2. Recent' = Recent
  BY <1>1 DEF Recent
<1>3. \A i, j : /\ Same(i, j)' <=> Same(i, j)
                /\ Untouched(i, j)' <=> Untouched(i, j)
                /\ Repeats(i, j)' <=> Repeats(i, j)
  BY DEF Repeats, Same, Untouched, ObservedKinds, Alike
<1>4. \A pos : Mirrors(pos)' <=> Mirrors(pos)
  BY <1>1 DEF Mirrors, Unbroken, ObservedKinds, Alike
<1>5. Warned' <=> Warned
  BY <1>1, <1>2, <1>3 DEF Warned
<1>6. GoesRound' <=> GoesRound
  BY <1>2 DEF GoesRound
<1>7. FailedThrice' <=> FailedThrice
  BY <1>2, <1>3 DEF FailedThrice
<1>8. ReadInVain' <=> ReadInVain
  BY <1>2, <1>3 DEF ReadInVain
<1>9. Announced' <=> Announced
  BY <1>1, <1>3 DEF Announced
<1> QED BY <1>1, <1>2, <1>4, <1>5, <1>6, <1>7, <1>8, <1>9

\* A step that observes nothing and forgets nothing, while the task goes on or ends.
LEMMA StillRight ==
    ASSUME GuardInv, UNCHANGED <<window, epoch, log>>, GuardTypes',
           GoesOn, GoesOn' \/ phase' = "over"
    PROVE  GuardInv'
<1>1. /\ \A pos : Mirrors(pos)' <=> Mirrors(pos)
      /\ Warned' <=> Warned
      /\ (GoesRound' <=> GoesRound) /\ (FailedThrice' <=> FailedThrice)
      /\ (ReadInVain' <=> ReadInVain) /\ (Announced' <=> Announced)
  BY NothingObserved
<1>2. \E pos \in [DOMAIN window' -> DOMAIN log'] : Mirrors(pos)'
  BY <1>1 DEF GuardInv
<1>3. StopsWhenStuck'
  BY <1>1 DEF GuardInv, StopsWhenStuck, GoesOn
<1>4. GoesOn' => Warned'
  BY <1>1 DEF GuardInv, GoesOn
<1> QED BY <1>2, <1>3, <1>4 DEF GuardInv

LEMMA UsesIs ==
    ASSUME GuardTypes, NEW thing \in Things, Uses(thing)
    PROVE  left' \in [Things -> Nat]
<1>1. left \in [Things -> Nat] /\ left[thing] \in Nat /\ left[thing] > 0
  BY DEF GuardTypes, Uses
<1>2. left[thing] - 1 \in Nat
  BY <1>1
<1> QED BY <1>1, <1>2 DEF Uses

\* A call that has to be looked at.
LEMMA BringsKeeps ==
    ASSUME GuardInv, NEW thing \in Things, Uses(thing),
           NEW kind \in ObservedKinds, NEW call \in Calls, Brings(kind, call)
    PROVE  GuardInv'
<1>1. left' \in [Things -> Nat]
  BY UsesIs DEF GuardInv
<1>2. pending' \in Fingerprints /\ pending'.kind \in ObservedKinds
  BY DEF Brings, Fingerprint, Fingerprints, GuardInv, GuardTypes
<1>3. pending' # Silence
  BY <1>2 DEF Silence, ObservedKinds
<1>4. GuardTypes'
  BY <1>1, <1>2, <1>3 DEF Brings, GuardInv, GuardTypes
<1>5. GoesOn /\ GoesOn' /\ UNCHANGED <<window, epoch, log>>
  BY DEF Brings, GoesOn
<1> QED BY <1>4, <1>5, StillRight

\* Failures at F in the history h go round, as five of them show.
RoundIn(h, F, p) ==
    /\ p \in [1..5 -> F] /\ ToAndFro(h, p)
    /\ \A i \in F \cap p[1]..p[5] : h[i].state \in {h[p[1]].state, h[p[2]].state}

\* They still do when they are not touched.
LEMMA RoundStays ==
    ASSUME NEW g, NEW h, NEW F, NEW p, RoundIn(h, F, p), \A i \in F : h[i] = g[i]
    PROVE  RoundIn(g, F, p)
<1>0. /\ p \in [1..5 -> F] /\ ToAndFro(h, p)
      /\ \A i \in F \cap p[1]..p[5] : h[i].state \in {h[p[1]].state, h[p[2]].state}
  BY DEF RoundIn
<1>1. \A k \in 1..5 : h[p[k]] = g[p[k]]
  BY <1>0
<1>2. \A k \in 1..3 : k \in 1..5 /\ k + 2 \in 1..5
  OBVIOUS
<1>3. ToAndFro(g, p)
  BY <1>0, <1>1, <1>2 DEF ToAndFro
<1> QED BY <1>0, <1>1, <1>3 DEF RoundIn

\* A change or an answer: every reading from before it counts no more.
LEMMA MarkKeeps ==
    ASSUME GuardInv, phase = "running", UNCHANGED <<phase, pending, window>>,
           disk' \in Contents, left' \in [Things -> Nat], epoch' = epoch + 1,
           NEW r \in [kind : {"change", "answer"}], log' = Append(log, r)
    PROVE  GuardInv'
<1>1. PICK l : l = Len(log) + 1
  OBVIOUS
<1>2. r \in Records /\ r.kind \notin ObservedKinds
  BY DEF Records, ObservedKinds
<1>3. /\ GuardTypes /\ DOMAIN log = 1..Len(log) /\ Len(log) \in Nat /\ l \in Nat
      /\ Noticed \in SUBSET DOMAIN log /\ Recent \in SUBSET Noticed
      /\ DOMAIN window = 1..Len(window) /\ Len(window) \in Nat
  BY <1>1, NoticedIs DEF GuardInv, Recent
<1>4. /\ log' \in Seq(Records) /\ Len(log') = l
      /\ \A i \in DOMAIN log : log'[i] = log[i]
      /\ DOMAIN log' = DOMAIN log \cup {l}
      /\ Noticed' = Noticed
      /\ \A i, j \in DOMAIN log :
             /\ Unbroken(log', i, j) <=> Unbroken(log, i, j)
             /\ Untouched(i, j)' <=> Untouched(i, j)
             /\ Same(i, j)' <=> Same(i, j)
             /\ Repeats(i, j)' <=> Repeats(i, j)
      /\ \A i \in DOMAIN log : ~Unbroken(log', i, l)
  BY <1>1, <1>2, <1>3, LogGrows
<1>5. GuardTypes'
  BY <1>3, <1>4 DEF GuardTypes
<1>6. Recent' = Recent
  BY <1>4 DEF Recent
<1>7. \A i \in Recent : i \in DOMAIN log /\ log'[i] = log[i]
  BY <1>3, <1>4
<1>8. \E pos \in [DOMAIN window' -> DOMAIN log'] : Mirrors(pos)'
  <2>1. PICK pos \in [DOMAIN window -> DOMAIN log] : Mirrors(pos)
    BY DEF GuardInv
  <2>2. /\ pos \in [DOMAIN window -> Noticed]
        /\ \A a, b \in DOMAIN window : a < b => pos[a] < pos[b]
        /\ \A a \in DOMAIN window : Alike(window[a], log[pos[a]])
        /\ \A i \in Noticed : \/ \E a \in DOMAIN window : i = pos[a]
                              \/ Len(window) = Window /\ \A a \in DOMAIN window : i < pos[a]
        /\ \A a \in DOMAIN window : window[a].epoch <= epoch
        /\ \A a, b \in DOMAIN window :
              a <= b => ((window[a].epoch = window[b].epoch) <=> Unbroken(log, pos[a], pos[b]))
    BY <2>1 DEF Mirrors
  <2>3. \A a \in DOMAIN window : /\ window[a].epoch \in Nat /\ pos[a] \in DOMAIN log
                                 /\ log'[pos[a]] = log[pos[a]]
    <3> SUFFICES ASSUME NEW a \in DOMAIN window
                 PROVE  /\ window[a].epoch \in Nat /\ pos[a] \in DOMAIN log
                        /\ log'[pos[a]] = log[pos[a]]
      OBVIOUS
    <3>1. window[a] \in Observations
      BY <1>3 DEF GuardTypes
    <3>2. pos[a] \in Noticed
      BY <2>2
    <3> QED BY <1>3, <1>4, <3>1, <3>2 DEF Observations
  <2>4. \A a \in DOMAIN window : window[a].epoch <= epoch + 1 /\ window[a].epoch # epoch + 1
    BY <1>3, <2>2, <2>3 DEF GuardTypes
  <2>5. \A a \in DOMAIN window : Alike(window[a], log'[pos[a]])
    BY <2>2, <2>3
  <2>6. \A a, b \in DOMAIN window :
            a <= b => ((window[a].epoch = window[b].epoch) <=> Unbroken(log', pos[a], pos[b]))
    BY <1>4, <2>2, <2>3
  <2>7. \A a \in DOMAIN window : ~Unbroken(log', pos[a], Len(log'))
    BY <1>4, <2>3
  <2>8. Mirrors(pos)'
    BY <1>4, <2>2, <2>4, <2>5, <2>6, <2>7 DEF Mirrors, Alike, Unbroken, ObservedKinds
  <2>9. pos \in [DOMAIN window' -> DOMAIN log']
    BY <1>4
  <2> QED BY <2>8, <2>9
<1>9. Warned'
  <2>1. Warned
    BY DEF GuardInv, GoesOn
  <2> SUFFICES ASSUME NEW i \in Recent, NEW j \in Recent, i < j, Repeats(i, j)'
               PROVE  \E k \in Noticed : k <= j /\ log'[k].said = "warn" /\ Repeats(k, j)'
    BY <1>4, <1>6 DEF Warned
  <2>2. Repeats(i, j)
    BY <1>4, <1>7
  <2>3. PICK k \in Noticed : k <= j /\ log[k].said = "warn" /\ Repeats(k, j)
    BY <2>1, <2>2 DEF Warned
  <2> QED BY <1>3, <1>4, <1>7, <2>3
<1>10. StopsWhenStuck'
  <2>1. ~GoesRound /\ ~FailedThrice /\ ~ReadInVain
    BY DEF GuardInv, StopsWhenStuck
  <2>2. ~FailedThrice'
    BY <1>4, <1>6, <1>7, <2>1 DEF FailedThrice
  <2>3. ~ReadInVain'
    BY <1>4, <1>6, <1>7, <2>1 DEF ReadInVain
  <2>4. ~GoesRound'
    <3> SUFFICES ASSUME GoesRound' PROVE FALSE
      OBVIOUS
    <3>1. (GoesRound <=> \E c \in Checks : \E p \in [1..5 -> FailedIn(c)] :
                      /\ ToAndFro(log, p)
                      /\ \A i \in FailedIn(c) \cap p[1]..p[5] :
                             log[i].state \in {log[p[1]].state, log[p[2]].state})'
      BY GoesRoundIs, PTL
    <3>2. \A c : FailedIn(c)' = FailedIn(c) /\ FailedIn(c) \in SUBSET DOMAIN log
      BY <1>3, <1>6, <1>7 DEF FailedIn
    <3>3. PICK h : h = log'
      OBVIOUS
    <3>4. PICK c \in Checks : \E p \in [1..5 -> FailedIn(c)] :
                      /\ ToAndFro(h, p)
                      /\ \A i \in FailedIn(c) \cap p[1]..p[5] :
                             h[i].state \in {h[p[1]].state, h[p[2]].state}
      BY <3>1, <3>2, <3>3
    <3>5. PICK p \in [1..5 -> FailedIn(c)] :
                      /\ ToAndFro(h, p)
                      /\ \A i \in FailedIn(c) \cap p[1]..p[5] :
                             h[i].state \in {h[p[1]].state, h[p[2]].state}
      BY <3>4
    <3>6. \A i \in DOMAIN log : h[i] = log[i]
      BY <1>4, <3>3
    <3>7. ToAndFro(log, p) /\ \A i \in FailedIn(c) \cap p[1]..p[5] :
                                  log[i].state \in {log[p[1]].state, log[p[2]].state}
      <4>1. RoundIn(h, FailedIn(c), p)
        BY <3>5 DEF RoundIn
      <4>2. \A i \in FailedIn(c) : h[i] = log[i]
        BY <3>2, <3>6
      <4>3. RoundIn(log, FailedIn(c), p)
        BY <4>1, <4>2, RoundStays
      <4> QED BY <4>3 DEF RoundIn
    <3> QED BY <2>1, <3>7, GoesRoundIs
  <2> QED BY <2>2, <2>3, <2>4 DEF StopsWhenStuck
<1> QED BY <1>5, <1>8, <1>9, <1>10 DEF GuardInv

\* A task that begins has seen nothing.
LEMMA FreshIsRight ==
    disk \in Contents /\ Fresh => GuardInv
<1> SUFFICES ASSUME disk \in Contents, Fresh PROVE GuardInv
  OBVIOUS
<1>1. log = <<>> /\ window = <<>> /\ DOMAIN log = {} /\ DOMAIN window = {} /\ Len(window) = 0
  BY DEF Fresh
<1>2. Noticed = {} /\ Recent = {}
  BY <1>1 DEF Noticed, Recent
<1>3. GuardTypes
  <2>1. left \in [Things -> Nat] /\ Window \in Nat /\ 0 <= Window
    BY GuardAssumption DEF Fresh
  <2>2. window \in Seq(Observations) /\ log \in Seq(Records) /\ 0 \in Nat
    BY <1>1
  <2> QED BY <1>1, <2>1, <2>2 DEF Fresh, GuardTypes
<1>4. \E pos \in [DOMAIN window -> DOMAIN log] : Mirrors(pos)
  <2>1. <<>> \in [DOMAIN window -> DOMAIN log] /\ <<>> \in [DOMAIN window -> Noticed]
    BY <1>1
  <2>2. Mirrors(<<>>)
    BY <1>1, <1>2, <2>1 DEF Mirrors
  <2> QED BY <2>1, <2>2
<1>5. ~GoesRound
  <2>1. \A c : FailedIn(c) = {}
    BY <1>2 DEF FailedIn
  <2>2. ASSUME NEW c \in Checks, NEW p \in [1..5 -> FailedIn(c)] PROVE FALSE
    <3>1. p[1] \in FailedIn(c)
      BY <2>2
    <3> QED BY <2>1, <3>1
  <2> QED BY <2>2, GoesRoundIs
<1>6. ~FailedThrice /\ ~ReadInVain /\ Warned
  BY <1>2 DEF FailedThrice, ReadInVain, Warned
<1> QED BY <1>3, <1>4, <1>5, <1>6 DEF GuardInv, StopsWhenStuck, Fresh

LEMMA FreshAgain ==
    ASSUME disk' \in Contents, Fresh'
    PROVE  GuardInv'
<1>1. (disk \in Contents /\ Fresh => GuardInv)'
  BY FreshIsRight, PTL
<1> QED BY <1>1

-----------------------------------------------------------------------------
(* The task is stopped when it gets nowhere *)

LEMMA GuardInductive == GuardSpec => []GuardInv
<1>1. GuardInit => GuardInv
  BY FreshIsRight DEF GuardInit
<1>2. ASSUME GuardInv, [GuardNext]_guardVars PROVE GuardInv'
  <2>1. CASE ReadsSomething
    <3>1. PICK c \in Reads : Brings("read", c)
      BY <2>1 DEF ReadsSomething
    <3>2. "reads" \in Things /\ Uses("reads") /\ "read" \in ObservedKinds /\ c \in Calls
      BY <2>1 DEF ReadsSomething, Things, ObservedKinds, Calls
    <3> QED BY <1>2, <3>1, <3>2, BringsKeeps
  <2>2. CASE CheckFails
    <3>1. PICK c \in Checks : Brings("failure", c)
      BY <2>2 DEF CheckFails
    <3>2. "checks" \in Things /\ Uses("checks") /\ "failure" \in ObservedKinds /\ c \in Calls
      BY <2>2 DEF CheckFails, Things, ObservedKinds, Calls
    <3> QED BY <1>2, <3>1, <3>2, BringsKeeps
  <2>3. CASE ToolFails
    <3>1. PICK c \in Tools : Brings("failure", c)
      BY <2>3 DEF ToolFails
    <3>2. "failures" \in Things /\ Uses("failures") /\ "failure" \in ObservedKinds /\ c \in Calls
      BY <2>3 DEF ToolFails, Things, ObservedKinds, Calls
    <3> QED BY <1>2, <3>1, <3>2, BringsKeeps
  <2>4. CASE ChangesFiles
    <3>1. "changes" \in Things /\ Uses("changes")
      BY <2>4 DEF ChangesFiles, Things
    <3>2. left' \in [Things -> Nat]
      BY <1>2, <3>1, UsesIs DEF GuardInv
    <3>3. [kind |-> "change"] \in [kind : {"change", "answer"}]
      OBVIOUS
    <3> QED BY <1>2, <2>4, <3>2, <3>3, MarkKeeps DEF ChangesFiles, NoteWorkspaceChange
  <2>5. CASE IsAnswered
    <3>1. "answers" \in Things /\ Uses("answers") /\ disk' \in Contents
      BY <1>2, <2>5 DEF IsAnswered, Things, GuardInv, GuardTypes
    <3>2. left' \in [Things -> Nat]
      BY <1>2, <3>1, UsesIs DEF GuardInv
    <3>3. [kind |-> "answer"] \in [kind : {"change", "answer"}]
      OBVIOUS
    <3> QED BY <1>2, <2>5, <3>1, <3>2, <3>3, MarkKeeps DEF IsAnswered, NoteUserAnswer
  <2>6. CASE ChangeOutside
    <3>1. "outside" \in Things /\ Uses("outside")
      BY <2>6 DEF ChangeOutside, Things
    <3>2. left' \in [Things -> Nat]
      BY <1>2, <3>1, UsesIs DEF GuardInv
    <3>3. GuardTypes' /\ GoesOn /\ GoesOn' /\ UNCHANGED <<window, epoch, log>>
      BY <1>2, <2>6, <3>2 DEF ChangeOutside, GuardInv, GuardTypes, GoesOn
    <3> QED BY <1>2, <3>3, StillRight
  <2>7. CASE ScanAll
    <3>1. disk \in States /\ left' \in [Things -> Nat] /\ Observe(disk)
      BY <1>2, <2>7 DEF ScanAll, States, GuardInv, GuardTypes
    <3> QED BY <1>2, <3>1, ObserveKeeps
  <2>8. CASE ScanPart
    <3>1. "blind" \in Things /\ Uses("blind") /\ Unseen \in States /\ Observe(Unseen)
      BY <2>8 DEF ScanPart, Things, States
    <3>2. left' \in [Things -> Nat]
      BY <1>2, <3>1, UsesIs DEF GuardInv
    <3> QED BY <1>2, <3>1, <3>2, ObserveKeeps
  <2>9. CASE EndsTask
    <3>1. /\ GuardTypes' /\ GoesOn /\ phase' = "over" /\ UNCHANGED <<window, epoch, log>>
      BY <1>2, <2>9 DEF EndsTask, GuardInv, GuardTypes, GoesOn, Silence
    <3> QED BY <1>2, <3>1, StillRight
  <2>10. CASE NewTask
    <3>1. disk' \in Contents /\ pending = Silence
      BY <1>2, <2>10 DEF NewTask, GuardInv, GuardTypes
    <3>2. Fresh'
      BY <2>10, <3>1 DEF NewTask, Fresh, Silence
    <3> QED BY <3>1, <3>2, FreshAgain
  <2>11. CASE UNCHANGED guardVars
    <3>1. UNCHANGED <<disk, phase, pending, window, epoch, left, log>>
      BY <2>11 DEF guardVars
    <3>2. GuardTypes'
      BY <1>2, <3>1 DEF GuardInv, GuardTypes, Silence
    <3>3. /\ \A pos : Mirrors(pos)' <=> Mirrors(pos)
          /\ Warned' <=> Warned
          /\ (GoesRound' <=> GoesRound) /\ (FailedThrice' <=> FailedThrice)
          /\ (ReadInVain' <=> ReadInVain) /\ (Announced' <=> Announced)
      BY <3>1, NothingObserved
    <3>4. StopsWhenStuck' /\ (GoesOn' => Warned')
      BY <1>2, <3>1, <3>3 DEF GuardInv, StopsWhenStuck, GoesOn
    <3>5. \E pos \in [DOMAIN window' -> DOMAIN log'] : Mirrors(pos)'
      BY <1>2, <3>1, <3>3 DEF GuardInv
    <3> QED BY <3>2, <3>4, <3>5 DEF GuardInv
  <2> QED BY <1>2, <2>1, <2>2, <2>3, <2>4, <2>5, <2>6, <2>7, <2>8, <2>9, <2>10, <2>11
          DEF GuardNext
<1> QED BY <1>1, <1>2, PTL DEF GuardSpec

\* The variables keep their types: the window never holds more than Window observations,
\* and a result waits for its scan when, and only when, the task is being looked at.
THEOREM GuardTyped == GuardSpec => []GuardTypes
<1>1. GuardInv => GuardTypes
  BY DEF GuardInv
<1> QED BY <1>1, GuardInductive, PTL

\* A task is stopped when, and only when, its last observations repeat a failure or a
\* reading or go round, as the history shows and whatever the guard kept of it, and one
\* that repeats itself was warned before: the guard of engine/progress.py for every
\* number of calls, contents, tasks and every length of its memory.
THEOREM GuardIsRight == GuardSpec => []StopsWhenStuck
<1>1. GuardInv => StopsWhenStuck
  BY DEF GuardInv
<1> QED BY <1>1, GuardInductive, PTL
=============================================================================
