-------------------------- MODULE Servidor_proofs --------------------------
(***************************************************************************)
(* The temperature server.  First how its reader averages (Promedio.tla):  *)
(* for every first size and bucket of the buffer and every sequence of     *)
(* averages, the samples fit it and what is published is their mean.  Then *)
(* the processes (Servidor.tla), for any number of clients and of blocks:  *)
(* type correctness, the integrity of the semaphore across the death of    *)
(* the reader, and what the children read without the lock while it writes.*)
(***************************************************************************)
EXTENDS Servidor, Promedio, FiniteSetTheorems, TLAPS

-----------------------------------------------------------------------------
(* The size of the buffer *)

\* The sizes as numbers, and room for one sample at least: the first of a block is
\* stored at 0 without a look at the size.
SizeInv ==
  /\ average \in Nat /\ data_count \in Nat /\ data_size \in Nat \ {0} /\ room \in Nat
  /\ SamplesFit

LEMMA SizeInvInit == SamplingInit => SizeInv
  BY PromedioAssumption DEF SamplingInit, SizeInv, SamplesFit, Slots

LEMMA SizeInvInductive == SizeInv /\ [SamplingNext]_samplingVars => SizeInv'
<1> SUFFICES ASSUME SizeInv, [SamplingNext]_samplingVars PROVE SizeInv'
    OBVIOUS
<1> USE PromedioAssumption DEF SizeInv, SamplesFit
<1>1. CASE Sample
  <2>1. PICK s \in Samples :
          /\ IF data_count = average THEN Publish(s) ELSE Collect(s)
          /\ GrowFor(data_count' - 1)
        BY <1>1 DEF Sample
  <2>2. average' = average
        BY <1>1 DEF Sample
  <2>3. CASE data_count = average
        BY <2>1, <2>2, <2>3 DEF Publish, GrowFor
  <2>4. CASE data_count # average
    <3>1. data_count' = data_count + 1
          BY <2>1, <2>4 DEF Collect
    <3>2. GrowFor(data_count)
          BY <2>1, <3>1
    <3>3. QED
          BY <2>2, <3>1, <3>2 DEF GrowFor
  <2>5. QED
        BY <2>3, <2>4
<1>2. CASE UpdateConfig
      BY <1>2 DEF UpdateConfig
<1>3. CASE UNCHANGED samplingVars
      BY <1>3 DEF samplingVars
<1>4. QED
      BY <1>1, <1>2, <1>3 DEF SamplingNext

\* No sample is ever stored outside the buffer, whatever Config does to average
\* while a block is being collected.
THEOREM SamplesAlwaysFit == Sampling => []SamplesFit
<1>1. SizeInv => SamplesFit
      BY DEF SizeInv
<1>2. QED
      BY SizeInvInit, SizeInvInductive, <1>1, PTL DEF Sampling

-----------------------------------------------------------------------------
(* Induction, for sums *)

\* Induction over the naturals for a set of them: the least number outside S, which
\* the theorem on finite sets gives, would have a predecessor in S.
LEMMA SetInduction ==
  ASSUME NEW S, 0 \in S, \A n \in Nat : n \in S => n + 1 \in S
  PROVE  Nat \subseteq S
<1> DEFINE Intervals == {1..y : y \in Nat \ S}
<1> SUFFICES ASSUME NEW m \in Nat, m \notin S
             PROVE  FALSE
  OBVIOUS
<1>1. Intervals \subseteq FiniteSubsetsOf(Nat) /\ Intervals # {}
  <2>1. \A y \in Nat : IsFiniteSet(1..y) /\ 1..y \in SUBSET Nat
    BY FS_Interval
  <2> QED
    BY <2>1 DEF FiniteSubsetsOf
<1>2. PICK t \in Intervals : \A u \in Intervals : <<u, t>> \notin StrictSubsetOrdering(Nat)
  <2> HIDE DEF Intervals
  <2> QED
    BY <1>1, FS_StrictSubsetOrderingWellFounded, WFMin
<1>3. PICK x \in Nat \ S : t = 1..x
  OBVIOUS
<1>4. x - 1 \in Nat \ S
  <2>1. x # 0 /\ x - 1 \in Nat /\ (x - 1) + 1 = x
    BY <1>3
  <2> QED
    BY <1>3, <2>1
<1>5. 1..(x - 1) \subseteq 1..x /\ x \in 1..x /\ x \notin 1..(x - 1)
  BY <1>3, <1>4
<1>6. <<1..(x - 1), 1..x>> \in StrictSubsetOrdering(Nat)
  BY <1>5, <1>4, <1>3 DEF StrictSubsetOrdering
<1> QED
  BY <1>2, <1>3, <1>4, <1>6

-----------------------------------------------------------------------------
(* What ProcesadorEstadistico.c computes *)

\* One element of the sum, from the sum of those behind it.
Element(d, f, i) == IF d[i] = 0 \/ i = MaxCount THEN 0 ELSE d[i] + f[i + 1]

\* The sums from each element on exist: those of the last k elements are extended to
\* the one before, for every k.
LEMMA SumsExist ==
  ASSUME NEW d \in [Slots -> Nat]
  PROVE  \E f \in [Slots -> Nat] : f = [i \in Slots |-> Element(d, f, i)]
<1> USE PromedioAssumption DEF Slots
<1> DEFINE Behind(k) == (MaxCount - k)..MaxCount
           Sums(k, g) == g \in [Behind(k) -> Nat] /\ \A i \in Behind(k) : g[i] = Element(d, g, i)
           Good == {k \in Nat : k <= MaxCount => \E g : Sums(k, g)}
<1>1. 0 \in Good
  <2> DEFINE g == [i \in Behind(0) |-> 0]
  <2>1. \A i \in Behind(0) : i = MaxCount
    OBVIOUS
  <2>2. Sums(0, g)
    BY <2>1 DEF Element
  <2> QED
    BY <2>2
<1>2. ASSUME NEW k \in Nat, k \in Good
      PROVE  k + 1 \in Good
  <2> SUFFICES ASSUME k + 1 <= MaxCount
               PROVE  \E h : Sums(k + 1, h)
    OBVIOUS
  <2>1. PICK g : Sums(k, g)
    BY <1>2
  <2> DEFINE top == MaxCount - (k + 1)
             h == [i \in Behind(k + 1) |-> IF i = top THEN Element(d, g, i) ELSE g[i]]
  <2>2. /\ top \in Behind(k + 1) /\ top \in Slots /\ top # MaxCount
        /\ top + 1 \in Behind(k) /\ top + 1 \in Behind(k + 1) /\ top + 1 # top
        /\ \A i \in Behind(k + 1) : i # top => i \in Behind(k)
        /\ \A i \in Behind(k) : i \in Behind(k + 1) /\ i # top
        /\ \A i \in Behind(k) : i # MaxCount => i + 1 \in Behind(k)
    OBVIOUS
  <2> HIDE DEF Behind, top
  <2>3. Element(d, g, top) \in Nat
    BY <2>1, <2>2 DEF Element
  <2>4. h \in [Behind(k + 1) -> Nat]
    BY <2>1, <2>2, <2>3
  <2>5. h[top] = Element(d, g, top)
    BY <2>2
  <2>6. \A i \in Behind(k) : h[i] = g[i]
    BY <2>2
  <2> HIDE DEF h
  <2>7. \A i \in Behind(k) : g[i] = Element(d, h, i)
    <3> SUFFICES ASSUME NEW i \in Behind(k)
                 PROVE  g[i] = Element(d, h, i)
      OBVIOUS
    <3>1. g[i] = Element(d, g, i)
      BY <2>1
    <3>2. CASE i = MaxCount
      BY <3>1, <3>2 DEF Element
    <3>3. CASE i # MaxCount
      <4>1. i + 1 \in Behind(k)
        BY <2>1, <2>2, <3>3
      <4>2. h[i + 1] = g[i + 1]
        BY <2>6, <4>1
      <4> QED
        BY <3>1, <4>2 DEF Element
    <3> QED
      BY <3>2, <3>3
  <2>8. h[top + 1] = g[top + 1]
    BY <2>2, <2>6
  <2>9. h[top] = Element(d, h, top)
    BY <2>5, <2>8 DEF Element
  <2>10. \A i \in Behind(k) : h[i] = Element(d, h, i)
    BY <2>6, <2>7
  <2>11. \A i \in Behind(k + 1) : h[i] = Element(d, h, i)
    BY <2>2, <2>9, <2>10
  <2> QED
    BY <2>4, <2>11
<1>3. MaxCount \in Good
  <2> HIDE DEF Good
  <2> QED
    BY <1>1, <1>2, SetInduction
<1>4. PICK f : Sums(MaxCount, f)
  BY <1>3
<1>5. Behind(MaxCount) = Slots
  OBVIOUS
<1>6. f \in [Slots -> Nat] /\ \A i \in Slots : f[i] = Element(d, f, i)
  BY <1>4, <1>5
<1> QED
  BY <1>6

\* There is only one such function, since the last sum is 0.
LEMMA SumsAreNumbers ==
  ASSUME NEW d \in [Slots -> Nat], NEW f, f = [i \in Slots |-> Element(d, f, i)]
  PROVE  f \in [Slots -> Nat]
<1> USE PromedioAssumption DEF Slots
<1> DEFINE Good == {k \in Nat : k <= MaxCount => f[MaxCount - k] \in Nat}
<1>1. 0 \in Good
  BY DEF Element
<1>2. ASSUME NEW k \in Nat, k \in Good
      PROVE  k + 1 \in Good
  <2> SUFFICES ASSUME k + 1 <= MaxCount
               PROVE  f[MaxCount - (k + 1)] \in Nat
    OBVIOUS
  <2> DEFINE top == MaxCount - (k + 1)
  <2>1. top \in Slots /\ top + 1 = MaxCount - k
    OBVIOUS
  <2>2. f[top + 1] \in Nat /\ d[top] \in Nat
    BY <1>2, <2>1
  <2> HIDE DEF top
  <2>3. f[top] = Element(d, f, top)
    BY <2>1
  <2>4. f[top] \in Nat
    BY <2>2, <2>3 DEF Element
  <2> QED
    BY <2>4 DEF top
<1>3. Nat \subseteq Good
  <2> HIDE DEF Good
  <2> QED
    BY <1>1, <1>2, SetInduction
<1>4. ASSUME NEW i \in Slots
      PROVE  f[i] \in Nat
  <2>1. MaxCount - i \in Nat /\ MaxCount - (MaxCount - i) = i /\ MaxCount - i <= MaxCount
    OBVIOUS
  <2>2. MaxCount - i \in Good
    BY <1>3, <2>1
  <2> QED
    BY <2>1, <2>2
<1> QED
  BY <1>4

\* procesador_estadistico is the first of those sums, and a number.
LEMMA ProcesadorSums ==
  ASSUME NEW d \in [Slots -> Nat]
  PROVE  \E f \in [Slots -> Nat] : /\ \A i \in Slots : f[i] = Element(d, f, i)
                                   /\ procesador_estadistico(d) = f[0]
<1> DEFINE from[i \in Slots] == IF d[i] = 0 \/ i = MaxCount THEN 0 ELSE d[i] + from[i + 1]
<1>1. procesador_estadistico(d) = from[0]
  BY DEF procesador_estadistico
<1>2. from = CHOOSE f : f = [i \in Slots |-> Element(d, f, i)]
  BY DEF Element
<1>3. from = [i \in Slots |-> Element(d, from, i)]
  <2> HIDE DEF from
  <2> QED
    BY <1>2, SumsExist
<1> HIDE DEF from
<1>4. from \in [Slots -> Nat]
  BY <1>3, SumsAreNumbers
<1>5. \A i \in Slots : from[i] = Element(d, from, i)
  BY <1>3
<1> QED
  BY <1>1, <1>4, <1>5

\* One sum of Total, from the one before it.
Partial(samples, g, i) == IF i = 0 THEN 0 ELSE g[i - 1] + samples[i]

LEMMA PartialSumsExist ==
  ASSUME NEW samples \in Seq(Nat)
  PROVE  \E g : g = [i \in 0..Len(samples) |-> Partial(samples, g, i)]
<1> DEFINE Sums(k, g) == g \in [0..k -> Nat] /\ \A i \in 0..k : g[i] = Partial(samples, g, i)
           Good == {k \in Nat : k <= Len(samples) => \E g : Sums(k, g)}
<1>1. 0 \in Good
  <2>1. Sums(0, [i \in 0..0 |-> 0])
    BY DEF Partial
  <2> QED
    BY <2>1
<1>2. ASSUME NEW k \in Nat, k \in Good
      PROVE  k + 1 \in Good
  <2> SUFFICES ASSUME k + 1 <= Len(samples)
               PROVE  \E h : Sums(k + 1, h)
    OBVIOUS
  <2>1. PICK g : Sums(k, g)
    BY <1>2
  <2> DEFINE h == [i \in 0..(k + 1) |-> IF i = k + 1 THEN g[k] + samples[k + 1] ELSE g[i]]
  <2>2. samples[k + 1] \in Nat /\ g[k] \in Nat
    BY <2>1
  <2>3. h \in [0..(k + 1) -> Nat]
    BY <2>1, <2>2
  <2>4. ASSUME NEW i \in 0..(k + 1)
        PROVE  h[i] = Partial(samples, h, i)
    <3>1. CASE i = k + 1
      BY <3>1 DEF Partial
    <3>2. CASE i # k + 1
      <4>1. i \in 0..k /\ h[i] = g[i] /\ g[i] = Partial(samples, g, i)
        BY <2>1, <3>2
      <4>2. i # 0 => h[i - 1] = g[i - 1]
        BY <4>1
      <4> QED
        BY <4>1, <4>2 DEF Partial
    <3> QED
      BY <3>1, <3>2
  <2> QED
    BY <2>3, <2>4
<1>3. Len(samples) \in Good
  <2> HIDE DEF Good
  <2> QED
    BY <1>1, <1>2, SetInduction
<1>4. PICK g : Sums(Len(samples), g)
  BY <1>3
<1>5. g = [i \in 0..Len(samples) |-> Partial(samples, g, i)]
  BY <1>4
<1> QED
  BY <1>5

\* Total is the last of the partial sums.
LEMMA TotalSums ==
  ASSUME NEW samples \in Seq(Nat)
  PROVE  \E g : /\ \A i \in 0..Len(samples) : g[i] = Partial(samples, g, i)
                /\ Total(samples) = g[Len(samples)]
<1> DEFINE upTo[i \in 0..Len(samples)] == IF i = 0 THEN 0 ELSE upTo[i - 1] + samples[i]
<1>1. Total(samples) = upTo[Len(samples)]
  BY DEF Total
<1>2. upTo = CHOOSE g : g = [i \in 0..Len(samples) |-> Partial(samples, g, i)]
  BY DEF Partial
<1>3. upTo = [i \in 0..Len(samples) |-> Partial(samples, upTo, i)]
  <2> HIDE DEF upTo
  <2> QED
    BY <1>2, PartialSumsExist
<1> HIDE DEF upTo
<1>4. \A i \in 0..Len(samples) : upTo[i] = Partial(samples, upTo, i)
  BY <1>3
<1> QED
  BY <1>1, <1>4

\* A buffer that holds the samples of a block, none of them 0, and a 0 behind them, is
\* summed to their total, whatever lies behind that 0: the sum of the first k samples
\* and of what the buffer holds from k on is the same for every k.
LEMMA ProcesadorIsTotal ==
  ASSUME NEW d \in [Slots -> Nat], NEW samples \in Seq(Nat),
         Len(samples) \in Slots, d[Len(samples)] = 0,
         \A i \in 1..Len(samples) : samples[i] = d[i - 1] /\ samples[i] # 0
  PROVE  procesador_estadistico(d) = Total(samples)
<1> USE PromedioAssumption DEF Slots
<1>1. PICK f \in [Slots -> Nat] : /\ \A i \in Slots : f[i] = Element(d, f, i)
                                  /\ procesador_estadistico(d) = f[0]
  BY ProcesadorSums
<1>2. PICK g : /\ \A i \in 0..Len(samples) : g[i] = Partial(samples, g, i)
               /\ Total(samples) = g[Len(samples)]
  BY TotalSums
<1> DEFINE Good == {k \in Nat : k <= Len(samples) => g[k] \in Nat /\ f[0] = g[k] + f[k]}
<1>3. 0 \in Good
  <2>1. g[0] = 0
    BY <1>2 DEF Partial
  <2>2. f[0] \in Nat
    BY <1>1
  <2> QED
    BY <2>1, <2>2
<1>4. ASSUME NEW k \in Nat, k \in Good
      PROVE  k + 1 \in Good
  <2> SUFFICES ASSUME k + 1 <= Len(samples)
               PROVE  g[k + 1] \in Nat /\ f[0] = g[k + 1] + f[k + 1]
    OBVIOUS
  <2> HIDE DEF Good
  <2>1. /\ k \in Slots /\ k + 1 \in Slots /\ k # MaxCount
        /\ k + 1 \in 1..Len(samples) /\ k + 1 \in 0..Len(samples)
        /\ (k + 1) - 1 = k /\ k + 1 # 0
    <3>1. MaxCount \in Nat /\ Len(samples) \in Nat /\ Len(samples) <= MaxCount
      OBVIOUS
    <3> QED
      BY <3>1
  <2>2. samples[k + 1] = d[k] /\ samples[k + 1] # 0
    BY <2>1
  <2>3. f[k] = d[k] + f[k + 1]
    BY <1>1, <2>1, <2>2 DEF Element
  <2>4. g[k + 1] = g[k] + d[k]
    BY <1>2, <2>1, <2>2 DEF Partial
  <2>5. g[k] \in Nat /\ f[0] = g[k] + f[k]
    <3>1. k <= Len(samples)
      BY <2>1
    <3> QED
      BY <1>4, <3>1 DEF Good
  <2>6. d[k] \in Nat /\ f[k + 1] \in Nat
    BY <1>1, <2>1
  <2>7. g[k + 1] \in Nat
    <3>1. \A a, b \in Nat : a + b \in Nat
      OBVIOUS
    <3> QED
      BY <2>4, <2>5, <2>6, <3>1
  <2>8. \A a, b, c \in Nat : a + (b + c) = (a + b) + c
    OBVIOUS
  <2>9. f[0] = g[k] + (d[k] + f[k + 1])
    BY <2>3, <2>5
  <2>10. f[0] = (g[k] + d[k]) + f[k + 1]
    BY <2>5, <2>6, <2>8, <2>9
  <2> QED
    BY <2>4, <2>7, <2>10
<1>5. Len(samples) \in Good
  <2>1. Len(samples) \in Nat
    OBVIOUS
  <2> HIDE DEF Good
  <2> QED
    BY <1>3, <1>4, <2>1, SetInduction
<1>6. f[Len(samples)] = 0
  BY <1>1 DEF Element
<1>7. f[0] = g[Len(samples)] + f[Len(samples)] /\ g[Len(samples)] \in Nat
  BY <1>5
<1> QED
  BY <1>1, <1>2, <1>6, <1>7

-----------------------------------------------------------------------------
(* The buffer and the block *)

\* The buffer begins with the samples of the block, and sum is the sum of the buffer
\* from the first sample on.  While nothing was written behind the buffer the 0 that
\* ends them is in place.
BlockInv ==
  /\ data_count = Len(pending)
  /\ \A i \in 1..data_count : pending[i] = data[i - 1]
  /\ data_count > 0 => sum = procesador_estadistico(data)
  /\ data_count > 0 /\ ~overrun => data[data_count] = 0

\* The buffer of samples, seen as numbers.
LEMMA BufferOfNumbers ==
  /\ \A d \in [Slots -> Samples] : d \in [Slots -> Nat]
  /\ \A block \in Seq(Samples) : block \in Seq(Nat)
<1>1. ASSUME NEW d \in [Slots -> Samples]
      PROVE  d \in [Slots -> Nat]
  BY PromedioAssumption
<1>2. ASSUME NEW block \in Seq(Samples)
      PROVE  block \in Seq(Nat)
  <2>1. \A j \in 1..Len(block) : block[j] \in Samples
    OBVIOUS
  <2>2. \A j \in 1..Len(block) : block[j] \in Nat
    BY <2>1, PromedioAssumption
  <2> QED
    BY <2>2
<1> QED
  BY <1>1, <1>2

LEMMA ProcesadorIsNumber ==
  ASSUME NEW d \in [Slots -> Samples]
  PROVE  procesador_estadistico(d) \in Nat
<1>1. d \in [Slots -> Nat] /\ 0 \in Slots
  BY BufferOfNumbers, PromedioAssumption DEF Slots
<1> QED
  BY <1>1, ProcesadorSums

LEMMA BlockInit == SamplingInit => BufferTypeOK /\ BlockInv
<1> SUFFICES ASSUME SamplingInit
             PROVE  BufferTypeOK /\ BlockInv
  OBVIOUS
<1> USE PromedioAssumption DEF SamplingInit, Slots, Sizes
<1>1. BufferTypeOK
  BY DEF BufferTypeOK
<1>2. BlockInv
  BY DEF BlockInv
<1> QED
  BY <1>1, <1>2

\* A sample: the block is closed, or goes on, and in both cases the new sample is the
\* last one of the block and the last one of the buffer.
LEMMA SampleStep ==
  ASSUME BufferTypeOK, BlockInv, Sample
  PROVE  BufferTypeOK' /\ BlockInv'
<1> USE PromedioAssumption DEF Slots, Sizes
<1>1. PICK s \in Samples :
        /\ IF data_count = average THEN Publish(s) ELSE Collect(s)
        /\ GrowFor(data_count' - 1) /\ Store(data_count' - 1, s)
  BY DEF Sample
<1> DEFINE i == data_count' - 1
<1>2. /\ data_count < MaxCount /\ data_count \in Nat
      /\ average' = average /\ reduced' = reduced
      /\ sum' = procesador_estadistico(data')
  BY DEF Sample, BufferTypeOK
<1>3. \/ i = 0 /\ data_count' = 1 /\ pending' = <<s>> /\ data_count = average
         /\ published' = [sum |-> sum, n |-> average] /\ turn' = 1 - turn
      \/ i = data_count /\ data_count' = data_count + 1 /\ pending' = Append(pending, s)
         /\ published' = published /\ turn' = turn
  BY <1>1, <1>2 DEF Publish, Collect
<1>4. i \in Slots /\ i + 1 \in Slots /\ data_count' = i + 1 /\ i < MaxCount /\ i \in Nat
  BY <1>2, <1>3
<1>5. pending \in Seq(Samples) /\ Len(pending) = data_count
  BY DEF BufferTypeOK, BlockInv
<1>6. /\ pending' \in Seq(Samples) /\ Len(pending') = i + 1 /\ pending'[i + 1] = s
      /\ \A j \in 1..i : pending'[j] = pending[j] /\ j \in 1..data_count
  <2>1. CASE i = 0 /\ pending' = <<s>>
    <3>1. <<s>> \in Seq(Samples) /\ Len(<<s>>) = 1 /\ <<s>>[1] = s
      OBVIOUS
    <3> QED
      BY <2>1, <3>1
  <2>2. CASE i = data_count /\ pending' = Append(pending, s)
    <3> HIDE DEF i
    <3>1. /\ Append(pending, s) \in Seq(Samples)
          /\ Len(Append(pending, s)) = data_count + 1
          /\ Append(pending, s)[data_count + 1] = s
          /\ \A j \in 1..data_count : Append(pending, s)[j] = pending[j]
      BY <1>5
    <3> QED
      BY <2>2, <3>1
  <2> QED
    BY <1>3, <2>1, <2>2
<1> HIDE DEF i
<1>7. PICK end \in Samples :
        /\ data' = [data EXCEPT ![i] = s, ![i + 1] = end]
        /\ i + 1 < room' => end = 0
  <2>1. PICK end \in IF i + 1 < room' THEN {0} ELSE Samples :
          data' = [data EXCEPT ![i] = s, ![i + 1] = end]
    BY <1>1 DEF Store, i
  <2> QED
    BY <2>1
<1>8. /\ data' \in [Slots -> Samples] /\ data'[i] = s /\ data'[i + 1] = end
      /\ \A j \in Slots : j < i => data'[j] = data[j]
  <2>1. data \in [Slots -> Samples]
    BY DEF BufferTypeOK
  <2>2. i # i + 1
    BY <1>4
  <2>3. \A j \in Slots : j < i => j # i /\ j # i + 1
    BY <1>4
  <2> QED
    BY <1>4, <1>7, <2>1, <2>2, <2>3
<1>9. data_size' \in Sizes /\ room' \in Sizes
  <2>1. data_size \in Sizes /\ room \in Sizes
    BY DEF BufferTypeOK
  <2>2. GrowFor(i)
    BY <1>1 DEF i
  <2> QED
    BY <1>4, <2>1, <2>2 DEF GrowFor
<1>10. overrun' = (overrun \/ i + 1 >= room')
  BY <1>1 DEF Store, i
<1>11. BufferTypeOK'
  <2>1. published' \in [sum : Nat, n : Slots] /\ turn' \in 0..1
    BY <1>2, <1>3 DEF BufferTypeOK
  <2>2. sum' \in Nat
    BY <1>2, <1>8, ProcesadorIsNumber
  <2>3. overrun' \in BOOLEAN
    BY <1>10
  <2>4. average' \in Averages \cup {DEFAULT_AVERAGE} /\ reduced' \in BOOLEAN
    BY <1>2 DEF BufferTypeOK
  <2> QED
    BY <1>4, <1>6, <1>8, <1>9, <2>1, <2>2, <2>3, <2>4 DEF BufferTypeOK
<1>12. BlockInv'
  <2>1. ASSUME NEW j \in 1..data_count'
        PROVE  pending'[j] = data'[j - 1]
    <3>1. CASE j = i + 1
      BY <1>4, <1>6, <1>8, <3>1
    <3>2. CASE j # i + 1
      <4>1. j \in 1..i /\ j - 1 \in Slots /\ j - 1 < i
        BY <1>4, <3>2
      <4>2. pending'[j] = pending[j] /\ j \in 1..data_count
        BY <1>6, <4>1
      <4>3. pending[j] = data[j - 1]
        BY <4>2 DEF BlockInv
      <4> QED
        BY <1>8, <4>1, <4>2, <4>3
    <3> QED
      BY <3>1, <3>2
  <2>2. ASSUME ~overrun'
        PROVE  data'[data_count'] = 0
    <3>1. room' \in Nat
      BY <1>9
    <3>2. ~(i + 1 >= room')
      BY <1>10, <2>2, Zenon
    <3>3. i + 1 < room'
      BY <1>4, <3>1, <3>2
    <3> QED
      BY <1>4, <1>7, <1>8, <3>3
  <2> QED
    BY <1>2, <1>4, <1>6, <2>1, <2>2 DEF BlockInv
<1> QED
  BY <1>11, <1>12

LEMMA BlockInductive ==
  BufferTypeOK /\ BlockInv /\ [SamplingNext]_samplingVars => BufferTypeOK' /\ BlockInv'
<1> SUFFICES ASSUME BufferTypeOK, BlockInv, [SamplingNext]_samplingVars
             PROVE  BufferTypeOK' /\ BlockInv'
  OBVIOUS
<1>1. CASE Sample
  BY <1>1, SampleStep
<1>2. CASE UpdateConfig
  <2>1. BufferTypeOK'
    BY <1>2 DEF UpdateConfig, BufferTypeOK
  <2>2. BlockInv'
    BY <1>2 DEF UpdateConfig, BlockInv
  <2> QED
    BY <2>1, <2>2
<1>3. CASE UNCHANGED samplingVars
  BY <1>3 DEF samplingVars, BufferTypeOK, BlockInv
<1> QED
  BY <1>1, <1>2, <1>3 DEF SamplingNext

\* Every variable keeps its type: the count stays inside the memory modelled, the sum
\* of a buffer that is never cleared is a number, and a mean has a divisor in range.
THEOREM BufferTyped == Sampling => []BufferTypeOK
<1>1. BufferTypeOK /\ BlockInv => BufferTypeOK
  OBVIOUS
<1> QED
  BY BlockInit, BlockInductive, <1>1, PTL DEF Sampling

LEMMA StepPublishesMean ==
  ASSUME BufferTypeOK, BlockInv, [SamplingNext]_samplingVars
  PROVE  turn' # turn /\ average > 0 /\ ~overrun /\ 0 \notin ToSet(pending)
           => published' = [sum |-> Total(pending), n |-> Len(pending)]
<1> SUFFICES ASSUME turn' # turn, average > 0, ~overrun, 0 \notin ToSet(pending)
             PROVE  published' = [sum |-> Total(pending), n |-> Len(pending)]
  OBVIOUS
<1>1. Sample
  BY DEF SamplingNext, UpdateConfig, samplingVars
<1>2. data_count = average /\ published' = [sum |-> sum, n |-> average]
  BY <1>1 DEF Sample, Publish, Collect
<1>3. sum = procesador_estadistico(data) /\ data[data_count] = 0 /\ data_count = Len(pending)
  BY <1>2 DEF BlockInv
<1>4. data \in [Slots -> Nat] /\ pending \in Seq(Nat) /\ Len(pending) \in Slots
  BY <1>3, BufferOfNumbers DEF BufferTypeOK
<1>5. \A i \in 1..Len(pending) : pending[i] = data[i - 1] /\ pending[i] # 0
  BY <1>3, <1>4 DEF BlockInv, ToSet
<1>6. procesador_estadistico(data) = Total(pending)
  BY <1>3, <1>4, <1>5, ProcesadorIsTotal
<1> QED
  BY <1>2, <1>3, <1>6

\* What the reader publishes is the mean of exactly the samples of the block, for
\* every size, every bucket, every sequence of averages and whatever earlier blocks
\* left in the buffer.
THEOREM MeanIsOfBlock == Sampling => MeanOfBlock
<1>1. BufferTypeOK /\ BlockInv /\ [SamplingNext]_samplingVars
        => [turn' # turn /\ average > 0 /\ ~overrun /\ 0 \notin ToSet(pending)
             => published' = [sum |-> Total(pending), n |-> Len(pending)]]_samplingVars
  BY StepPublishesMean
<1> QED
  BY BlockInit, BlockInductive, <1>1, PTL DEF Sampling, MeanOfBlock

-----------------------------------------------------------------------------
(* The processes: the inductive invariant *)

\* Before its fork there is no reader.
NoReaderYet == main \in {"shm", "sem", "signals", "forking"} => reader = "none"

\* What the segment holds: the last publication, and of the next one what its two
\* snprintf have written by now.
TextInv ==
  /\ reader \in {"lock", "temp", "pres"} => blocks < MaxBlocks
  /\ textT \in {blocks, blocks + 1, Torn}
  /\ textP \in {blocks, None, Torn} /\ textP # 0
  /\ reader = "pres" => textT = blocks + 1
  /\ reader \notin {"temp", "pres", "reaped"} \cup Dead
       => textT = blocks /\ (textP = textT \/ textT = 0)

\* What a child has read of it: nothing before "pres" or after its end, and at "pres" a
\* temperature that is not newer than the publication in progress.
SeenInv ==
  \A c \in Clients :
    /\ client[c] \in {"none", "queued", "accepted", "recv", "check", "temp"} \cup Dead
         => tempCelsius[c] = Garbage
    /\ client[c] = "pres" => tempCelsius[c] # 0 /\ tempCelsius[c] \in {Torn} \cup 0..(blocks + 1)

\* While there is a child that no publication has disturbed the text stands still, and
\* the temperature it has read is the one in the segment.
UndisturbedInv ==
  /\ undisturbed # {} => ~ReaderInCs
  /\ \A c \in undisturbed : client[c] = "pres" => tempCelsius[c] = textT

IInv == /\ TypeOK /\ NoReaderYet /\ LockIntegrity /\ TextInv /\ SeenInv
        /\ UndisturbedInv /\ UndisturbedAnswer /\ PressureNearTemperature

USE ServidorAssumption DEF None, Garbage, Torn, Fields, Dead, ReaderInCs, Forked, MainStages,
                           ReaderStages, ClientStages, ipcVars, flagVars, seenVars

LEMMA InitEstablishes == Init => IInv
<1> SUFFICES ASSUME Init PROVE IInv
    OBVIOUS
<1> USE DEF Init
<1>1. TypeOK
  <2>1. main \in MainStages
        OBVIOUS
  <2>2. reader \in ReaderStages
        OBVIOUS
  <2>3. client \in [Clients -> ClientStages]
        OBVIOUS
  <2>4. shm \in {"none", "live", "removed"} /\ sem \in {"none", "live", "removed"}
        OBVIOUS
  <2>5. val \in 0..1
        OBVIOUS
  <2>6. textT \in Fields \cup {Torn} /\ textP \in Fields \cup {None, Torn}
        OBVIOUS
  <2>7. blocks \in 0..MaxBlocks
        OBVIOUS
  <2>8. /\ tempCelsius \in [Clients -> Fields \cup {Garbage, Torn}]
        /\ presHpa \in [Clients -> Fields \cup {Garbage, Torn}]
        /\ undisturbed \subseteq Clients
        OBVIOUS
  <2>9. f_close \subseteq {"main", "reader"}
        OBVIOUS
  <2>10. f_update \in BOOLEAN /\ sigchld \in BOOLEAN
        OBVIOUS
  <2>11. QED
        BY <2>1, <2>2, <2>3, <2>4, <2>5, <2>6, <2>7, <2>8, <2>9, <2>10 DEF TypeOK
<1>2. NoReaderYet
      BY DEF NoReaderYet
<1>3. LockIntegrity
      BY DEF LockIntegrity
<1>4. TextInv
      BY DEF TextInv
<1>5. SeenInv
      BY DEF SeenInv
<1>6. UndisturbedInv
      BY DEF UndisturbedInv
<1>7. UndisturbedAnswer
      BY DEF UndisturbedAnswer
<1>8. PressureNearTemperature
      BY DEF PressureNearTemperature
<1>9. QED
      BY <1>1, <1>2, <1>3, <1>4, <1>5, <1>6, <1>7, <1>8 DEF IInv

\* The steps of main() and Server().
LEMMA MainPreserves == IInv /\ MainStep => IInv'
<1> SUFFICES ASSUME IInv, MainStep
             PROVE  IInv'
    OBVIOUS
<1> USE DEF IInv, TypeOK, NoReaderYet, LockIntegrity, TextInv, SeenInv,
            UndisturbedInv, UndisturbedAnswer, PressureNearTemperature,
            MainStep, GetShm, GetSem, InstallHandlers, ForkReader, OpenSocket,
            CallSelect, SelectConnection, AfterSignal, Accept, ForkClient,
            MainGoto, MainFails, MainLeaks, MainEnds, RemoveIpc
<1>1. TypeOK'
  <2>1. main' \in MainStages
        OBVIOUS
  <2>2. reader' \in ReaderStages
        OBVIOUS
  <2>3. client' \in [Clients -> ClientStages]
        OBVIOUS
  <2>4. shm' \in {"none", "live", "removed"} /\ sem' \in {"none", "live", "removed"}
        OBVIOUS
  <2>5. val' \in 0..1
        OBVIOUS
  <2>6. textT' \in Fields \cup {Torn} /\ textP' \in Fields \cup {None, Torn}
        OBVIOUS
  <2>7. blocks' \in 0..MaxBlocks
        OBVIOUS
  <2>8. /\ tempCelsius' \in [Clients -> Fields \cup {Garbage, Torn}]
        /\ presHpa' \in [Clients -> Fields \cup {Garbage, Torn}]
        /\ undisturbed' \subseteq Clients
        OBVIOUS
  <2>9. f_close' \subseteq {"main", "reader"}
        OBVIOUS
  <2>10. f_update' \in BOOLEAN /\ sigchld' \in BOOLEAN
        OBVIOUS
  <2>11. QED
        BY <2>1, <2>2, <2>3, <2>4, <2>5, <2>6, <2>7, <2>8, <2>9, <2>10
<1>2. NoReaderYet'
      OBVIOUS
<1>3. LockIntegrity'
      OBVIOUS
<1>4. TextInv'
      OBVIOUS
<1>5. SeenInv'
      OBVIOUS
<1>6. UndisturbedInv'
      OBVIOUS
<1>7. UndisturbedAnswer'
      OBVIOUS
<1>8. PressureNearTemperature'
      OBVIOUS
<1>9. QED
      BY <1>1, <1>2, <1>3, <1>4, <1>5, <1>6, <1>7, <1>8 DEF IInv

\* The signals that reach main, and its end by one.
LEMMA SignalPreserves ==
  IInv /\ (HandleSigchld \/ SigInt \/ SigUsr1 \/ KillMain) => IInv'
<1> SUFFICES ASSUME IInv, HandleSigchld \/ SigInt \/ SigUsr1 \/ KillMain
             PROVE  IInv'
    OBVIOUS
<1> USE DEF IInv, TypeOK, NoReaderYet, LockIntegrity, TextInv, SeenInv,
            UndisturbedInv, UndisturbedAnswer, PressureNearTemperature,
            HandleSigchld, SigInt, SigUsr1, KillMain, MainLeaks, MainEnds, Forget
<1>1. TypeOK'
  <2>1. main' \in MainStages
        OBVIOUS
  <2>2. reader' \in ReaderStages
        OBVIOUS
  <2>3. client' \in [Clients -> ClientStages]
        OBVIOUS
  <2>4. shm' \in {"none", "live", "removed"} /\ sem' \in {"none", "live", "removed"}
        OBVIOUS
  <2>5. val' \in 0..1
        OBVIOUS
  <2>6. textT' \in Fields \cup {Torn} /\ textP' \in Fields \cup {None, Torn}
        OBVIOUS
  <2>7. blocks' \in 0..MaxBlocks
        OBVIOUS
  <2>8. /\ tempCelsius' \in [Clients -> Fields \cup {Garbage, Torn}]
        /\ presHpa' \in [Clients -> Fields \cup {Garbage, Torn}]
        /\ undisturbed' \subseteq Clients
        OBVIOUS
  <2>9. f_close' \subseteq {"main", "reader"}
        OBVIOUS
  <2>10. f_update' \in BOOLEAN /\ sigchld' \in BOOLEAN
        OBVIOUS
  <2>11. QED
        BY <2>1, <2>2, <2>3, <2>4, <2>5, <2>6, <2>7, <2>8, <2>9, <2>10
<1>2. NoReaderYet'
      OBVIOUS
<1>3. LockIntegrity'
      OBVIOUS
<1>4. TextInv'
      OBVIOUS
<1>5. SeenInv'
      OBVIOUS
<1>6. UndisturbedInv'
      OBVIOUS
<1>7. UndisturbedAnswer'
      OBVIOUS
<1>8. PressureNearTemperature'
      OBVIOUS
<1>9. QED
      BY <1>1, <1>2, <1>3, <1>4, <1>5, <1>6, <1>7, <1>8 DEF IInv

\* The reader, and its death.
LEMMA ReaderPreserves == IInv /\ (ReaderStep \/ ReaderOverwrites \/ KillReader) => IInv'
<1> SUFFICES ASSUME IInv, ReaderStep \/ ReaderOverwrites \/ KillReader
             PROVE  IInv'
    OBVIOUS
<1> USE DEF IInv, TypeOK, NoReaderYet, LockIntegrity, TextInv, SeenInv,
            UndisturbedInv, UndisturbedAnswer, PressureNearTemperature,
            ReaderStep, KillReader, ReaderStarts, ReaderTop, ReaderSamples, ReaderLocks,
            ReaderWritesTemp, ReaderWritesPres, ReaderFailsToWrite, ReaderUnlocks,
            ReaderOverwrites, ReaderOverwritesTemp, ReaderOverwritesPres,
            ReaderGoto, RemoveIpc
<1>1. TypeOK'
  <2>1. main' \in MainStages
        OBVIOUS
  <2>2. reader' \in ReaderStages
        OBVIOUS
  <2>3. client' \in [Clients -> ClientStages]
        OBVIOUS
  <2>4. shm' \in {"none", "live", "removed"} /\ sem' \in {"none", "live", "removed"}
        OBVIOUS
  <2>5. val' \in 0..1
        OBVIOUS
  <2>6. textT' \in Fields \cup {Torn} /\ textP' \in Fields \cup {None, Torn}
        OBVIOUS
  <2>7. blocks' \in 0..MaxBlocks
        OBVIOUS
  <2>8. /\ tempCelsius' \in [Clients -> Fields \cup {Garbage, Torn}]
        /\ presHpa' \in [Clients -> Fields \cup {Garbage, Torn}]
        /\ undisturbed' \subseteq Clients
        OBVIOUS
  <2>9. f_close' \subseteq {"main", "reader"}
        OBVIOUS
  <2>10. f_update' \in BOOLEAN /\ sigchld' \in BOOLEAN
        OBVIOUS
  <2>11. QED
        BY <2>1, <2>2, <2>3, <2>4, <2>5, <2>6, <2>7, <2>8, <2>9, <2>10
<1>2. NoReaderYet'
      OBVIOUS
<1>3. LockIntegrity'
      OBVIOUS
<1>4. TextInv'
      OBVIOUS
<1>5. SeenInv'
      OBVIOUS
<1>6. UndisturbedInv'
      OBVIOUS
<1>7. UndisturbedAnswer'
      OBVIOUS
<1>8. PressureNearTemperature'
      OBVIOUS
<1>9. QED
      BY <1>1, <1>2, <1>3, <1>4, <1>5, <1>6, <1>7, <1>8 DEF IInv

\* The browsers and the children that answer them.
LEMMA ClientPreserves ==
  IInv /\ (\E c \in Clients : Connect(c) \/ ClientStep(c)) => IInv'
<1> SUFFICES ASSUME IInv, \E c \in Clients : Connect(c) \/ ClientStep(c)
             PROVE  IInv'
    OBVIOUS
<1> USE DEF IInv, TypeOK, NoReaderYet, LockIntegrity, TextInv, SeenInv,
            UndisturbedInv, UndisturbedAnswer, PressureNearTemperature,
            Connect, ClientStep, Recv, CheckSemaphore, ClientReads, ReadTemp, ReadPres,
            Send, Forget, ClientGoto
<1>1. TypeOK'
  <2>1. main' \in MainStages
        OBVIOUS
  <2>2. reader' \in ReaderStages
        OBVIOUS
  <2>3. client' \in [Clients -> ClientStages]
        OBVIOUS
  <2>4. shm' \in {"none", "live", "removed"} /\ sem' \in {"none", "live", "removed"}
        OBVIOUS
  <2>5. val' \in 0..1
        OBVIOUS
  <2>6. textT' \in Fields \cup {Torn} /\ textP' \in Fields \cup {None, Torn}
        OBVIOUS
  <2>7. blocks' \in 0..MaxBlocks
        OBVIOUS
  <2>8. /\ tempCelsius' \in [Clients -> Fields \cup {Garbage, Torn}]
        /\ presHpa' \in [Clients -> Fields \cup {Garbage, Torn}]
        /\ undisturbed' \subseteq Clients
        OBVIOUS
  <2>9. f_close' \subseteq {"main", "reader"}
        OBVIOUS
  <2>10. f_update' \in BOOLEAN /\ sigchld' \in BOOLEAN
        OBVIOUS
  <2>11. QED
        BY <2>1, <2>2, <2>3, <2>4, <2>5, <2>6, <2>7, <2>8, <2>9, <2>10
<1>2. NoReaderYet'
      OBVIOUS
<1>3. LockIntegrity'
      OBVIOUS
<1>4. TextInv'
      OBVIOUS
<1>5. SeenInv'
      OBVIOUS
<1>6. UndisturbedInv'
      OBVIOUS
<1>7. UndisturbedAnswer'
      OBVIOUS
<1>8. PressureNearTemperature'
      OBVIOUS
<1>9. QED
      BY <1>1, <1>2, <1>3, <1>4, <1>5, <1>6, <1>7, <1>8 DEF IInv

LEMMA StutterPreserves == IInv /\ UNCHANGED vars => IInv'
  BY DEF vars, IInv, TypeOK, NoReaderYet, LockIntegrity, TextInv, SeenInv,
         UndisturbedInv, UndisturbedAnswer, PressureNearTemperature

LEMMA Invariance == Spec => []IInv
<1>1. IInv /\ [Next]_vars => IInv'
      BY MainPreserves, SignalPreserves, ReaderPreserves, ClientPreserves, StutterPreserves DEF Next
<1>2. QED
      BY InitEstablishes, <1>1, PTL DEF Spec

\* Every variable of main, the reader and the children keeps its type: in particular no
\* step runs into a stage that its program does not have.
THEOREM TypeCorrect == Spec => []TypeOK
  BY Invariance, PTL DEF IInv

\* The semaphore is taken exactly while the reader publishes, although the reader
\* may be killed at any moment and main may remove the set.
THEOREM SemaphoreIsSound == Spec => []LockIntegrity
  BY Invariance, PTL DEF IInv

\* However a child's reads fall between the bytes that the reader writes, a pressure that
\* is a whole number is at most one publication older than the temperature beside it.
THEOREM PressureIsNearTemperature == Spec => []PressureNearTemperature
  BY Invariance, PTL DEF IInv

\* A child that found the set free and met no publication since answers with the two
\* fields of one, unless the reader died while it wrote.
THEOREM UndisturbedAnswerIsAPair == Spec => []UndisturbedAnswer
  BY Invariance, PTL DEF IInv
=============================================================================
