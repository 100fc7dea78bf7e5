------------------------------ MODULE Promedio ------------------------------
(***************************************************************************)
(* How the reader of Servidor.tla averages (Server_Reader_Child.c and      *)
(* ProcesadorEstadistico.c): it keeps the samples of a block in a buffer   *)
(* that grows by buckets and ends in a 0, sums it after each sample, and   *)
(* when the block has `average` samples publishes sum / average with the   *)
(* next sample, which starts another block.  Config may change `average`   *)
(* between two samples.                                                    *)
(*                                                                         *)
(* Temperature and pressure go the same way in two buffers of one size;    *)
(* there is one buffer here.  A sample is a number and a mean is the pair  *)
(* of its sum and its divisor.                                             *)
(***************************************************************************)
EXTENDS Naturals, Sequences, SequencesExt

CONSTANTS
  DEFAULT_AVERAGE, BUCKET_SIZE,
  Samples,    \* the values of a sample
  Averages,   \* the values `average` may have in the file config; atoi gives 0 for a word
  MaxCount    \* bound: samples in the buffer

ASSUME PromedioAssumption ==
  /\ DEFAULT_AVERAGE \in Nat \ {0} /\ BUCKET_SIZE \in Nat \ {0}
  /\ Samples \subseteq Nat /\ 0 \in Samples
  /\ Averages \subseteq 0..MaxCount
  /\ MaxCount \in Nat

VARIABLES
  average,
  data_count, data_size,
  room,       \* the elements malloc or realloc gave
  data,       \* T_data, and what lies behind it
  sum,        \* T_average_samples between two samples
  published,  \* the mean in the segment
  pending,    \* history: the samples taken since the last publication
  turn,       \* history: changes with each publication
  reduced,    \* history: Config set average below data_count
  overrun     \* history: something was written at room or behind it

samplingVars == <<average, data_count, data_size, room, data, sum, published, pending, turn,
          reduced, overrun>>

Slots == 0..MaxCount
Sizes == 0..(DEFAULT_AVERAGE + MaxCount + BUCKET_SIZE)

BufferTypeOK ==
  /\ average \in Averages \cup {DEFAULT_AVERAGE}
  /\ data_count \in Slots /\ data_size \in Sizes /\ room \in Sizes
  /\ data \in [Slots -> Samples]
  /\ sum \in Nat /\ published \in [sum : Nat, n : Slots]
  /\ pending \in Seq(Samples) /\ turn \in 0..1
  /\ reduced \in BOOLEAN /\ overrun \in BOOLEAN

\* malloc clears nothing and sum has no first value.
SamplingInit ==
  /\ average \in Averages \cup {DEFAULT_AVERAGE}
  /\ data_count = 0
  /\ data_size = DEFAULT_AVERAGE
  /\ room = DEFAULT_AVERAGE + 1
  /\ data \in [Slots -> Samples]
  /\ sum \in Samples
  /\ published = [sum |-> 0, n |-> 0]
  /\ pending = <<>> /\ turn = 0
  /\ reduced = FALSE /\ overrun = FALSE

-----------------------------------------------------------------------------
\* The sum of the elements before the first 0.
procesador_estadistico(d) ==
  LET from[i \in Slots] == IF d[i] = 0 \/ i = MaxCount THEN 0 ELSE d[i] + from[i + 1]
  IN from[0]

\* Mutated form of Publish: the block is not closed.
Publish_NoReset(s) ==
  /\ published' = [sum |-> sum, n |-> average]
  /\ turn' = 1 - turn
  /\ pending' = <<s>>
  /\ data_count' = data_count + 1

\* The mean of the block goes to the segment, and s starts the next one.
Publish(s) ==
  /\ published' = [sum |-> sum, n |-> average]
  /\ turn' = 1 - turn
  /\ pending' = <<s>>
  /\ data_count' = 1

Collect(s) ==
  /\ pending' = Append(pending, s)
  /\ data_count' = data_count + 1
  /\ UNCHANGED <<published, turn>>

\* Mutated form of GrowFor: the buffer grows one sample too late.
GrowFor_Late(i) ==
  /\ data_size' = IF i > data_size THEN data_size + BUCKET_SIZE ELSE data_size
  /\ room' = IF i > data_size THEN data_size' ELSE room

\* Mutated form of GrowFor: a bucket for each sample.
GrowFor_Always(i) ==
  /\ data_size' = data_size + BUCKET_SIZE
  /\ room' = data_size'

\* When the samples fill data_size a bucket is added.  The extra element malloc had
\* been asked for is not asked for again.
GrowFor(i) ==
  /\ data_size' = IF i = data_size THEN data_size + BUCKET_SIZE ELSE data_size
  /\ room' = IF i = data_size THEN data_size' ELSE room

\* Mutated form of Store: no '\0' behind the sample.
Store_NoEnd(i, s) ==
  /\ data' = [data EXCEPT ![i] = s]
  /\ overrun' = (overrun \/ i >= room')

\* The sample, and the 0 behind it.  Behind room' the memory is somebody else's:
\* a later read finds the 0, or whatever the owner wrote there.
Store(i, s) ==
  /\ \E end \in IF i + 1 < room' THEN {0} ELSE Samples :
       data' = [data EXCEPT ![i] = s, ![i + 1] = end]
  /\ overrun' = (overrun \/ i + 1 >= room')

\* One iteration of the loop with a sample from the driver.
Sample ==
  /\ data_count < MaxCount
  /\ \E s \in Samples :
       /\ IF data_count = average THEN Publish(s) ELSE Collect(s)
       /\ LET i == data_count' - 1
          IN GrowFor(i) /\ Store(i, s)
  /\ sum' = procesador_estadistico(data')
  /\ UNCHANGED <<average, reduced>>

\* SIGUSR1 during select or sleep: Config, when it reads the file to its end.
UpdateConfig ==
  /\ average' \in Averages
  /\ reduced' = (reduced \/ average' < data_count)
  /\ UNCHANGED <<data_count, data_size, room, data, sum, published, pending, turn, overrun>>

SamplingNext == Sample \/ UpdateConfig

Sampling == SamplingInit /\ [][SamplingNext]_samplingVars

\* The sensor goes on giving samples.
FairSampling == Sampling /\ WF_samplingVars(Sample)

-----------------------------------------------------------------------------
(* Properties *)

Total(samples) ==
  LET upTo[i \in 0..Len(samples)] == IF i = 0 THEN 0 ELSE upTo[i - 1] + samples[i]
  IN upTo[Len(samples)]

\* What is published is the mean of exactly `average` samples, all those taken since
\* the last publication, although `average` may have changed while they were taken
\* and the buffer still holds the samples of earlier blocks (Server_Reader_Child.c:236,
\* ProcesadorEstadistico.c:9).  A sample equal to 0 ends the sum early.
MeanOfBlock ==
  [][turn' # turn /\ average > 0 /\ ~overrun /\ 0 \notin ToSet(pending)
       => published' = [sum |-> Total(pending), n |-> Len(pending)]]_samplingVars

\* The samples fit the buffer, whatever average is set to: data_size grows in time
\* (Server_Reader_Child.c:268).  This says nothing of the 0 behind them.
SamplesFit == data_count <= data_size /\ data_size <= room

\* A block that Config does not set an average below of is published.
BlockIsPublished ==
  \A k \in 0..1 : turn = k /\ average > 0 ~> (turn # k \/ reduced \/ average = 0)
=============================================================================
