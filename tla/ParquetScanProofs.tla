------------------------- MODULE ParquetScanProofs -------------------------
(***************************************************************************)
(* For every source, set of failures and device, and every interleaving of *)
(* the decode thread with the driver's: what the scan holds (CUDA events,  *)
(* the reader, decoded chunks) is bounded and given back, and next()       *)
(* returns every chunk once and in order.                                  *)
(***************************************************************************)
EXTENDS ParquetScanOperator, TLAPS

\* What is settled when the consumer, or the operator, has come to a point.
Stages ==
  /\ phase = "new" => consumer = "idle" /\ producer = "none" /\ ~decode_thread /\ queue = <<>>
  /\ phase \in {"closed", "destroyed"} => queue = <<>> /\ ~decode_thread
  /\ consumer \in {"next", "asleep", "fragment"} => outcome # "error"
  /\ consumer = "fragment" => source.partitioned
  /\ consumer \in {"join", "drain"} => stopFor # "new"
  /\ consumer = "drain" => ~decode_thread
  /\ source.partitioned => producer = "none" /\ ~decode_thread
  /\ producer \notin {"none", "exited"} => reader /\ decode_thread

\* The event of the chunk in the decode thread's hands.
InHand == IF producer \in {"record", "push", "asleep"} THEN 1 ELSE 0

\* Each thread orphans an event at most once: the decode thread ends with it,
\* and the driver does not call a scan again that has failed.
Events ==
  /\ events = orphans + Len(queue) + InHand
  /\ orphans <= (IF producer \in {"catch", "exited"} THEN 1 ELSE 0)
                  + (IF outcome = "error" THEN 1 ELSE 0)

\* The types of what the argument counts.
Typed ==
  /\ pos \in Nat /\ queue \in Seq(Nat) /\ events \in Nat /\ orphans \in Nat
  /\ phase \in {"new", "open", "closed", "destroyed"}
  /\ stopFor \in {"new", "closed", "destroyed"}
  /\ decode_thread \in BOOLEAN

\* The inductive invariant.
IInv == Typed /\ Stages /\ Events /\ Len(queue) <= 1

-----------------------------------------------------------------------------
\* The invariant holds of a scan not yet opened.
LEMMA InitInv == Init => IInv
<1> SUFFICES ASSUME Init PROVE IInv
  OBVIOUS
<1>1. Typed
  <2>1. queue \in Seq(Nat) /\ Len(queue) = 0
    BY DEF Init
  <2>2. decode_thread \in BOOLEAN
    BY DEF Init
  <2> QED BY <2>1, <2>2 DEF Init, Typed
<1>2. Stages /\ Events /\ Len(queue) <= 1
  BY DEF Init, Stages, Events, InHand
<1> QED BY <1>1, <1>2 DEF IInv

\* Every step keeps the invariant.
LEMMA NextInv == IInv /\ [Next]_vars => IInv'
<1> SUFFICES ASSUME IInv, [Next]_vars PROVE IInv'
  OBVIOUS
<1> USE DEF control, decoder, shared, cuda
<1>1. CASE OpenLater
  BY <1>1 DEF IInv, Typed, Stages, Events, InHand, OpenLater
<1>2. CASE OpenFails
  BY <1>2 DEF IInv, Typed, Stages, Events, InHand, OpenFails
<1>3. CASE Open
  BY <1>3 DEF IInv, Typed, Stages, Events, InHand, Open
<1>4. CASE Next_Call
  BY <1>4 DEF IInv, Typed, Stages, Events, InHand, Next_Call
<1>5. CASE Next_Sleep
  BY <1>5 DEF IInv, Typed, Stages, Events, InHand, Next_Sleep
<1>6. CASE Next_Return
  <2>1. CASE producer_exception \/ queue = <<>>
    BY <1>6, <2>1 DEF IInv, Typed, Stages, Events, InHand, Next_Return
  <2>2. CASE ~producer_exception /\ queue # <<>>
    <3>1. /\ queue' = Tail(queue) /\ events' = events - 1 /\ producer' = Woken(producer, "push")
          /\ consumer' = "idle" /\ outcome' = "batch" /\ outcome # "error"
          /\ UNCHANGED <<phase, stopFor, decode_thread, source, pos, reader, orphans>>
      BY <1>6, <2>2 DEF IInv, Stages, Next_Return
    <3>2. queue' \in Seq(Nat) /\ Len(queue') = Len(queue) - 1 /\ Len(queue) >= 1
      BY <2>2, <3>1 DEF IInv, Typed
    <3>3. Typed'
      BY <3>1, <3>2 DEF IInv, Typed, Events, InHand
    <3>4. Stages'
      BY <2>2, <3>1 DEF IInv, Stages, Woken
    <3>5. Events' /\ Len(queue') <= 1
      BY <3>1, <3>2 DEF IInv, Typed, Events, InHand, Woken
    <3> QED BY <3>3, <3>4, <3>5 DEF IInv
  <2> QED BY <2>1, <2>2
<1>7. CASE Next_WaitFails
  <2>1. Typed'
    BY <1>7 DEF IInv, Typed, Stages, Events, InHand, Next_WaitFails, Woken
  <2>2. Stages'
    BY <1>7 DEF IInv, Typed, Stages, Next_WaitFails, Woken
  <2>3. Events' /\ Len(queue') <= 1
    BY <1>7 DEF IInv, Typed, Stages, Events, InHand, Next_WaitFails, Woken
  <2> QED BY <2>1, <2>2, <2>3 DEF IInv
<1>8. CASE OpenFragment
  <2>1. Typed'
    BY <1>8 DEF IInv, Typed, Stages, Events, InHand, OpenFragment
  <2>2. Stages'
    BY <1>8 DEF IInv, Typed, Stages, OpenFragment
  <2>3. Events' /\ Len(queue') <= 1
    BY <1>8 DEF IInv, Typed, Stages, Events, InHand, OpenFragment
  <2> QED BY <2>1, <2>2, <2>3 DEF IInv
<1>9. CASE NextFragment
  BY <1>9 DEF IInv, Typed, Stages, Events, InHand, NextFragment
<1>10. CASE ReadFragment
  <2>1. Typed'
    BY <1>10 DEF IInv, Typed, Stages, Events, InHand, ReadFragment, FragmentHasNext
  <2>2. Stages'
    BY <1>10 DEF IInv, Typed, Stages, ReadFragment, FragmentHasNext
  <2>3. Events' /\ Len(queue') <= 1
    BY <1>10 DEF IInv, Typed, Stages, Events, InHand, ReadFragment, FragmentHasNext
  <2> QED BY <2>1, <2>2, <2>3 DEF IInv
<1>11. CASE ReadFragmentFails
  BY <1>11 DEF IInv, Typed, Stages, Events, InHand, ReadFragmentFails
<1>12. CASE Close
  <2>1. Typed'
    BY <1>12 DEF IInv, Typed, Stages, Events, InHand, Close, Stop, Woken
  <2>2. Stages'
    BY <1>12 DEF IInv, Typed, Stages, Close, Stop, Woken
  <2>3. Events' /\ Len(queue') <= 1
    BY <1>12 DEF IInv, Typed, Stages, Events, InHand, Close, Stop, Woken
  <2> QED BY <2>1, <2>2, <2>3 DEF IInv
<1>13. CASE Destroy
  <2>1. Typed'
    BY <1>13 DEF IInv, Typed, Stages, Events, InHand, Destroy, Stop, Woken
  <2>2. Stages'
    BY <1>13 DEF IInv, Typed, Stages, Destroy, Stop, Woken
  <2>3. Events' /\ Len(queue') <= 1
    BY <1>13 DEF IInv, Typed, Stages, Events, InHand, Destroy, Stop, Woken
  <2> QED BY <2>1, <2>2, <2>3 DEF IInv
<1>14. CASE Join
  BY <1>14 DEF IInv, Typed, Stages, Events, InHand, Join
<1>15. CASE Drain
  <2>1. Typed'
    BY <1>15 DEF IInv, Typed, Stages, Events, InHand, Drain
  <2>2. Stages'
    BY <1>15 DEF IInv, Typed, Stages, Drain
  <2>3. Events' /\ Len(queue') <= 1
    BY <1>15 DEF IInv, Typed, Stages, Events, InHand, Drain
  <2> QED BY <2>1, <2>2, <2>3 DEF IInv
<1>16. CASE Decode
  BY <1>16 DEF IInv, Typed, Stages, Events, InHand, Decode
<1>17. CASE DecodeFails
  BY <1>17 DEF IInv, Typed, Stages, Events, InHand, DecodeFails
<1>18. CASE CreateEvent
  BY <1>18 DEF IInv, Typed, Stages, Events, InHand, CreateEvent
<1>19. CASE RecordEvent
  BY <1>19 DEF IInv, Typed, Stages, Events, InHand, RecordEvent
<1>20. CASE Push_Sleep
  BY <1>20 DEF IInv, Typed, Stages, Events, InHand, Push_Sleep
<1>21. CASE Push
  <2>1. Typed'
    BY <1>21 DEF IInv, Typed, Stages, Events, InHand, Push, Woken, PushReady
  <2>2. Stages'
    BY <1>21 DEF IInv, Typed, Stages, Push, Woken, PushReady
  <2>3. Events' /\ Len(queue') <= 1
    BY <1>21 DEF IInv, Typed, Stages, Events, InHand, Push, Woken, PushReady
  <2> QED BY <2>1, <2>2, <2>3 DEF IInv
<1>22. CASE Exit
  BY <1>22 DEF IInv, Typed, Stages, Events, InHand, Exit, Woken
<1>23. CASE SpuriousWakeup
  BY <1>23 DEF IInv, Typed, Stages, Events, InHand, SpuriousWakeup, Woken
<1>24. CASE UNCHANGED vars
  BY <1>24 DEF vars, IInv, Typed, Stages, Events, InHand
<1> QED
  BY <1>1, <1>2, <1>3, <1>4, <1>5, <1>6, <1>7, <1>8, <1>9, <1>10, <1>11, <1>12, <1>13, <1>14, <1>15, <1>16, <1>17, <1>18, <1>19, <1>20, <1>21, <1>22, <1>23, <1>24
  DEF Next, ConsumerStep, ProducerStep, DriverCall, Finished

\* The invariant holds of every behaviour of the scan.
LEMMA Invariance == Spec => []IInv
BY InitInv, NextInv, PTL DEF Spec

\* A CUDA event is the queued chunk's, or the one in the decode thread's hands,
\* or one of at most two that prefetch_loop() and next() drop when a CUDA call
\* fails; stop_decode_thread() destroys all others.
THEOREM EventsBounded == Spec => []EventsAccounted
<1>1. IInv => EventsAccounted
  <2> SUFFICES ASSUME IInv PROVE EventsAccounted
    OBVIOUS
  <2>1. events = orphans + Len(queue) + InHand /\ orphans <= 2
    BY DEF IInv, Typed, Events
  <2>2. ASSUME phase \in {"closed", "destroyed"}
        PROVE  events = orphans
    <3>1. Len(queue) = 0 /\ producer \in {"none", "exited"}
      BY <2>2 DEF IInv, Stages
    <3> QED BY <2>1, <3>1 DEF IInv, Typed, InHand
  <2> QED BY <2>1, <2>2 DEF EventsAccounted, InHand
<1> QED BY <1>1, Invariance, PTL

\* prefetch_loop() runs only while reader_ and decode_stream_ exist, and
\* stop_decode_thread() leaves no thread behind, whenever the driver closes or
\* destroys the scan.
THEOREM ReaderSafety == Spec => []ReaderOutlivesDecoding
<1>1. IInv => ReaderOutlivesDecoding
  BY DEF IInv, Stages, ReaderOutlivesDecoding
<1> QED BY <1>1, Invariance, PTL

\* The decode thread is at most two chunks ahead of next().
THEOREM ReadAheadBound == Spec => []BoundedReadAhead
<1>1. IInv => BoundedReadAhead
  BY DEF IInv, Typed, BoundedReadAhead, ReadAhead
<1> QED BY <1>1, Invariance, PTL

-----------------------------------------------------------------------------
(* The order of the chunks *)

\* The chunk the decode thread holds, or lost to a failure.
Holding == producer \in {"create", "record", "push", "asleep"}
Losing == producer = "catch" \/ producer_exception

\* While next() may still be called, every chunk decoded so far has been
\* returned, is queued, or is the last one and in the decode thread's hands;
\* where next() is still to report a failure, the last one may be lost.
Live == phase = "open" /\ outcome # "error" /\ consumer \notin {"join", "drain"}
NoneMissing ==
  Live => \A c \in Owed : c <= pos =>
            \/ c \in Given
            \/ queue # <<>> /\ c = queue[1]
            \/ c = pos /\ (Holding \/ Losing)

\* Chunks pass from the reader to the decode thread, the queue and the consumer
\* in order.
InLine ==
  /\ pos \in 0..Len(source.chunks)
  /\ \A c \in Given : c <= pos
  /\ queue # <<>> => /\ queue[1] \in Owed /\ queue[1] <= pos
                     /\ \A c \in Given : c < queue[1]
  /\ Holding => /\ pos \in Owed
                /\ \A c \in Given : c < pos
                /\ queue # <<>> => queue[1] < pos

\* A fragment is left behind only when its chunks are, and the decode thread
\* reports the end only after the last chunk.
Exhausted ==
  /\ source.partitioned =>
       \A c \in DOMAIN source.chunks :
         c > pos => source.chunks[c].file > current_fragment_index
  /\ source.partitioned => queue = <<>> /\ ~producer_exception
  /\ producer = "finish" => pos = Len(source.chunks)
  /\ producer_done => pos = Len(source.chunks) /\ producer = "exited"
  /\ producer_exception => producer = "exited"
  /\ phase = "new" =>
       /\ ~producer_done /\ ~producer_exception
       /\ pos = 0 /\ outcome # "end" /\ delivered = <<>>
  /\ consumer \in {"next", "asleep", "fragment"} => phase = "open"
  /\ consumer \in {"next", "asleep"} => ~source.partitioned
  /\ stop_requested => consumer \in {"join", "drain"}
  /\ outcome = "end" => Owed \subseteq Given

\* The inductive invariant behind InOrderOnce.
OInv ==
  /\ source \in Source /\ current_fragment_index \in Nat
  /\ delivered \in Seq([chunk : Nat, values : Nat])
  /\ InOrder /\ NoneMissing /\ InLine /\ Exhausted

\* No step touches the files a scan reads.
LEMMA SourceFixed == [Next]_vars => UNCHANGED source
BY DEF Next, ConsumerStep, ProducerStep, DriverCall, Finished, vars, decoder,
       OpenLater, OpenFails, Open, Next_Call, Next_Sleep, Next_Return,
       Next_WaitFails, OpenFragment, NextFragment, ReadFragment,
       ReadFragmentFails, Close, Destroy, Stop, Join, Drain, Decode,
       DecodeFails, CreateEvent, RecordEvent, Push_Sleep, Push, Exit,
       SpuriousWakeup

\* A scan's chunks are numbered in file order.
LEMMA SourceFacts ==
  ASSUME source \in Source
  PROVE  /\ Len(source.chunks) \in Nat
         /\ DOMAIN source.chunks = 1..Len(source.chunks)
         /\ source.fragments \in Nat
         /\ \A c \in DOMAIN source.chunks :
              /\ source.chunks[c].file \in 1..source.fragments
              /\ \A b \in 1..c : source.chunks[b].file <= source.chunks[c].file
         /\ Owed \subseteq 1..Len(source.chunks)
<1> DEFINE Chunk == [rows : BOOLEAN, file : Nat]
<1>1. source.chunks \in Seq(Chunk) /\ source.fragments \in Nat
  BY DEF Source
<1>2. Len(source.chunks) \in Nat /\ DOMAIN source.chunks = 1..Len(source.chunks)
  <2> HIDE DEF Chunk
  <2> QED BY <1>1
<1>3. \A c \in DOMAIN source.chunks :
        /\ source.chunks[c].file \in 1..source.fragments
        /\ \A b \in 1..c : source.chunks[b].file <= source.chunks[c].file
  BY DEF Source
<1> QED BY <1>1, <1>2, <1>3 DEF Owed

\* next() returning the first owed chunk after those given keeps the order.
LEMMA OneMore ==
  ASSUME delivered \in Seq([chunk : Nat, values : Nat]), InOrder,
         NEW c \in Owed, c \in Nat, ValuesOf(c) \in Nat,
         Owed \subseteq Nat,
         \A g \in Given : g < c,
         \A d \in Owed : d < c => d \in Given,
         UNCHANGED source,
         delivered' = Append(delivered, [chunk |-> c, values |-> ValuesOf(c)])
  PROVE  /\ delivered' \in Seq([chunk : Nat, values : Nat])
         /\ InOrder'
         /\ Given' = Given \cup {c}
<1> DEFINE Item == [chunk : Nat, values : Nat]
           item == [chunk |-> c, values |-> ValuesOf(c)]
           n == Len(delivered)
<1>1. item \in Item /\ item.chunk = c /\ item.values = ValuesOf(c)
  OBVIOUS
<1>2. /\ delivered' \in Seq(Item) /\ n \in Nat /\ DOMAIN delivered = 1..n
      /\ DOMAIN delivered' = 1..(n + 1)
      /\ delivered'[n + 1] = item
      /\ \A i \in 1..n : delivered'[i] = delivered[i]
  <2>1. delivered \in Seq(Item) /\ delivered' = Append(delivered, item)
    OBVIOUS
  <2> HIDE DEF Item, item
  <2> QED BY <1>1, <2>1
<1>3. DOMAIN delivered' = DOMAIN delivered \cup {n + 1}
  BY <1>2
<1>4. Given' = Given \cup {c}
  BY <1>1, <1>2, <1>3 DEF Given
<1>6. ASSUME NEW i \in 1..n
      PROVE  /\ delivered'[i].chunk \in Owed
             /\ delivered'[i].values = ValuesOf(delivered'[i].chunk)
             /\ \A j \in 1..(i - 1) : delivered'[j].chunk < delivered'[i].chunk
             /\ \A d \in Owed : d < delivered'[i].chunk => d \in Given'
  <2>1. delivered'[i] = delivered[i] /\ i \in DOMAIN delivered
          /\ \A j \in 1..(i - 1) : delivered'[j] = delivered[j]
    BY <1>2
  <2> QED BY <1>4, <2>1 DEF InOrder
<1>7. /\ delivered'[n + 1].chunk \in Owed
      /\ delivered'[n + 1].values = ValuesOf(delivered'[n + 1].chunk)
      /\ \A j \in 1..n : delivered'[j].chunk < delivered'[n + 1].chunk
      /\ \A d \in Owed : d < delivered'[n + 1].chunk => d \in Given'
  <2>1. \A j \in 1..n : delivered'[j].chunk \in Given
    BY <1>2 DEF Given
  <2> QED BY <1>1, <1>2, <1>4, <2>1
<1>8. InOrder'
  <2>1. ASSUME NEW i \in 1..(n + 1)
        PROVE  /\ delivered'[i].chunk \in Owed
               /\ delivered'[i].values = ValuesOf(delivered'[i].chunk)
               /\ \A j \in 1..(i - 1) : delivered'[j].chunk < delivered'[i].chunk
               /\ \A d \in Owed : d < delivered'[i].chunk => d \in Given'
    <3>1. CASE i \in 1..n
      BY <1>6, <3>1
    <3>2. CASE i = n + 1
      <4>1. i - 1 = n
        BY <1>2, <3>2
      <4> QED BY <1>7, <3>2, <4>1
    <3>3. i \in 1..n \/ i = n + 1
      BY <1>2
    <3> QED BY <3>1, <3>2, <3>3
  <2>2. Owed' = Owed
    BY DEF Owed
  <2>3. \A i \in 1..(n + 1) : ValuesOf(delivered[i].chunk)' = ValuesOf(delivered'[i].chunk)
    BY DEF ValuesOf
  <2>4. \A i \in 1..(n + 1) : delivered'[i].values = ValuesOf(delivered[i].chunk)'
    BY <2>1, <2>3
  <2> QED BY <1>2, <2>1, <2>2, <2>4 DEF InOrder
<1> QED BY <1>2, <1>4, <1>8

\* The prefetch queue has one slot.
LEMMA Slot ==
  ASSUME NEW q \in Seq(Nat), Len(q) <= 1, q # <<>>
  PROVE  Len(q) = 1 /\ Head(q) = q[1] /\ Tail(q) = <<>> /\ q[1] \in Nat
<1>1. Len(q) = 1
  <2>1. Len(q) \in Nat /\ Len(q) # 0
    OBVIOUS
  <2>2. \A n \in Nat : n # 0 /\ n <= 1 => n = 1
    OBVIOUS
  <2> QED BY <2>1, <2>2, Zenon
<1>2. q[1] \in Nat /\ Head(q) = q[1]
  BY <1>1
<1>3. Tail(q) = <<>>
  OBVIOUS
<1> QED BY <1>1, <1>2, <1>3

\* Nothing is missing from a scan not yet opened.
LEMMA OInit == Init => OInv
<1> SUFFICES ASSUME Init PROVE OInv
  OBVIOUS
<1>1. source \in Source
  BY SourcesAssumption DEF Init
<1>2. delivered = <<>> /\ queue = <<>> /\ pos = 0 /\ current_fragment_index = 0
  BY DEF Init
<1>3. delivered \in Seq([chunk : Nat, values : Nat]) /\ DOMAIN delivered = {}
  <2> DEFINE Item == [chunk : Nat, values : Nat]
  <2> HIDE DEF Item
  <2>1. <<>> \in Seq(Item) /\ DOMAIN <<>> = {}
    OBVIOUS
  <2> QED BY <1>2, <2>1 DEF Item
<1>4. Given = {} /\ InOrder
  BY <1>3 DEF Given, InOrder
<1>5. NoneMissing
  BY DEF Init, NoneMissing, Live
<1>6. InLine
  <2>1. ~Holding
    BY DEF Init, Holding
  <2> QED BY <1>1, <1>2, <1>4, <2>1, SourceFacts DEF InLine
<1>7. Exhausted
  <2>1. \A c \in DOMAIN source.chunks : source.chunks[c].file > 0
    BY <1>1, SourceFacts
  <2> QED BY <1>2, <2>1 DEF Init, Exhausted
<1> QED BY <1>1, <1>2, <1>3, <1>4, <1>5, <1>6, <1>7 DEF OInv

\* A step that moves no chunk keeps the order, if it neither revives a scan
\* nor forgets the chunk in the decode thread's hands.
LEMMA OQuiet ==
  ASSUME OInv, UNCHANGED <<source, pos, delivered, queue>>,
         current_fragment_index' \in Nat,
         Live' => Live \/ pos = 0,
         Holding' => Holding,
         Live' /\ (Holding \/ Losing) => Holding' \/ Losing',
         Exhausted'
  PROVE  OInv'
<1>1. Owed' = Owed /\ Given' = Given /\ InOrder'
  BY DEF OInv, Owed, Given, InOrder, ValuesOf
<1>2. NoneMissing'
  <2> SUFFICES ASSUME Live', NEW c \in Owed, c <= pos
               PROVE  \/ c \in Given
                      \/ queue # <<>> /\ c = queue[1]
                      \/ c = pos /\ (Holding' \/ Losing')
    BY <1>1 DEF NoneMissing
  <2>1. c \in 1..Len(source.chunks) /\ Len(source.chunks) \in Nat
    BY SourceFacts DEF OInv
  <2>2. Live
    BY <2>1
  <2> QED BY <2>2 DEF OInv, NoneMissing
<1>3. InLine'
  BY <1>1 DEF OInv, InLine
<1> QED BY <1>1, <1>2, <1>3 DEF OInv

\* The driver's calls move no chunk.
LEMMA DriverStep ==
  ASSUME IInv, OInv, DriverCall
  PROVE  OInv'
<1> USE DEF control, decoder, shared, cuda
<1>1. CASE OpenLater
  <2>1. Exhausted'
    BY <1>1 DEF OpenLater, OInv, Exhausted, Owed, Given
  <2> QED BY <1>1, <2>1, OQuiet DEF OpenLater, OInv, Exhausted, Holding, Losing
<1>2. CASE OpenFails
  <2>1. Exhausted'
    BY <1>2 DEF OpenFails, OInv, Exhausted, Owed, Given
  <2> QED BY <1>2, <2>1, OQuiet DEF OpenFails, OInv, Exhausted, Holding, Losing
<1>3. CASE Open
  <2>1. Exhausted'
    BY <1>3 DEF Open, OInv, Exhausted, Owed, Given, IInv, Stages
  <2> QED BY <1>3, <2>1, OQuiet
          DEF Open, OInv, Exhausted, Holding, Losing, IInv, Stages
<1>4. CASE Next_Call
  <2>1. source.fragments = 0 => Owed = {}
    BY SourceFacts DEF OInv, Owed
  <2>2. Exhausted'
    BY <1>4, <2>1 DEF Next_Call, OInv, Exhausted, Owed, Given
  <2>3. UNCHANGED <<source, pos, delivered, queue, producer,
                    producer_exception, current_fragment_index, phase>>
          /\ consumer = "idle" /\ phase = "open" /\ outcome # "error"
    BY <1>4 DEF Next_Call
  <2>4. Live
    BY <2>3 DEF Live
  <2> QED BY <2>2, <2>3, <2>4, OQuiet DEF OInv, Holding, Losing
<1>5. CASE Close \/ Destroy
  <2>1. /\ UNCHANGED <<source, pos, delivered, queue, producer_exception,
                       current_fragment_index, phase, outcome, producer_done>>
        /\ consumer = "idle" /\ consumer' \in {"join", "drain"}
        /\ producer' \in {producer, Woken(producer, "push")}
        /\ phase # "new"
    BY <1>5 DEF Close, Destroy, Stop
  <2>2. /\ ~Live' /\ (Holding' => Holding)
        /\ (producer = "finish" <=> producer' = "finish")
        /\ (producer = "exited" => producer' = "exited")
    BY <2>1 DEF Live, Holding, Woken
  <2>3. Exhausted'
    BY <2>1, <2>2 DEF OInv, Exhausted, Owed, Given
  <2> QED BY <2>1, <2>2, <2>3, OQuiet DEF OInv
<1> QED BY <1>1, <1>2, <1>3, <1>4, <1>5 DEF DriverCall

\* next() in prefetch mode returns the queued chunk, or the end when the decode
\* thread has reached it and the queue is empty.
LEMMA HandOut ==
  ASSUME IInv, OInv, Next_Return \/ Next_WaitFails
  PROVE  OInv'
<1> USE DEF control, decoder, shared, cuda
<1>0. /\ consumer = "next" /\ consumer' = "idle"
      /\ UNCHANGED <<source, pos, current_fragment_index, phase,
                     producer_done, producer_exception, stop_requested>>
      /\ phase = "open" /\ outcome # "error" /\ ~source.partitioned
      /\ producer' \in {producer, Woken(producer, "push")}
      /\ Live /\ ~stop_requested
  BY DEF Next_Return, Next_WaitFails, IInv, Stages, OInv, Exhausted, Live
<1>1. /\ Holding' = Holding /\ Losing' = Losing
      /\ (producer = "finish" <=> producer' = "finish")
      /\ (producer = "exited" => producer' = "exited")
  BY <1>0 DEF Holding, Losing, Woken
<1>2. Owed' = Owed /\ Owed \subseteq Nat /\ pos \in Nat
  BY <1>0, SourceFacts DEF Owed, OInv, InLine
<1>3. CASE Next_Return /\ producer_exception
  <2>1. UNCHANGED <<delivered, queue>> /\ outcome' = "error"
    BY <1>3 DEF Next_Return
  <2>2. Exhausted'
    BY <1>0, <1>1, <2>1 DEF OInv, Exhausted, Owed, Given
  <2> QED BY <1>0, <1>1, <2>1, <2>2, OQuiet DEF OInv, Live
<1>4. CASE Next_Return /\ ~producer_exception /\ queue = <<>>
  <2>1. UNCHANGED <<delivered, queue>> /\ outcome' = "end" /\ producer_done
    BY <1>4 DEF Next_Return, NextReady
  <2>2. pos = Len(source.chunks) /\ ~Holding /\ ~Losing
    BY <1>4, <2>1 DEF OInv, Exhausted, Holding, Losing
  <2>3. Owed \subseteq Given
    <3>1. \A c \in Owed : c <= pos
      BY <2>2, SourceFacts DEF OInv
    <3> QED BY <1>0, <1>4, <2>2, <3>1 DEF OInv, NoneMissing
  <2>4. Exhausted'
    BY <1>0, <1>1, <1>2, <2>1, <2>3 DEF OInv, Exhausted, Given
  <2> QED BY <1>0, <1>1, <2>1, <2>4, OQuiet DEF OInv
<1>5. CASE Next_Return /\ ~producer_exception /\ queue # <<>>
  <2> DEFINE c == queue[1]
  <2>1. /\ queue \in Seq(Nat) /\ Len(queue) = 1
        /\ Head(queue) = c /\ Tail(queue) = <<>> /\ c \in Nat
    <3>1. queue \in Seq(Nat) /\ Len(queue) <= 1 /\ queue # <<>>
      BY <1>5 DEF IInv, Typed
    <3> QED BY <3>1, Slot
  <2>2. /\ delivered' = Append(delivered, [chunk |-> c, values |-> ValuesOf(c)])
        /\ queue' = <<>> /\ outcome' = "batch"
    BY <1>0, <1>5, <2>1 DEF Next_Return, ValuesOf
  <2>3. /\ c \in Owed /\ c <= pos /\ \A g \in Given : g < c
        /\ Holding => c < pos /\ pos \in Owed
    BY <1>5 DEF OInv, InLine
  <2>4. ASSUME NEW d \in Owed, d < c PROVE d \in Given
    <3>1. d \in Nat /\ d <= pos /\ d # pos /\ d # c
      BY <1>2, <2>1, <2>3, <2>4
    <3> QED BY <1>0, <3>1 DEF OInv, NoneMissing
  <2>5. ValuesOf(c) \in Nat
    BY <1>0 DEF ValuesOf
  <2> HIDE DEF c
  <2>6. /\ delivered' \in Seq([chunk : Nat, values : Nat]) /\ InOrder'
        /\ Given' = Given \cup {c}
    BY <1>0, <1>2, <2>1, <2>2, <2>3, <2>4, <2>5, OneMore DEF OInv
  <2>7. NoneMissing'
    <3> SUFFICES ASSUME NEW d \in Owed, d <= pos
                 PROVE  d \in Given' \/ (d = pos /\ (Holding' \/ Losing'))
      BY <1>0, <1>2 DEF NoneMissing
    <3> QED BY <1>0, <1>1, <2>6 DEF OInv, NoneMissing, c
  <2>8. InLine'
    <3>1. \A g \in Given' : g <= pos /\ (Holding => g < pos)
      BY <2>3, <2>6 DEF OInv, InLine
    <3> QED BY <1>0, <1>1, <1>2, <2>2, <2>3, <3>1 DEF OInv, InLine
  <2>9. Exhausted'
    BY <1>0, <1>1, <2>2, <2>6 DEF OInv, Exhausted
  <2> QED BY <1>0, <2>6, <2>7, <2>8, <2>9 DEF OInv
<1>6. CASE Next_WaitFails
  <2>1. /\ UNCHANGED delivered /\ outcome' = "error" /\ queue' = <<>>
    <3>1. queue \in Seq(Nat) /\ Len(queue) <= 1 /\ queue # <<>>
      BY <1>6 DEF IInv, Typed, Next_WaitFails
    <3>2. Tail(queue) = <<>>
      BY <3>1, Slot
    <3> QED BY <1>6, <3>2 DEF Next_WaitFails
  <2>2. Given' = Given /\ InOrder'
    BY <1>0, <2>1 DEF OInv, Given, InOrder, Owed, ValuesOf
  <2>3. Exhausted'
    BY <1>0, <1>1, <1>2, <2>1, <2>2 DEF OInv, Exhausted
  <2>4. NoneMissing'
    BY <2>1 DEF NoneMissing, Live
  <2>5. InLine'
    BY <1>0, <1>1, <1>2, <2>1, <2>2 DEF OInv, InLine
  <2> QED BY <1>0, <2>1, <2>2, <2>3, <2>4, <2>5 DEF OInv
<1> QED BY <1>3, <1>4, <1>5, <1>6

\* Going on to the next fragment leaves no chunk of this one behind.
LEMMA FragmentStep ==
  ASSUME IInv, OInv, OpenFragment \/ NextFragment \/ ReadFragmentFails
  PROVE  OInv'
<1> USE DEF control, decoder, shared, cuda
<1>0. /\ consumer = "fragment" /\ phase = "open" /\ outcome # "error"
      /\ UNCHANGED <<source, pos, delivered, queue, phase, producer,
                     producer_done, producer_exception, stop_requested>>
      /\ source.partitioned /\ Live /\ pos \in Nat
  BY DEF OpenFragment, NextFragment, ReadFragmentFails, IInv, Typed, Stages,
         OInv, Exhausted, Live
<1>1. Holding' = Holding /\ Losing' = Losing /\ Owed' = Owed /\ Given' = Given
  BY <1>0 DEF Holding, Losing, Owed, Given
<1>2. CASE OpenFragment /\ outcome' = "end"
  <2>1. /\ current_fragment_index >= source.fragments \/ outcome = "end"
        /\ UNCHANGED current_fragment_index /\ consumer' \in {"idle", "fragment"}
    BY <1>0, <1>2 DEF OpenFragment
  <2>2. Owed \subseteq Given
    <3>1. CASE outcome = "end"
      BY <3>1 DEF OInv, Exhausted
    <3>2. CASE current_fragment_index >= source.fragments
      <4>1. \A c \in Owed : c <= pos
        <5> SUFFICES ASSUME NEW c \in Owed, c > pos PROVE FALSE
          BY <1>0, SourceFacts DEF OInv
        <5>1. /\ c \in DOMAIN source.chunks
              /\ source.chunks[c].file \in 1..source.fragments
              /\ source.fragments \in Nat /\ current_fragment_index \in Nat
          BY SourceFacts DEF OInv, Owed
        <5>2. source.chunks[c].file > current_fragment_index
          BY <1>0, <5>1 DEF OInv, Exhausted
        <5> QED BY <3>2, <5>1, <5>2
      <4>2. ~Holding /\ queue = <<>> /\ ~Losing
        BY <1>0 DEF IInv, Stages, OInv, Exhausted, Holding, Losing
      <4> QED BY <1>0, <4>1, <4>2 DEF OInv, NoneMissing
    <3> QED BY <2>1, <3>1, <3>2
  <2>3. Exhausted'
    BY <1>0, <1>1, <2>1, <2>2 DEF OInv, Exhausted
  <2> QED BY <1>0, <1>1, <2>1, <2>3, OQuiet DEF OInv
<1>3. CASE (OpenFragment \/ ReadFragmentFails) /\ outcome' # "end"
  <2>1. /\ UNCHANGED current_fragment_index
        /\ consumer' \in {"idle", "fragment"}
    BY <1>0, <1>3 DEF OpenFragment, ReadFragmentFails
  <2>3. Exhausted'
    BY <1>0, <1>1, <1>3, <2>1 DEF OInv, Exhausted
  <2> QED BY <1>0, <1>1, <2>1, <2>3, OQuiet DEF OInv
<1>4. CASE NextFragment
  <2>1. /\ current_fragment_index' = current_fragment_index + 1
        /\ current_fragment_index' \in Nat /\ current_fragment_index \in Nat
        /\ UNCHANGED <<outcome, consumer>> /\ ~FragmentHasNext
    BY <1>4 DEF NextFragment, OInv
  <2>2. ASSUME NEW c \in DOMAIN source.chunks, c > pos
        PROVE  source.chunks[c].file > current_fragment_index'
    <3>1. /\ Len(source.chunks) \in Nat /\ c \in 1..Len(source.chunks)
          /\ DOMAIN source.chunks = 1..Len(source.chunks)
      BY SourceFacts DEF OInv
    <3>2. pos + 1 \in 1..c /\ pos + 1 \in DOMAIN source.chunks
            /\ pos < Len(source.chunks) /\ pos + 1 > pos
      BY <1>0, <2>2, <3>1
    <3>3. /\ source.chunks[pos + 1].file \in Nat /\ source.chunks[c].file \in Nat
          /\ source.chunks[pos + 1].file <= source.chunks[c].file
      <4>1. /\ source.chunks[c].file \in 1..source.fragments
            /\ source.chunks[pos + 1].file \in 1..source.fragments
            /\ source.chunks[pos + 1].file <= source.chunks[c].file
            /\ source.fragments \in Nat
        BY <3>2, SourceFacts DEF OInv
      <4> QED BY <4>1
    <3>4. source.chunks[pos + 1].file > current_fragment_index
      BY <1>0, <3>2 DEF OInv, Exhausted
    <3>5. source.chunks[pos + 1].file # current_fragment_index + 1
      BY <2>1, <3>2 DEF FragmentHasNext
    <3> QED BY <2>1, <3>3, <3>4, <3>5
  <2>3. Exhausted'
    BY <1>0, <1>1, <2>1, <2>2 DEF OInv, Exhausted
  <2> QED BY <1>0, <1>1, <2>1, <2>3, OQuiet DEF OInv
<1> QED BY <1>2, <1>3, <1>4 DEF ReadFragmentFails

\* next() in per-fragment mode returns the chunk it has just read.
LEMMA ReadFragmentStep ==
  ASSUME IInv, OInv, ReadFragment
  PROVE  OInv'
<1> USE DEF control, decoder, shared, cuda
<1>0. /\ consumer = "fragment" /\ phase = "open" /\ outcome # "error"
      /\ UNCHANGED <<source, queue, phase, producer, current_fragment_index,
                     producer_done, producer_exception, stop_requested>>
      /\ source.partitioned /\ Live /\ pos \in Nat /\ pos' = pos + 1
      /\ producer = "none" /\ ~producer_done
  BY DEF ReadFragment, IInv, Typed, Stages, OInv, Exhausted, Live
<1>1. /\ pos < Len(source.chunks) /\ Len(source.chunks) \in Nat
      /\ source.chunks[pos + 1].file = current_fragment_index + 1
      /\ pos' \in DOMAIN source.chunks
  <2>1. FragmentHasNext /\ source \in Source
    BY DEF ReadFragment, OInv
  <2>2. /\ pos < Len(source.chunks)
        /\ source.chunks[pos + 1].file = current_fragment_index + 1
    BY <2>1 DEF FragmentHasNext
  <2>3. Len(source.chunks) \in Nat /\ DOMAIN source.chunks = 1 .. Len(source.chunks)
    BY <2>1, SourceFacts
  <2> QED BY <1>0, <2>2, <2>3
<1>2. ~Holding /\ ~Holding' /\ Losing' = Losing /\ Owed' = Owed
        /\ Owed \subseteq Nat
  BY <1>0, SourceFacts DEF Holding, Losing, Owed, OInv
<1>3. \A g \in Given : g \in Nat /\ g <= pos
  BY <1>2 DEF OInv, InLine, InOrder, Given
<1>6. /\ \A d \in DOMAIN source.chunks :
           d > pos' => source.chunks[d].file > current_fragment_index
      /\ queue = <<>> /\ ~producer_exception /\ ~stop_requested
  <2>1. /\ \A d \in DOMAIN source.chunks :
             d > pos => source.chunks[d].file > current_fragment_index
        /\ queue = <<>> /\ ~producer_exception /\ ~stop_requested
    BY <1>0 DEF OInv, Exhausted
  <2>2. \A d \in DOMAIN source.chunks : d \in Nat
    BY SourceFacts DEF OInv
  <2> QED BY <1>0, <2>1, <2>2
<1>4. CASE source.chunks[pos + 1].rows
  <2> DEFINE c == pos + 1
  <2>1. /\ delivered' = Append(delivered, [chunk |-> c, values |-> ValuesOf(c)])
        /\ consumer' = "idle" /\ outcome' = "batch"
    BY <1>0, <1>1, <1>4 DEF ReadFragment, ValuesOf
  <2>2. c \in Owed /\ c \in Nat /\ ValuesOf(c) \in Nat
    BY <1>0, <1>1, <1>4 DEF Owed, ValuesOf, OInv
  <2>3. \A g \in Given : g < c
    BY <1>0, <1>3
  <2>4. queue = <<>> /\ ~Losing
    BY <1>0 DEF OInv, Exhausted, Losing
  <2>5. \A d \in Owed : d < c => d \in Given
    <3>1. \A d \in Owed : d < c => d <= pos
      BY <1>0, <1>2
    <3> QED BY <1>0, <1>2, <2>4, <3>1 DEF OInv, NoneMissing
  <2> HIDE DEF c
  <2>6. /\ delivered' \in Seq([chunk : Nat, values : Nat]) /\ InOrder'
        /\ Given' = Given \cup {c}
    BY <1>0, <1>2, <2>1, <2>2, <2>3, <2>5, OneMore DEF OInv
  <2>7. pos' = c
    BY <1>0 DEF c
  <2>8. NoneMissing'
    <3>1. \A d \in Owed : d <= c => d \in Given'
      BY <1>2, <2>2, <2>5, <2>6
    <3> QED BY <1>2, <2>7, <3>1 DEF NoneMissing
  <2>9. InLine'
    <3>1. \A g \in Given' : g <= pos'
      BY <1>3, <2>2, <2>3, <2>6, <2>7
    <3>2. pos' \in 0..Len(source.chunks)
      BY <1>0, <1>1
    <3> QED BY <1>0, <1>2, <2>4, <3>1, <3>2 DEF InLine
  <2>10. Exhausted'
    BY <1>0, <1>6, <2>1 DEF Exhausted
  <2> QED BY <1>0, <2>6, <2>8, <2>9, <2>10 DEF OInv
<1>5. CASE ~source.chunks[pos + 1].rows
  <2>1. UNCHANGED <<delivered, consumer, outcome>>
    BY <1>5 DEF ReadFragment
  <2>2. Given' = Given /\ InOrder'
    BY <1>0, <2>1 DEF OInv, Given, InOrder, Owed, ValuesOf
  <2>3. \A d \in Owed : d <= pos' => d <= pos
    <3>1. \A d \in Owed : d # pos + 1
      BY <1>5 DEF Owed
    <3> QED BY <1>0, <1>2, <3>1
  <2>4. queue = <<>> /\ ~Losing
    BY <1>0 DEF OInv, Exhausted, Losing
  <2>5. NoneMissing'
    BY <1>0, <1>2, <2>2, <2>3, <2>4 DEF OInv, NoneMissing
  <2>6. InLine'
    BY <1>0, <1>1, <1>2, <1>3, <2>2, <2>4 DEF InLine
  <2>7. Exhausted'
    <3>1. outcome = "end" => Owed \subseteq Given
      BY DEF OInv, Exhausted
    <3> QED BY <1>0, <1>2, <1>6, <2>1, <2>2, <3>1 DEF Exhausted
  <2> QED BY <1>0, <2>1, <2>2, <2>5, <2>6, <2>7 DEF OInv
<1> QED BY <1>4, <1>5

\* stop_decode_thread() drops what is queued; next() is not called any more.
LEMMA StopStep ==
  ASSUME IInv, IInv', OInv, Join \/ Drain
  PROVE  OInv'
<1> USE DEF control, decoder, shared, cuda
<1>0. /\ consumer \in {"join", "drain"} /\ ~Live
      /\ UNCHANGED <<source, pos, delivered, current_fragment_index, outcome,
                     producer>>
      /\ phase # "new"
  BY DEF Join, Drain, Live, IInv, Stages
<1>1. Holding' = Holding /\ Owed' = Owed /\ Given' = Given
  BY <1>0 DEF Holding, Owed, Given
<1>2. CASE Join
  <2>1. UNCHANGED <<queue, phase, producer_done, producer_exception, stop_requested>>
          /\ consumer' = "drain"
    BY <1>2 DEF Join
  <2>2. Exhausted'
    BY <1>0, <1>1, <2>1 DEF OInv, Exhausted
  <2> QED BY <1>0, <1>1, <2>1, <2>2, OQuiet DEF OInv, Live
<1>3. CASE Drain
  <2>1. /\ queue' = <<>> /\ consumer' = "idle" /\ ~producer_done'
        /\ ~producer_exception' /\ ~stop_requested'
        /\ phase' = stopFor /\ stopFor \in {"closed", "destroyed"}
    BY <1>3 DEF Drain, IInv, Typed, Stages
  <2>2. InOrder'
    BY <1>0 DEF OInv, Given, InOrder, Owed, ValuesOf
  <2>3. Exhausted'
    BY <1>0, <1>1, <2>1 DEF OInv, Exhausted
  <2>4. NoneMissing'
    BY <2>1 DEF NoneMissing, Live
  <2>5. InLine'
    BY <1>0, <1>1, <2>1 DEF OInv, InLine
  <2> QED BY <1>0, <2>1, <2>2, <2>3, <2>4, <2>5 DEF OInv
<1> QED BY <1>2, <1>3

\* prefetch_loop() decodes the chunk after the last, or finds there is none.
LEMMA DecodeStep ==
  ASSUME IInv, OInv, Decode
  PROVE  OInv'
<1> USE DEF control, decoder, shared, cuda
<1>0. /\ producer = "decode" /\ ~source.partitioned /\ phase # "new"
      /\ UNCHANGED <<source, delivered, queue, phase, consumer, outcome,
                     current_fragment_index, producer_done, producer_exception,
                     stop_requested>>
      /\ pos \in Nat /\ ~producer_done
  BY DEF Decode, IInv, Typed, Stages, OInv, Exhausted
<1>1. /\ Owed' = Owed /\ Given' = Given /\ Owed \subseteq Nat /\ ~Holding
      /\ InOrder' /\ Live' = Live
  <2>1. Owed' = Owed /\ Given' = Given
    BY <1>0 DEF Owed, Given
  <2>2. Owed \subseteq Nat
    BY SourceFacts DEF Owed, OInv
  <2>3. InOrder'
    BY <1>0 DEF OInv, InOrder, Owed, Given, ValuesOf
  <2>4. ~Holding /\ Live' = Live
    BY <1>0 DEF Holding, Live
  <2> QED BY <2>1, <2>2, <2>3, <2>4
<1>2. CASE pos = Len(source.chunks)
  <2>1. UNCHANGED pos /\ producer' = "finish"
    BY <1>2 DEF Decode
  <2>2. Exhausted'
    BY <1>0, <1>1, <1>2, <2>1 DEF OInv, Exhausted
  <2>3. ~Holding' /\ (Losing => Losing')
    BY <1>0, <2>1 DEF Holding, Losing
  <2> QED BY <1>0, <1>1, <2>1, <2>2, <2>3, OQuiet DEF OInv
<1>3. CASE pos # Len(source.chunks)
  <2>1. /\ pos' = pos + 1
        /\ producer' = IF source.chunks[pos + 1].rows THEN "create" ELSE "decode"
    BY <1>3 DEF Decode
  <2>2. pos' \in 1..Len(source.chunks) /\ DOMAIN source.chunks = 1..Len(source.chunks)
    <3>1. pos \in 0..Len(source.chunks) /\ Len(source.chunks) \in Nat
            /\ DOMAIN source.chunks = 1..Len(source.chunks)
      BY SourceFacts DEF OInv, InLine
    <3> QED BY <1>3, <2>1, <3>1
  <2>3. Holding' <=> pos' \in Owed
    BY <2>1, <2>2 DEF Holding, Owed
  <2>4. \A g \in Given : g \in Nat /\ g <= pos
    BY <1>1 DEF OInv, InLine, InOrder, Given
  <2>5. ~producer_exception
    BY <1>0 DEF OInv, Exhausted
  <2>6. NoneMissing'
    <3> SUFFICES ASSUME Live, NEW c \in Owed, c <= pos'
                 PROVE  \/ c \in Given
                        \/ queue # <<>> /\ c = queue[1]
                        \/ c = pos' /\ (Holding' \/ Losing')
      BY <1>0, <1>1 DEF NoneMissing
    <3>1. CASE c = pos'
      BY <2>3, <3>1
    <3>2. CASE c # pos'
      <4>1. c <= pos
        BY <1>0, <1>1, <2>1, <3>2
      <4>2. ~Losing
        BY <1>0, <2>5 DEF Losing
      <4> QED BY <1>1, <4>1, <4>2 DEF OInv, NoneMissing
    <3> QED BY <3>1, <3>2
  <2>7. InLine'
    <3>1. \A g \in Given : g < pos' /\ g <= pos'
      BY <1>0, <2>1, <2>4
    <3>2. queue # <<>> => /\ queue[1] \in Owed /\ queue[1] < pos'
                          /\ queue[1] <= pos'
                          /\ \A g \in Given : g < queue[1]
      <4>1. queue # <<>> => /\ queue[1] \in Owed /\ queue[1] <= pos
                            /\ \A g \in Given : g < queue[1]
        BY DEF OInv, InLine
      <4>2. queue # <<>> => queue[1] \in Nat
        BY <1>1, <4>1
      <4> QED BY <1>0, <2>1, <4>1, <4>2
    <3>3. pos' \in 0..Len(source.chunks)
      BY <2>2
    <3> QED BY <1>0, <1>1, <2>3, <3>1, <3>2, <3>3 DEF InLine
  <2>8. Exhausted'
    BY <1>0, <1>1, <2>1 DEF OInv, Exhausted
  <2> QED BY <1>0, <1>1, <2>6, <2>7, <2>8 DEF OInv
<1> QED BY <1>2, <1>3

\* prefetch_loop() queues the chunk in its hands, or drops it on a stop.
LEMMA PushStep ==
  ASSUME IInv, OInv, Push
  PROVE  OInv'
<1> USE DEF control, decoder, shared, cuda
<1>0. /\ producer = "push" /\ ~source.partitioned /\ phase # "new"
      /\ UNCHANGED <<source, delivered, pos, phase, outcome,
                     current_fragment_index, producer_done, producer_exception,
                     stop_requested>>
      /\ pos \in Nat /\ ~producer_done
  BY DEF Push, IInv, Typed, Stages, OInv, Exhausted
<1>1. /\ Owed' = Owed /\ Given' = Given /\ Owed \subseteq Nat /\ Holding
      /\ InOrder'
  <2>1. Owed' = Owed /\ Given' = Given
    BY <1>0 DEF Owed, Given
  <2>2. Owed \subseteq Nat
    BY SourceFacts DEF Owed, OInv
  <2>3. InOrder'
    BY <1>0 DEF OInv, InOrder, Owed, Given, ValuesOf
  <2>4. Holding
    BY <1>0 DEF Holding
  <2> QED BY <2>1, <2>2, <2>3, <2>4
<1>2. CASE stop_requested
  <2>1. UNCHANGED <<queue, consumer>> /\ producer' = "exited"
    BY <1>2 DEF Push
  <2>2. Exhausted' /\ ~Live'
    BY <1>0, <1>1, <1>2, <2>1 DEF OInv, Exhausted, Live
  <2>3. ~Holding'
    BY <2>1 DEF Holding
  <2> QED BY <1>0, <1>1, <2>1, <2>2, <2>3, OQuiet DEF OInv
<1>3. CASE ~stop_requested
  <2>1. /\ queue = <<>> /\ queue' = <<pos>> /\ producer' = "decode"
        /\ consumer' = Woken(consumer, "next")
    BY <1>3 DEF Push, PushReady
  <2>2. queue' # <<>> /\ queue'[1] = pos
    BY <2>1
  <2>3. Live' => Live
    BY <1>0, <2>1 DEF Live, Woken
  <2>4. NoneMissing'
    BY <1>0, <1>1, <2>1, <2>2, <2>3 DEF OInv, NoneMissing
  <2>5. InLine'
    <3>1. ~Holding'
      BY <2>1 DEF Holding
    <3> QED BY <1>0, <1>1, <2>2, <3>1 DEF OInv, InLine
  <2>6. Exhausted'
    BY <1>0, <1>1, <2>1, <1>3 DEF OInv, Exhausted, Woken
  <2> QED BY <1>0, <1>1, <2>4, <2>5, <2>6 DEF OInv
<1> QED BY <1>2, <1>3

\* The other steps of the two threads move no chunk.
LEMMA ThreadStep ==
  ASSUME IInv, OInv,
         \/ Next_Sleep \/ DecodeFails \/ CreateEvent \/ RecordEvent
         \/ Push_Sleep \/ Exit \/ SpuriousWakeup
  PROVE  OInv'
<1> USE DEF control, decoder, shared, cuda
<1>0. /\ UNCHANGED <<source, pos, delivered, queue, phase, outcome,
                     current_fragment_index, stop_requested>>
      /\ phase # "new" /\ ~source.partitioned
  BY DEF Next_Sleep, DecodeFails, CreateEvent, RecordEvent, Push_Sleep, Exit,
         SpuriousWakeup, IInv, Stages, OInv, Exhausted
<1>1. /\ consumer' = consumer \/ {consumer, consumer'} \subseteq {"next", "asleep"}
      /\ Holding' => Holding
      /\ producer' = "finish" => producer = "finish"
  BY DEF Next_Sleep, DecodeFails, CreateEvent, RecordEvent, Push_Sleep, Exit,
         SpuriousWakeup, Woken, Holding
<1>4. Holding \/ Losing => Holding' \/ Losing'
  BY DEF Next_Sleep, DecodeFails, CreateEvent, RecordEvent, Push_Sleep, Exit,
         SpuriousWakeup, Woken, Holding, Losing
<1>5. /\ producer_done => producer = "exited"
      /\ producer_exception => producer = "exited"
  BY DEF OInv, Exhausted
<1>6. /\ producer_done' /\ ~producer_done => producer = "finish" /\ producer' = "exited"
      /\ producer_done => producer' = "exited"
      /\ producer_exception' => producer' = "exited"
  <2>1. CASE Exit
    BY <1>5, <2>1 DEF Exit
  <2>2. CASE Next_Sleep \/ Push_Sleep \/ SpuriousWakeup
    <3>1. /\ UNCHANGED <<producer_done, producer_exception>>
          /\ producer = "exited" => producer' = "exited"
      BY <2>2 DEF Next_Sleep, Push_Sleep, SpuriousWakeup, Woken
    <3> QED BY <1>5, <3>1
  <2>3. CASE DecodeFails \/ CreateEvent \/ RecordEvent
    <3>1. /\ UNCHANGED <<producer_done, producer_exception>>
          /\ producer # "exited"
      BY <2>3 DEF DecodeFails, CreateEvent, RecordEvent
    <3> QED BY <1>5, <3>1
  <2> QED BY <2>1, <2>2, <2>3
<1>2. Live' => Live
  BY <1>0, <1>1 DEF Live
<1>3. Exhausted'
  BY <1>0, <1>1, <1>6 DEF OInv, Exhausted, Owed, Given
<1> QED BY <1>0, <1>1, <1>2, <1>3, <1>4, OQuiet DEF OInv

\* Every step keeps the order.
LEMMA NextOInv == IInv /\ OInv /\ [Next]_vars => OInv'
<1> SUFFICES ASSUME IInv, OInv, [Next]_vars PROVE OInv'
  OBVIOUS
<1>1. IInv'
  BY NextInv
<1>2. CASE DriverCall
  BY <1>2, DriverStep
<1>3. CASE Next_Return \/ Next_WaitFails
  BY <1>3, HandOut
<1>4. CASE OpenFragment \/ NextFragment \/ ReadFragmentFails
  BY <1>4, FragmentStep
<1>5. CASE ReadFragment
  BY <1>5, ReadFragmentStep
<1>6. CASE Join \/ Drain
  BY <1>1, <1>6, StopStep
<1>7. CASE Decode
  BY <1>7, DecodeStep
<1>8. CASE Push
  BY <1>8, PushStep
<1>9. CASE \/ Next_Sleep \/ DecodeFails \/ CreateEvent \/ RecordEvent
           \/ Push_Sleep \/ Exit \/ SpuriousWakeup
  BY <1>9, ThreadStep
<1>10. CASE UNCHANGED vars
  <2>1. Exhausted' /\ Live' = Live /\ Holding' = Holding /\ Losing' = Losing
    BY <1>10 DEF vars, control, decoder, shared, cuda, OInv, Exhausted, Owed,
                 Given, Live, Holding, Losing
  <2> QED BY <1>10, <2>1, OQuiet DEF vars, decoder, shared, control, OInv
<1> QED
  BY <1>2, <1>3, <1>4, <1>5, <1>6, <1>7, <1>8, <1>9, <1>10
  DEF Next, ConsumerStep, ProducerStep, Finished

\* The order holds in every behaviour of the scan.
LEMMA OrderInvariance == Spec => []OInv
BY OInit, NextOInv, Invariance, PTL DEF Spec

\* Whatever fails and however the decode thread and next() interleave, next()
\* returns the chunks with rows in file order, each once and with its own
\* file's partition values, and nullopt only after the last of them.
THEOREM InOrderAndComplete == Spec => []InOrderOnce
<1>1. OInv => InOrderOnce
  BY DEF OInv, Exhausted, InOrderOnce
<1> QED BY <1>1, OrderInvariance, PTL

\* Every variable keeps its type; no count of CUDA events goes below zero.
THEOREM TypeCorrect == Spec => []TypeOK
<1> USE DEF control, decoder, shared, cuda
<1> DEFINE Kinds ==
      /\ consumer \in {"idle", "next", "asleep", "fragment", "join", "drain"}
      /\ outcome \in {"none", "batch", "end", "error"}
      /\ producer \in {"none", "decode", "create", "record", "push", "asleep",
                       "catch", "finish", "exited"}
      /\ producerDevice \in Nat
           Flags ==
      /\ reader \in BOOLEAN /\ producer_done \in BOOLEAN
      /\ stop_requested \in BOOLEAN /\ producer_exception \in BOOLEAN
<1>1. Init => Kinds
  BY DEF Init
<1>2. Init => Flags
  BY Zenon DEF Init
<1>3. Kinds /\ Flags /\ [Next]_vars => Kinds' /\ Flags'
  <2> SUFFICES ASSUME Kinds, Flags, [Next]_vars PROVE Kinds' /\ Flags'
    OBVIOUS
  <2>1. CASE DriverCall
    <3>1. Kinds'
      <4>1. CASE OpenLater \/ OpenFails \/ Next_Call
        BY <4>1 DEF OpenLater, OpenFails, Next_Call
      <4>2. CASE Open
        BY <4>2 DEF Open
      <4>3. CASE Close
        BY <4>3 DEF Close, Stop, Woken
      <4>4. CASE Destroy
        BY <4>4 DEF Destroy, Stop, Woken
      <4> QED BY <2>1, <4>1, <4>2, <4>3, <4>4 DEF DriverCall
    <3>2. reader' \in {reader, TRUE} \cup BOOLEAN
      BY <2>1 DEF DriverCall, OpenLater, OpenFails, Open, Next_Call, Close,
                  Destroy, Stop
    <3>3. stop_requested' \in {stop_requested, TRUE}
      BY <2>1 DEF DriverCall, OpenLater, OpenFails, Open, Next_Call, Close,
                  Destroy, Stop
    <3>4. UNCHANGED <<producer_done, producer_exception>>
      BY <2>1 DEF DriverCall, OpenLater, OpenFails, Open, Next_Call, Close,
                  Destroy, Stop
    <3> QED BY <3>1, <3>2, <3>3, <3>4
  <2>2. CASE ConsumerStep \/ ReadFragmentFails
    <3> USE DEF ConsumerStep, Next_Sleep, Next_Return, Next_WaitFails, Join,
                Drain, OpenFragment, NextFragment, ReadFragment,
                ReadFragmentFails
    <3>1. Kinds'
      BY <2>2 DEF Woken
    <3>2. reader' \in {reader, TRUE, FALSE}
      BY <2>2
    <3>3. /\ stop_requested' \in {stop_requested, FALSE}
          /\ producer_done' \in {producer_done, FALSE}
          /\ producer_exception' \in {producer_exception, FALSE}
      BY <2>2
    <3> QED BY <3>1, <3>2, <3>3
  <2>3. CASE ProducerStep \/ DecodeFails \/ SpuriousWakeup
    <3> USE DEF ProducerStep, Decode, CreateEvent, RecordEvent, Push_Sleep,
                Push, Exit, DecodeFails, SpuriousWakeup
    <3>1. Kinds'
      BY <2>3 DEF Woken
    <3>2. /\ UNCHANGED <<reader, stop_requested>>
          /\ producer_done' \in {producer_done, TRUE}
          /\ producer_exception' \in {producer_exception, TRUE}
      BY <2>3
    <3> QED BY <3>1, <3>2
  <2>4. CASE UNCHANGED vars
    BY <2>4 DEF vars
  <2> QED BY <2>1, <2>2, <2>3, <2>4 DEF Next, Finished
<1>4. IInv /\ OInv /\ Kinds /\ Flags => TypeOK
  BY DEF IInv, Typed, OInv, TypeOK
<1> QED BY <1>1, <1>2, <1>3, <1>4, Invariance, OrderInvariance, PTL DEF Spec

=============================================================================
