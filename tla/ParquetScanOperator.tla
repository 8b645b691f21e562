------------------------ MODULE ParquetScanOperator ------------------------
(***************************************************************************)
(* ParquetScanOperator.  Without partition columns decoding and computing  *)
(* overlap: a decode thread reads chunks one after the other and hands     *)
(* them to next() through a one-slot queue guarded by queue_mutex_ and     *)
(* queue_cv_.  With partition columns next() itself reads one fragment     *)
(* after the other, each with a reader of its own, and adds the fragment's *)
(* partition values to its chunks.  The consumer is the pipeline driver:   *)
(* it opens the scan, calls next() as long as it likes, closes it, or      *)
(* unwinds and destroys it.                                                *)
(*                                                                         *)
(* Every critical section is one step.  A thread whose wait predicate is   *)
(* false sleeps until a notify_all (or a spurious wakeup) lets it test the *)
(* predicate again.  A chunk is its position in source.chunks.             *)
(***************************************************************************)
EXTENDS Integers, Sequences, FiniteSets, SequencesExt

CONSTANTS
  Sources,     \* the scans: see Source
  Faults,      \* which of "open", "decode", "event" may fail
  QueryDevice  \* the CUDA device the query was dispatched to

\* Whether the scan has partition columns, the number of its fragments, and
\* of each chunk, in order, whether it has rows and the fragment it is from
Source ==
  {s \in [partitioned : BOOLEAN, fragments : Nat, chunks : Seq([rows : BOOLEAN, file : Nat])] :
     \A i \in DOMAIN s.chunks : /\ s.chunks[i].file \in 1..s.fragments
                                /\ \A j \in 1..i : s.chunks[j].file <= s.chunks[i].file}

ASSUME SourcesAssumption == Sources \subseteq Source

VARIABLES
  source,              \* what the scan reads
  pos,                 \* chunks its readers have produced
  current_fragment_index,
  phase,               \* "new", "open", "closed" or "destroyed"
  consumer,            \* control point of the driver's thread
  stopFor,             \* the phase stop_decode_thread() leads to
  outcome,             \* what the last next() did
  delivered,           \* the chunks next() returned, and with whose partition values
  decode_thread,       \* decode_thread_.joinable()
  producer,            \* control point of prefetch_loop()
  producerDevice,      \* current CUDA device of the decode thread
  reader,              \* reader_ exists, and so does decode_stream_ with a decode thread
  queue,               \* queue_
  producer_done, stop_requested, producer_exception,
  events,              \* CUDA events created and not destroyed
  orphans              \* those among them that no chunk carries any more

control == <<phase, consumer, stopFor, outcome, delivered, decode_thread>>
decoder == <<source, pos, producer, producerDevice, current_fragment_index>>
shared == <<queue, producer_done, stop_requested, producer_exception>>
cuda == <<events, orphans>>
vars == <<control, decoder, reader, shared, cuda>>

-----------------------------------------------------------------------------
Init ==
  /\ source \in Sources
  /\ pos = 0 /\ current_fragment_index = 0
  /\ phase = "new" /\ consumer = "idle" /\ stopFor = "new"
  /\ outcome = "none" /\ delivered = <<>>
  /\ decode_thread = FALSE /\ producer = "none" /\ producerDevice = 0
  /\ reader = FALSE
  /\ queue = <<>>
  /\ producer_done = FALSE /\ stop_requested = FALSE
  /\ producer_exception = FALSE
  /\ events = 0 /\ orphans = 0 

\* queue_cv_.notify_all(): a thread asleep tests its predicate again.
Woken(thread, test) == IF thread = "asleep" THEN test ELSE thread

-----------------------------------------------------------------------------
(* The consumer's thread *)

\* open(): every file was pruned away, or the fragments are opened one at a
\* time by next().
OpenLater ==
  /\ phase = "new" /\ (source.fragments = 0 \/ source.partitioned)
  /\ phase' = "open"
  /\ UNCHANGED <<consumer, stopFor, outcome, delivered, decode_thread,
                 decoder, reader, shared, cuda>>

\* open(): the reader cannot be built, or is built and the decode thread
\* cannot be started.
OpenFails ==
  /\ "open" \in Faults
  /\ phase = "new" /\ source.fragments # 0 /\ ~source.partitioned
  /\ phase' = "open" /\ outcome' = "error"
  /\ reader' \in BOOLEAN
  /\ UNCHANGED <<consumer, stopFor, delivered, decode_thread,
                 decoder, shared, cuda>>

\* open(): the reader, its stream and the decode thread are created.  A new
\* thread starts with device 0 current, whatever device its creator uses.
Open ==
  /\ phase = "new" /\ source.fragments # 0 /\ ~source.partitioned
  /\ phase' = "open"
  /\ reader' = TRUE
  /\ decode_thread' = TRUE
  /\ producer' = "decode"
  /\ producerDevice' = 0
  /\ UNCHANGED <<consumer, stopFor, outcome, delivered, source, pos,
                 current_fragment_index, shared, cuda>>

\* The driver calls next(); without fragments it returns nullopt.
Next_Call ==
  /\ phase = "open" /\ consumer = "idle" /\ outcome # "error"
  /\ \/ /\ source.fragments # 0
        /\ consumer' = IF source.partitioned THEN "fragment" ELSE "next"
        /\ UNCHANGED outcome
     \/ /\ source.fragments = 0
        /\ outcome' = "end" /\ UNCHANGED consumer
  /\ UNCHANGED <<phase, stopFor, delivered, decode_thread, decoder, reader,
                 shared, cuda>>

\* Mutant: the wait has no predicate.
NextReady_Unguarded == TRUE

\* The predicate of next()'s wait.
NextReady == queue # <<>> \/ producer_done \/ producer_exception

\* queue_cv_.wait in next(): the predicate is false.
Next_Sleep ==
  /\ consumer = "next" /\ ~NextReady
  /\ consumer' = "asleep"
  /\ UNCHANGED <<phase, stopFor, outcome, delivered, decode_thread, decoder,
                 reader, shared, cuda>>

\* next() past its wait: rethrow, or nothing left, or hand out the chunk and
\* wake the decode thread; the chunk's event is awaited and destroyed.
Next_Return ==
  /\ consumer = "next" /\ NextReady
  /\ consumer' = "idle"
  /\ IF producer_exception
     THEN outcome' = "error" /\ UNCHANGED <<delivered, queue, producer, cuda>>
     ELSE IF queue = <<>>
     THEN outcome' = "end" /\ UNCHANGED <<delivered, queue, producer, cuda>>
     ELSE /\ outcome' = "batch"
          /\ delivered' = Append(delivered, [chunk |-> Head(queue), values |-> 0])
          /\ queue' = Tail(queue)
          /\ events' = events - 1 /\ UNCHANGED orphans
          /\ producer' = Woken(producer, "push")
  /\ UNCHANGED <<phase, stopFor, decode_thread, source, pos, producerDevice,
                 current_fragment_index, reader, producer_done, stop_requested,
                 producer_exception>>

\* next() popped the chunk and woke the decode thread, but cudaStreamWaitEvent
\* fails: the chunk is lost and nobody destroys its event.
Next_WaitFails ==
  /\ "event" \in Faults
  /\ consumer = "next" /\ queue # <<>> /\ ~producer_exception
  /\ consumer' = "idle" /\ outcome' = "error"
  /\ queue' = Tail(queue)
  /\ orphans' = orphans + 1
  /\ producer' = Woken(producer, "push")
  /\ UNCHANGED <<phase, stopFor, delivered, decode_thread, source, pos,
                 producerDevice, current_fragment_index, reader, producer_done,
                 stop_requested, producer_exception, events>>

\* Per-fragment mode: a reader for the current fragment, or nothing left.
OpenFragment ==
  /\ consumer = "fragment" /\ ~reader
  /\ \/ /\ current_fragment_index < source.fragments
        /\ reader' = TRUE /\ UNCHANGED <<consumer, outcome>>
     \/ /\ "open" \in Faults /\ current_fragment_index < source.fragments
        /\ consumer' = "idle" /\ outcome' = "error" /\ UNCHANGED reader
     \/ /\ current_fragment_index >= source.fragments
        /\ consumer' = "idle" /\ outcome' = "end" /\ UNCHANGED reader
  /\ UNCHANGED <<phase, stopFor, delivered, decode_thread, decoder, shared, cuda>>

\* has_next() of the current fragment's reader, which knows of no other.
FragmentHasNext ==
  /\ pos < Len(source.chunks)
  /\ source.chunks[pos + 1].file = current_fragment_index + 1

\* The reader is exhausted: on to the next fragment.
NextFragment ==
  /\ consumer = "fragment" /\ reader /\ ~FragmentHasNext
  /\ reader' = FALSE
  /\ current_fragment_index' = current_fragment_index + 1
  /\ UNCHANGED <<control, source, pos, producer, producerDevice, shared, cuda>>

\* read_chunk() in next(): an empty chunk is passed over, another one is
\* returned with the partition values of the current fragment.
ReadFragment ==
  /\ consumer = "fragment" /\ reader /\ FragmentHasNext
  /\ pos' = pos + 1
  /\ IF source.chunks[pos + 1].rows
     THEN /\ consumer' = "idle" /\ outcome' = "batch"
          /\ delivered' = Append(delivered, [chunk |-> pos + 1, values |-> current_fragment_index + 1])
     ELSE UNCHANGED <<consumer, outcome, delivered>>
  /\ UNCHANGED <<phase, stopFor, decode_thread, source, producer, producerDevice,
                 current_fragment_index, reader, shared, cuda>>

\* has_next() or read_chunk() throws; the reader stays.
ReadFragmentFails ==
  /\ "decode" \in Faults
  /\ consumer = "fragment" /\ reader
  /\ consumer' = "idle" /\ outcome' = "error"
  /\ UNCHANGED <<phase, stopFor, delivered, decode_thread, decoder, reader, shared, cuda>>

\* stop_decode_thread(), from close() or from the destructor.
Stop(after) ==
  /\ consumer = "idle"
  /\ stopFor' = after
  /\ IF decode_thread
     THEN /\ stop_requested' = TRUE
          /\ producer' = Woken(producer, "push")
          /\ consumer' = "join"
     ELSE consumer' = "drain" /\ UNCHANGED <<stop_requested, producer>>
  /\ UNCHANGED <<phase, outcome, delivered, decode_thread, source, pos,
                 producerDevice, current_fragment_index, reader, queue, producer_done,
                 producer_exception, cuda>>

Close == phase = "open" /\ outcome # "error" /\ Stop("closed")

Destroy == phase \in {"open", "closed"} /\ Stop("destroyed")

\* Mutant: the thread is detached.
Join_Detached ==
  /\ consumer = "join"
  /\ decode_thread' = FALSE
  /\ consumer' = "drain"
  /\ UNCHANGED <<phase, stopFor, outcome, delivered, decoder, reader, shared,
                 cuda>>

\* decode_thread_.join().
Join ==
  /\ consumer = "join" /\ producer = "exited"
  /\ decode_thread' = FALSE
  /\ consumer' = "drain"
  /\ UNCHANGED <<phase, stopFor, outcome, delivered, decoder, reader, shared,
                 cuda>>

\* Mutant: queued chunks are dropped with their events.
Drain_Leaky ==
  /\ consumer = "drain"
  /\ queue' = <<>> /\ UNCHANGED cuda
  /\ producer_done' = FALSE /\ stop_requested' = FALSE
  /\ producer_exception' = FALSE
  /\ reader' = FALSE
  /\ consumer' = "idle" /\ phase' = stopFor
  /\ UNCHANGED <<stopFor, outcome, delivered, decode_thread, decoder>>

\* Mutant: an event is destroyed whether or not a chunk is queued.
Drain_Unconditional ==
  /\ consumer = "drain"
  /\ queue' = <<>> /\ events' = events - 1 /\ UNCHANGED orphans
  /\ producer_done' = FALSE /\ stop_requested' = FALSE
  /\ producer_exception' = FALSE
  /\ reader' = FALSE
  /\ consumer' = "idle" /\ phase' = stopFor
  /\ UNCHANGED <<stopFor, outcome, delivered, decode_thread, decoder>>

\* The rest of stop_decode_thread().
Drain ==
  /\ consumer = "drain"
  /\ queue' = <<>> /\ events' = events - Len(queue) /\ UNCHANGED orphans
  /\ producer_done' = FALSE /\ stop_requested' = FALSE
  /\ producer_exception' = FALSE
  /\ reader' = FALSE
  /\ consumer' = "idle" /\ phase' = stopFor
  /\ UNCHANGED <<stopFor, outcome, delivered, decode_thread, decoder>>

-----------------------------------------------------------------------------
(* The decode thread: prefetch_loop() *)

\* has_next() and read_chunk(); an empty chunk is passed over.
Decode ==
  /\ producer = "decode"
  /\ IF pos = Len(source.chunks)
     THEN producer' = "finish" /\ UNCHANGED pos
     ELSE /\ pos' = pos + 1
          /\ producer' = IF source.chunks[pos + 1].rows THEN "create" ELSE "decode"
  /\ UNCHANGED <<control, source, producerDevice, current_fragment_index, reader, shared, cuda>>

DecodeFails ==
  /\ "decode" \in Faults
  /\ producer = "decode"
  /\ producer' = "catch"
  /\ UNCHANGED <<control, source, pos, producerDevice, current_fragment_index, reader,
                 shared, cuda>>

\* cudaEventCreateWithFlags: the event belongs to the thread's current device.
CreateEvent ==
  /\ producer = "create"
  /\ \/ producer' = "record" /\ events' = events + 1
     \/ "event" \in Faults /\ producer' = "catch" /\ UNCHANGED events
  /\ UNCHANGED <<control, source, pos, producerDevice, current_fragment_index, reader,
                 shared, orphans>>

\* cudaEventRecord on decode_stream_, which lives on the query's device: an
\* event of another device is refused.  On failure nobody destroys the event.
RecordEvent ==
  /\ producer = "record"
  /\ \/ /\ producerDevice = QueryDevice
        /\ producer' = "push" /\ UNCHANGED orphans
     \/ /\ producerDevice # QueryDevice \/ "event" \in Faults
        /\ producer' = "catch" /\ orphans' = orphans + 1
  /\ UNCHANGED <<control, source, pos, producerDevice, current_fragment_index, reader,
                 shared, events>>

\* Mutant: the decode thread never waits for the slot.
PushReady_Always == TRUE

\* The predicate of prefetch_loop()'s wait.
PushReady == queue = <<>> \/ stop_requested

\* queue_cv_.wait in prefetch_loop(): the predicate is false.
Push_Sleep ==
  /\ producer = "push" /\ ~PushReady
  /\ producer' = "asleep"
  /\ UNCHANGED <<control, source, pos, producerDevice, current_fragment_index, reader,
                 shared, cuda>>

\* Past the wait: give up on a stop request, destroying the event, or push the
\* chunk and wake the consumer.
Push ==
  /\ producer = "push" /\ PushReady
  /\ IF stop_requested
     THEN /\ producer' = "exited" /\ events' = events - 1
          /\ UNCHANGED <<queue, consumer>>
     ELSE /\ queue' = Append(queue, pos)
          /\ producer' = "decode"
          /\ consumer' = Woken(consumer, "next")
          /\ UNCHANGED events
  /\ UNCHANGED <<phase, stopFor, outcome, delivered, decode_thread, source,
                 pos, producerDevice, current_fragment_index, reader, producer_done,
                 stop_requested, producer_exception, orphans>>

\* Mutant: no notify_all on the way out.
Exit_Silent ==
  /\ \/ producer = "catch" /\ producer_exception' = TRUE
                           /\ UNCHANGED producer_done
     \/ producer = "finish" /\ producer_done' = TRUE
                            /\ UNCHANGED producer_exception
  /\ producer' = "exited"
  /\ UNCHANGED <<control, source, pos, producerDevice, current_fragment_index, reader,
                 queue, stop_requested, cuda>>

\* The catch block, or the end of the loop; both wake the consumer.
Exit ==
  /\ \/ producer = "catch" /\ producer_exception' = TRUE
                           /\ UNCHANGED producer_done
     \/ producer = "finish" /\ producer_done' = TRUE
                            /\ UNCHANGED producer_exception
  /\ producer' = "exited"
  /\ consumer' = Woken(consumer, "next")
  /\ UNCHANGED <<phase, stopFor, outcome, delivered, decode_thread, source,
                 pos, producerDevice, current_fragment_index, reader, queue,
                 stop_requested, cuda>>

\* A condition variable may wake its waiter for no reason.
SpuriousWakeup ==
  /\ consumer = "asleep" \/ producer = "asleep"
  /\ consumer' = Woken(consumer, "next")
  /\ producer' = Woken(producer, "push")
  /\ UNCHANGED <<phase, stopFor, outcome, delivered, decode_thread, source,
                 pos, producerDevice, current_fragment_index, reader, shared, cuda>>

-----------------------------------------------------------------------------
ConsumerStep ==
  \/ Next_Sleep \/ Next_Return \/ Next_WaitFails \/ Join \/ Drain
  \/ OpenFragment \/ NextFragment \/ ReadFragment
ProducerStep ==
  \/ Decode \/ CreateEvent \/ RecordEvent \/ Push_Sleep \/ Push \/ Exit
DriverCall ==
  \/ OpenLater \/ OpenFails \/ Open \/ Next_Call \/ Close \/ Destroy

Finished == phase = "destroyed" /\ UNCHANGED vars

Next ==
  \/ ConsumerStep \/ ProducerStep \/ DriverCall
  \/ DecodeFails \/ ReadFragmentFails \/ SpuriousWakeup \/ Finished

Spec == Init /\ [][Next]_vars

\* Both threads keep running once inside the operator; the driver need not
\* call anything.
FairSpec == Spec /\ WF_vars(ConsumerStep) /\ WF_vars(ProducerStep)

-----------------------------------------------------------------------------
TypeOK ==
  /\ source \in Source
  /\ pos \in Nat /\ current_fragment_index \in Nat
  /\ phase \in {"new", "open", "closed", "destroyed"}
  /\ consumer \in {"idle", "next", "asleep", "fragment", "join", "drain"}
  /\ stopFor \in {"new", "closed", "destroyed"}
  /\ outcome \in {"none", "batch", "end", "error"}
  /\ delivered \in Seq([chunk : Nat, values : Nat])
  /\ decode_thread \in BOOLEAN
  /\ producer \in {"none", "decode", "create", "record", "push", "asleep",
                   "catch", "finish", "exited"}
  /\ producerDevice \in Nat
  /\ reader \in BOOLEAN
  /\ queue \in Seq(Nat)
  /\ producer_done \in BOOLEAN
  /\ stop_requested \in BOOLEAN
  /\ producer_exception \in BOOLEAN
  /\ events \in Nat /\ orphans \in Nat

\* What a scan owes its consumer: the chunks with rows, each with the
\* partition values, if any, of the file it was read from.
Owed == {c \in DOMAIN source.chunks : source.chunks[c].rows}
ValuesOf(c) == IF source.partitioned THEN source.chunks[c].file ELSE 0

Given == {delivered[i].chunk : i \in DOMAIN delivered}

\* In file order, each once, none left out and each with its own values.
InOrder ==
  \A i \in DOMAIN delivered :
    /\ delivered[i].chunk \in Owed
    /\ delivered[i].values = ValuesOf(delivered[i].chunk)
    /\ \A j \in 1..(i - 1) : delivered[j].chunk < delivered[i].chunk
    /\ \A c \in Owed : c < delivered[i].chunk => c \in Given

\* next() hands out the chunks with rows in file order, each once, none left
\* out and each with its own file's partition values, and reports the end only
\* after the last of them.
InOrderOnce ==
  /\ InOrder
  /\ phase = "open" /\ outcome = "end" => Owed \subseteq Given

\* Every CUDA event alive belongs to a chunk in the queue or to the chunk the
\* decode thread is about to push, but for those a failed CUDA call orphaned,
\* at most two in a scan; a scan that was closed or destroyed has no other.
EventsAccounted ==
  /\ events = orphans + Len(queue)
                + (IF producer \in {"record", "push", "asleep"} THEN 1 ELSE 0)
  /\ orphans <= 2
  /\ phase \in {"closed", "destroyed"} /\ consumer = "idle" =>
       events = orphans

\* The decode thread uses reader_ and decode_stream_ only while they exist, and
\* is never left running (or joinable) by a close or a destruction.
ReaderOutlivesDecoding ==
  /\ producer \notin {"none", "exited"} => reader /\ decode_thread
  /\ phase \in {"closed", "destroyed"} => ~decode_thread

\* Chunks decoded and not yet handed to the consumer.
ReadAhead ==
  Len(queue) + (IF producer \in {"create", "record", "push", "asleep"}
                THEN 1 ELSE 0)

\* At most two decoded chunks wait: one in the slot, one in the decode
\* thread's hands.
BoundedReadAhead == Len(queue) <= 1 /\ ReadAhead <= 2

\* A scan meets no error of its own making, whichever device its query was
\* dispatched to.
RunsOnAnyDevice == Faults = {} => outcome # "error"

\* A call of next() returns, and a close or a destruction gets past its join:
\* no wakeup is lost and neither thread waits for the other for good.
CallsReturn == consumer \in {"next", "fragment", "join"} ~> consumer = "idle"

=============================================================================
