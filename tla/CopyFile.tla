------------------------------ MODULE CopyFile ------------------------------
(***************************************************************************)
(* The copyfile example (examples/src/bin/copyfile.rs) on the library's    *)
(* io_scope: a pool of buffers, one future per block that reads and then   *)
(* writes, results taken in the order in which they arrive, and the        *)
(* draining of the other futures after an error.                           *)
(***************************************************************************)
EXTENDS Integers, Sequences, SequencesExt

CONSTANTS
    BlockSize,
    InFlights,  \* values of --in-flight
    Counts,     \* values of --count; None copies until the end of the file
    Lengths,    \* lengths of the source
    Partial,    \* whether a transfer may move less than it could
    None

Hole == -1  \* a byte of the destination that was not written

VARIABLES
    args,           \* [in_flight, count, length]
    pc,
    buffer_pool,
    data,           \* buffer -> offset in the source its content was read from
    next_block,
    copy_complete,
    in_flight_ops,  \* set of [block, buffer, stage, n, canceled]
    total_bytes_copied,
    destination,    \* position -> position of the source, or Hole
    result

loop_vars == <<buffer_pool, next_block, copy_complete, total_bytes_copied>>
vars == <<args, pc, data, in_flight_ops, destination, result, loop_vars>>

Ok(n) == [error |-> None, of |-> n]
Err(e) == [error |-> e, of |-> 0]
Low(a, b) == IF a < b THEN a ELSE b
High(a, b) == IF a < b THEN b ELSE a

Arguments == [in_flight : InFlights, count : Counts, length : Lengths]
Positions == 0 .. BlockSize + CHOOSE n \in Lengths : \A m \in Lengths : m <= n

\* run_copy up to its first await: the validated arguments.
Init ==
    /\ args \in Arguments
    /\ pc = IF args.in_flight = 0 THEN "done" ELSE "open_source_file"
    /\ result = IF args.in_flight = 0 THEN Err("in-flight") ELSE Ok(0)
    /\ buffer_pool = [i \in 1 .. args.in_flight |-> i]
    /\ data = [i \in 1 .. args.in_flight |-> 0]
    /\ next_block = 0
    /\ copy_complete = FALSE
    /\ in_flight_ops = {}
    /\ total_bytes_copied = 0
    /\ destination = [i \in Positions |-> Hole]

\* The two opens and the final fsync: each ends the program when it fails.
open_source_file ==
    /\ pc = "open_source_file"
    /\ \/ pc' = "open_dest_file" /\ UNCHANGED result
       \/ pc' = "done" /\ result' = Err("open")
    /\ UNCHANGED <<args, data, in_flight_ops, destination, loop_vars>>

open_dest_file ==
    /\ pc = "open_dest_file"
    /\ \/ pc' = "copy" /\ UNCHANGED result
       \/ pc' = "done" /\ result' = Err("open")
    /\ UNCHANGED <<args, data, in_flight_ops, destination, loop_vars>>

fsync ==
    /\ pc = "fsync"
    /\ pc' = "done"
    /\ \/ UNCHANGED result
       \/ result' = Err("fsync")
    /\ UNCHANGED <<args, data, in_flight_ops, destination, loop_vars>>

\* Mutant: a block that ended the file does not stop the issue of others, and
\* their number is not limited either.
should_copy_more_Always == args.count # None => next_block <= args.count

should_copy_more ==
    /\ ~copy_complete
    /\ args.count # None => next_block < args.count

\* The inner loop takes a buffer and pushes a future for the next block; the
\* task polls it at once, which submits the read.
Issue ==
    /\ pc = "copy"
    /\ buffer_pool # <<>>
    /\ should_copy_more
    /\ in_flight_ops' = in_flight_ops \cup
          {[block |-> next_block, buffer |-> Last(buffer_pool), stage |-> "reading",
            n |-> 0, canceled |-> FALSE]}
    /\ buffer_pool' = Front(buffer_pool)
    /\ next_block' = next_block + 1
    /\ UNCHANGED <<args, pc, data, destination, result, copy_complete, total_bytes_copied>>

Filled == buffer_pool = <<>> \/ ~should_copy_more
Replace(o, p) == in_flight_ops' = (in_flight_ops \ {o}) \cup {p}
Offset(o) == o.block * BlockSize
Left(o) == High(0, Low(BlockSize, args.length - Offset(o)))

\* The kernel fills the buffer from the source.
KernelReads(o) ==
    /\ o.stage = "reading"
    /\ \E n \in IF Partial /\ Left(o) > 0 THEN 1 .. Left(o) ELSE {Left(o)} :
          Replace(o, [o EXCEPT !.stage = "read", !.n = n])
    /\ data' = [data EXCEPT ![o.buffer] = Offset(o)]
    /\ UNCHANGED <<args, pc, destination, result, loop_vars>>

\* The kernel writes the first n bytes of the buffer at the block's offset.
KernelWrites(o) ==
    /\ o.stage = "writing"
    /\ \E n \in IF Partial THEN 1 .. o.n ELSE {o.n} :
          destination' = [i \in Positions |->
             IF i >= Offset(o) /\ i < Offset(o) + n
             THEN data[o.buffer] + i - Offset(o) ELSE destination[i]]
    /\ Replace(o, [o EXCEPT !.stage = "written"])
    /\ UNCHANGED <<args, pc, data, result, loop_vars>>

\* A transfer fails, or ends because it was asked to.
KernelFails(o) ==
    /\ o.stage \in {"reading", "writing"}
    /\ Replace(o, [o EXCEPT !.stage = "failed"])
    /\ UNCHANGED <<args, pc, data, destination, result, loop_vars>>

KernelCancels(o) ==
    /\ o.canceled
    /\ o.stage \in {"reading", "writing"}
    /\ Replace(o, [o EXCEPT !.stage = "canceled"])
    /\ UNCHANGED <<args, pc, data, destination, result, loop_vars>>

\* The future of a block whose read returned bytes submits the write.
Write(o) ==
    /\ pc \in {"copy", "drain"}
    /\ pc = "copy" => Filled
    /\ o.stage = "read" /\ o.n > 0
    /\ Replace(o, [o EXCEPT !.stage = "writing", !.canceled = FALSE])
    /\ UNCHANGED <<args, pc, data, destination, result, loop_vars>>

\* The future's result: what in_flight_ops.next() hands to the loop.
Output(o) ==
    CASE o.stage = "failed"   -> Err("EIO")
      [] o.stage = "canceled" -> Err("ECANCELED")
      [] o.stage = "written"  -> Ok(o.n)
      [] o.stage = "read"     -> Ok(0)

Finished(o) ==
    o.stage \in {"failed", "canceled", "written"} \/ (o.stage = "read" /\ o.n = 0)

\* Mutant: the end of the file also ends the loop, whatever is in flight.
NextOk_Returns(o) ==
    /\ Output(o).error = None
    /\ copy_complete' = (copy_complete \/ Output(o).of = 0)
    /\ total_bytes_copied' = total_bytes_copied + Output(o).of
    /\ buffer_pool' = Append(buffer_pool, o.buffer)
    /\ in_flight_ops' = in_flight_ops \ {o}
    /\ IF copy_complete' THEN pc' = "fsync" /\ result' = Ok(total_bytes_copied')
                         ELSE UNCHANGED <<pc, result>>
    /\ UNCHANGED next_block

\* Some(Ok(result)): the buffer is recycled.
NextOk(o) ==
    /\ Output(o).error = None
    /\ copy_complete' = (copy_complete \/ Output(o).of = 0)
    /\ total_bytes_copied' = total_bytes_copied + Output(o).of
    /\ buffer_pool' = Append(buffer_pool, o.buffer)
    /\ in_flight_ops' = in_flight_ops \ {o}
    /\ UNCHANGED <<next_block, pc, result>>

\* io_scope_cancel: what is in the kernel is asked to end.
io_scope_cancel(ops) ==
    {[p EXCEPT !.canceled = p.stage \in {"reading", "writing"}] : p \in ops}

\* Some(Err(e)): io_scope_drain_futures keeps e and cancels.
NextErr(o) ==
    /\ Output(o).error # None
    /\ result' = Output(o)
    /\ in_flight_ops' = io_scope_cancel(in_flight_ops \ {o})
    /\ pc' = "drain"
    /\ UNCHANGED loop_vars

Next_op(o) ==
    /\ pc = "copy" /\ Filled
    /\ Finished(o)
    /\ NextOk(o) \/ NextErr(o)
    /\ UNCHANGED <<args, data, destination>>

\* None: the loop is left with the number of bytes, and the file is flushed.
Break ==
    /\ pc = "copy" /\ Filled
    /\ in_flight_ops = {}
    /\ pc' = "fsync"
    /\ result' = Ok(total_bytes_copied)
    /\ UNCHANGED <<args, data, in_flight_ops, destination, loop_vars>>

\* Mutant: the last error wins.
Drain_Last(o) ==
    /\ pc = "drain"
    /\ Finished(o)
    /\ result' = IF Output(o).error # None THEN Output(o) ELSE result
    /\ in_flight_ops' = in_flight_ops \ {o}
    /\ UNCHANGED <<args, pc, data, destination, loop_vars>>

\* The loop of io_scope_drain_futures: later results are ignored.
Drain(o) ==
    /\ pc = "drain"
    /\ Finished(o)
    /\ in_flight_ops' = in_flight_ops \ {o}
    /\ UNCHANGED <<args, pc, data, destination, result, loop_vars>>

Drained ==
    /\ pc = "drain"
    /\ in_flight_ops = {}
    /\ pc' = "done"
    /\ UNCHANGED <<args, data, in_flight_ops, destination, result, loop_vars>>

\* main: the process exits.
Exit == pc = "done" /\ UNCHANGED vars

Step(o) == Write(o) \/ Next_op(o) \/ Drain(o)
Kernel(o) == KernelReads(o) \/ KernelWrites(o) \/ KernelFails(o) \/ KernelCancels(o)

Next ==
    \/ open_source_file \/ open_dest_file \/ fsync
    \/ Issue \/ Break \/ Drained \/ Exit
    \/ \E o \in in_flight_ops : Step(o) \/ Kernel(o)

\* The task is polled when there is something for it, and a transfer between
\* files ends.
Progress == open_source_file \/ open_dest_file \/ fsync \/ Issue \/ Break \/ Drained

Fairness ==
    /\ WF_vars(Progress)
    /\ WF_vars(\E o \in in_flight_ops : Step(o))
    /\ WF_vars(\E o \in in_flight_ops : Kernel(o))

Spec == Init /\ [][Next]_vars /\ Fairness

-----------------------------------------------------------------------------
TypeOK ==
    /\ args \in Arguments
    /\ pc \in {"open_source_file", "open_dest_file", "copy", "drain", "fsync", "done"}
    /\ data \in [1 .. args.in_flight -> Nat]
    /\ Len(buffer_pool) <= args.in_flight
    /\ in_flight_ops \subseteq
          [block : 0 .. next_block, buffer : 1 .. args.in_flight, n : 0 .. BlockSize,
           stage : {"reading", "read", "writing", "written", "failed", "canceled"},
           canceled : BOOLEAN]
    /\ destination \in [Positions -> {Hole} \cup Positions]

Wanted ==
    IF args.count = None THEN args.length ELSE Low(args.length, args.count * BlockSize)

\* When the copy returns Ok, the destination is the wanted prefix of the source,
\* byte for byte, and the reported number is its length, although blocks complete
\* in any order and several reads pass the end of the file (copyfile.rs:256,
\* :332).  In the end, after an error too, no future is left in flight, and
\* the error is the one that came first, not the cancellation it caused
\* (operations.rs:1803).
CopyExact ==
    /\ pc \in {"fsync", "done"} => in_flight_ops = {}
    /\ pc \in {"fsync", "done"} /\ result.error = None =>
          /\ result.of = Wanted
          /\ \A i \in Positions : destination[i] = IF i < Wanted THEN i ELSE Hole
    /\ result.error # "ECANCELED"

\* The copy ends: no buffer is lost, and the loop does not go on beyond the end
\* of the source.
CopyEnds == []<>(pc = "done")
=============================================================================
