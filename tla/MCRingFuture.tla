---------------------------- MODULE MCRingFuture ----------------------------
EXTENDS RingFuture, TLC

CONSTANTS f1, f2

T == INSTANCE OperationTable

kind(request, timespec) ==
    [resources |-> request.resources, needs_drop |-> T!needs_drop(request),
     timespec |-> timespec, iopoll |-> request.iopoll]

\* One future is a recv with a timeout, the other an open, a close, a sleep or a
\* pread_polled.
MCKinds ==
    (f1 :> {kind(T!recv, TRUE)}) @@
    (f2 :> {kind(T!open, FALSE), kind(T!close, FALSE), kind(T!sleep, FALSE),
            kind(T!pread_polled, FALSE)})
=============================================================================
