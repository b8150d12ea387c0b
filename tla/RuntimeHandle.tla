--------------------------- MODULE RuntimeHandle ---------------------------
(* Calls into a runtime from other threads (runtime_handle.rs): clients open *)
(* channels through the runtime's pipe, the server task starts an invoke     *)
(* loop per channel, and the loop spawns a task per request.  Messages are   *)
(* delivered as MessagePipe shows.  A runtime may be entered again: its pipe *)
(* outlives block_on.                                                        *)
EXTENDS Integers, Sequences, FiniteSets, SequencesExt

CONSTANTS
    Channels, Values,
    MaxRuns,   \* bound: calls of block_on
    MaxCalls,  \* bound: calls of invoke per channel
    None

VARIABLES
    exit,      \* ExitBehavior
    main,      \* "running", "done", "out" (block_on has returned)
    server,    \* the server task: "running", "done"
    runs, calls,
    mailbox,   \* the runtime's pipe: channels to open, "Shutdown"
    loop,      \* per channel: "none", "sent", "running", "done"
    client,    \* per channel: "none", "idle", "waiting" (in invoke), "closed"
    value,     \* per channel: the argument of the call
    requests, tasks, replies,  \* per channel: in the pipe, being computed, in the pipe back
    answer,    \* per channel: argument and result of the last call that returned
    dropped    \* history: an invoke of the channel was dropped after its request was sent

vars == <<exit, main, server, runs, calls, mailbox, loop, client, value, requests, tasks,
          replies, answer, dropped>>
runtime == <<exit, main, server, runs, mailbox>>
pipes == <<requests, tasks, replies>>

Init ==
    /\ exit \in {"WhenEmpty", "WhenMainTaskCompletes"}
    /\ main = "running" /\ server = "running" /\ runs = 1
    /\ calls = [c \in Channels |-> 0] /\ mailbox = <<>>
    /\ loop = [c \in Channels |-> "none"] /\ client = [c \in Channels |-> "none"]
    /\ value = [c \in Channels |-> None]
    /\ requests = [c \in Channels |-> <<>>] /\ tasks = [c \in Channels |-> <<>>]
    /\ replies = [c \in Channels |-> <<>>]
    /\ answer = [c \in Channels |-> None] /\ dropped = [c \in Channels |-> FALSE]

Set(f, c, v) == [f EXCEPT ![c] = v]

\* The server's end of a channel: in the request that opens it, in the loop and in
\* the tasks.
ServerEnd(c) == loop[c] \in {"sent", "running"} \/ tasks[c] # <<>>

-----------------------------------------------------------------------------
(* The client.                                                              *)

\* open_channel, open_channel_sync: the request is written to the pipe.
open_channel(c) ==
    /\ client[c] = "none"
    /\ client' = Set(client, c, "idle") /\ loop' = Set(loop, c, "sent")
    /\ mailbox' = Append(mailbox, c)
    /\ UNCHANGED <<exit, main, server, runs, calls, value, pipes, answer, dropped>>

\* Under the lock: the request is written, or the write fails with EPIPE.
invoke(c, v) ==
    /\ client[c] = "idle" /\ calls[c] < MaxCalls
    /\ calls' = [calls EXCEPT ![c] = @ + 1]
    /\ IF ServerEnd(c)
       THEN /\ client' = Set(client, c, "waiting") /\ value' = Set(value, c, v)
            /\ requests' = [requests EXCEPT ![c] = Append(@, v)]
       ELSE UNCHANGED <<client, value, requests>>
    /\ UNCHANGED <<runtime, loop, tasks, replies, answer, dropped>>

\* recv_message: a result or a panic, or EPIPE.  A panic is resumed in the caller.
InvokeReturns(c) ==
    /\ client[c] = "waiting"
    /\ \/ /\ replies[c] # <<>>
          /\ answer' = Set(answer, c, <<value[c], Head(replies[c])>>)
          /\ replies' = Set(replies, c, Tail(replies[c]))
       \/ replies[c] = <<>> /\ ~ServerEnd(c) /\ UNCHANGED <<answer, replies>>
    /\ client' = Set(client, c, "idle") /\ value' = Set(value, c, None)
    /\ UNCHANGED <<runtime, calls, loop, requests, tasks, dropped>>

\* The future of invoke is dropped, and the lock with it.
DropInvoke(c) ==
    /\ client[c] = "waiting"
    /\ client' = Set(client, c, "idle") /\ value' = Set(value, c, None)
    /\ dropped' = Set(dropped, c, TRUE)
    /\ UNCHANGED <<runtime, calls, loop, pipes, answer>>

\* close, and the drop of RuntimeClientPipeSync: a None, and the client's end closes.
close(c) ==
    /\ client[c] = "idle"
    /\ client' = Set(client, c, "closed")
    /\ requests' = [requests EXCEPT ![c] = IF ServerEnd(c) THEN Append(@, None) ELSE @]
    /\ replies' = Set(replies, c, <<>>)
    /\ UNCHANGED <<runtime, calls, loop, value, tasks, answer, dropped>>

\* A RuntimeClientPipe is dropped without close: its end of the pipe goes silently.
DropClient(c) ==
    /\ client[c] = "idle"
    /\ client' = Set(client, c, "closed") /\ replies' = Set(replies, c, <<>>)
    /\ UNCHANGED <<runtime, calls, loop, value, requests, tasks, answer, dropped>>

-----------------------------------------------------------------------------
(* The runtime.                                                             *)

\* runtime_server
runtime_server ==
    /\ main # "out" /\ server = "running" /\ mailbox # <<>>
    /\ mailbox' = Tail(mailbox)
    /\ IF Head(mailbox) = "Shutdown"
       THEN server' = "done" /\ UNCHANGED loop
       ELSE loop' = Set(loop, Head(mailbox), "running") /\ UNCHANGED server
    /\ UNCHANGED <<exit, main, runs, calls, client, value, pipes, answer, dropped>>

\* Mutant: the loop answers with the argument of an earlier request.
invoke_loop_Stale(c) ==
    /\ main # "out" /\ loop[c] = "running" /\ requests[c] # <<>>
    /\ requests' = Set(requests, c, Tail(requests[c]))
    /\ IF Head(requests[c]) = None
       THEN loop' = Set(loop, c, "done") /\ UNCHANGED tasks
       ELSE /\ tasks' = [tasks EXCEPT ![c] = Append(@, IF answer[c] = None
                                                       THEN Head(requests[c]) ELSE answer[c][1])]
            /\ UNCHANGED loop
    /\ UNCHANGED <<runtime, calls, client, value, replies, answer, dropped>>

\* invoke_loop: a task for each request, until a None, or until the client has gone.
\* EPIPE is ignored by create_open_request, any other error (the reset by a client
\* that left replies unread) is a panic: either ends the task of the loop.
invoke_loop(c) ==
    /\ main # "out" /\ loop[c] = "running"
    /\ \/ /\ requests[c] # <<>> /\ requests' = Set(requests, c, Tail(requests[c]))
          /\ IF Head(requests[c]) = None
             THEN loop' = Set(loop, c, "done") /\ UNCHANGED tasks
             ELSE /\ tasks' = [tasks EXCEPT ![c] = Append(@, Head(requests[c]))]
                  /\ UNCHANGED loop
       \/ /\ requests[c] = <<>> /\ client[c] = "closed"
          /\ loop' = Set(loop, c, "done") /\ UNCHANGED <<requests, tasks>>
    /\ UNCHANGED <<runtime, calls, client, value, replies, answer, dropped>>

\* A task ends with f's result or with its panic, and sends it back; a channel whose
\* client has gone is ignored.
TaskReplies(c, i) ==
    /\ main # "out" /\ i \in DOMAIN tasks[c]
    /\ tasks' = [tasks EXCEPT ![c] = RemoveAt(@, i)]
    /\ \E how \in {"result", "panic"} :
          replies' = [replies EXCEPT ![c] = IF client[c] = "closed" THEN @
                                            ELSE Append(@, <<how, tasks[c][i]>>)]
    /\ UNCHANGED <<runtime, calls, loop, client, value, requests, answer, dropped>>

\* The main task ends; the guard of block_on sends Shutdown (close_sync).
MainEnds ==
    /\ main = "running"
    /\ main' = "done" /\ mailbox' = Append(mailbox, "Shutdown")
    /\ UNCHANGED <<exit, server, runs, calls, loop, client, value, pipes, answer, dropped>>

\* Mutant: the futures of the tasks are kept.
BlockOnReturns_Keeps ==
    /\ main = "done"
    /\ exit = "WhenMainTaskCompletes" \/ (/\ server = "done" /\ \A c \in Channels : tasks[c] = <<>>
                                          /\ \A c \in Channels : loop[c] # "running")
    /\ main' = "out"
    /\ UNCHANGED <<exit, server, runs, calls, mailbox, loop, client, value, pipes, answer, dropped>>

\* block_on returns: when the main task is complete, or when all tasks are.  The
\* futures of the tasks that are left are dropped, and the server's ends with them.
BlockOnReturns ==
    /\ main = "done"
    /\ exit = "WhenMainTaskCompletes" \/ (/\ server = "done" /\ \A c \in Channels : tasks[c] = <<>>
                                          /\ \A c \in Channels : loop[c] # "running")
    /\ main' = "out" /\ server' = "done"
    /\ loop' = [c \in Channels |-> IF loop[c] = "running" THEN "done" ELSE loop[c]]
    /\ tasks' = [c \in Channels |-> <<>>]
    /\ requests' = [c \in Channels |-> IF loop[c] = "running" THEN <<>> ELSE requests[c]]
    /\ UNCHANGED <<exit, runs, calls, mailbox, client, value, replies, answer, dropped>>

\* block_on is called again, with a new main task and a new server on the same pipe.
block_on ==
    /\ main = "out" /\ runs < MaxRuns
    /\ main' = "running" /\ server' = "running" /\ runs' = runs + 1
    /\ UNCHANGED <<exit, calls, mailbox, loop, client, value, pipes, answer, dropped>>

Next ==
    \/ \E c \in Channels : \/ open_channel(c) \/ InvokeReturns(c) \/ DropInvoke(c) \/ close(c)
                           \/ DropClient(c) \/ invoke_loop(c)
    \/ \E c \in Channels, v \in Values : invoke(c, v)
    \/ \E c \in Channels, i \in 1..MaxCalls : TaskReplies(c, i)
    \/ runtime_server \/ MainEnds \/ BlockOnReturns \/ block_on

\* The runtime polls its tasks, the function ends, and a waiting client runs when
\* its read completes.
Fairness ==
    /\ WF_vars(runtime_server) /\ WF_vars(BlockOnReturns)
    /\ \A c \in Channels : WF_vars(invoke_loop(c)) /\ WF_vars(InvokeReturns(c))
    /\ \A c \in Channels : WF_vars(TaskReplies(c, 1))

Spec == Init /\ [][Next]_vars /\ Fairness

-----------------------------------------------------------------------------

TypeOK ==
    /\ main \in {"running", "done", "out"} /\ server \in {"running", "done"}
    /\ mailbox \in Seq(Channels \cup {"Shutdown"})
    /\ \A c \in Channels : /\ loop[c] \in {"none", "sent", "running", "done"}
                           /\ client[c] \in {"none", "idle", "waiting", "closed"}

\* "The parameter to invoke will be passed to f and the result from f will be
\* returned from invoke": on a channel none of whose calls was dropped, a call gets
\* the result of its own argument, and one request at the most is under way.
AnswersMatchCalls ==
    \A c \in Channels : ~dropped[c] =>
        /\ answer[c] # None => answer[c][2][2] = answer[c][1]
        /\ client[c] # "closed" =>
              Len(requests[c]) + Len(tasks[c]) + Len(replies[c]) <= 1

CallWaits(c) == client[c] = "waiting" /\ loop[c] # "sent"
BlockOnWaits == main = "done" /\ \A c \in Channels : client[c] \in {"none", "closed"}

=============================================================================
