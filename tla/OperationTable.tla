--------------------------- MODULE OperationTable ---------------------------
(* Which request each function of kimojio/src/operations.rs builds.            *)

\* A request: the memory of the caller that it points to, what its completion
\* owns, what it returns, whether the function can be given a deadline, whether
\* its work starts only with the first poll (async fn), and whether it is polled for.
Request(borrows, resources, output, deadline, lazy, iopoll) ==
  [borrows |-> borrows, resources |-> resources, output |-> output,
   deadline |-> deadline, lazy |-> lazy, iopoll |-> iopoll]
\* RingFuture::new: no owned resources, not polled for.
new(borrows, output, deadline) == Request(borrows, "None", output, deadline, FALSE, FALSE)

open     == new({"filename"}, "OwnedFd", FALSE)
link     == new({"oldpath", "newpath"}, "Unit", FALSE)
symlink  == new({"target", "linkpath"}, "Unit", FALSE)
mkdir    == new({"pathname"}, "Unit", FALSE)
rmdir    == new({"pathname"}, "Unit", FALSE)
stat     == [new({"filename", "statx"}, "Unit", FALSE) EXCEPT !.lazy = TRUE]
fstat    == [new({"statx"}, "Unit", FALSE) EXCEPT !.lazy = TRUE]
unlink   == new({"filename"}, "Unit", FALSE)
rename   == new({"oldpath", "newpath"}, "Unit", FALSE)
fadvise  == new({}, "Unit", FALSE)
madvise  == new({"addr"}, "Unit", FALSE)
fallocate == new({}, "Unit", FALSE)
socket   == [new({}, "OwnedFd", FALSE) EXCEPT !.lazy = TRUE]
accept   == new({}, "OwnedFd", FALSE)
shutdown == new({}, "Unit", FALSE)
fsync    == new({}, "Unit", FALSE)
sync_file_range == new({}, "Unit", FALSE)
connect_unix == [new({"addr"}, "Unit", TRUE) EXCEPT !.lazy = TRUE]
connect  == [new({"addr"}, "Unit", TRUE) EXCEPT !.lazy = TRUE]
writev   == new({"buffers"}, "Usize", TRUE)
write    == new({"buf"}, "Usize", TRUE)
send     == new({"buf"}, "Usize", TRUE)
recv     == new({"buf"}, "Usize", TRUE)
recvmsg  == new({"msghdr"}, "Usize", TRUE)
sendmsg  == new({"msghdr"}, "Usize", TRUE)
pwrite_polled == Request({"buf"}, "None", "Usize", FALSE, FALSE, TRUE)
pwrite   == new({"buf"}, "Usize", FALSE)
readv    == new({"iovec"}, "Usize", TRUE)

\* Mutant: the buffer's completion is boxed as if it owned its memory.
read_Boxed == Request({"buf"}, "Owned", "Usize", TRUE, FALSE, FALSE)

read     == new({"buf"}, "Usize", TRUE)
pread_polled == Request({"buf"}, "None", "Usize", FALSE, FALSE, TRUE)
pread    == new({"buf"}, "Usize", FALSE)
close    == Request({}, "CloseFd", "Unit", FALSE, FALSE, FALSE)
nop      == new({}, "Unit", FALSE)
uring_cmd == new({}, "Cqe", FALSE)
uring_cmd_polled == Request({}, "None", "Cqe", FALSE, FALSE, TRUE)
sleep    == Request({}, "Owned", "Unit", TRUE, FALSE, FALSE)

Table ==
  {open, link, symlink, mkdir, rmdir, stat, fstat, unlink, rename, fadvise, madvise, fallocate,
   socket, accept, shutdown, fsync, sync_file_range, connect_unix, connect, writev, write, send,
   recv, recvmsg, sendmsg, pwrite_polled, pwrite, readv, read, pread_polled, pread, close, nop,
   uring_cmd, uring_cmd_polled, sleep}

\* What RingFuture distinguishes of a request: its `kind`.
needs_drop(o) == o.output = "OwnedFd"
pending_io_with_borrowed_resources(o) == needs_drop(o) \/ o.resources \in {"None", "CloseFd"}
=============================================================================
