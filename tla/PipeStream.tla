----------------------------- MODULE PipeStream -----------------------------
(* Pipe implements ByteStream: the stream is the ring from nread to nwrite. *)
EXTENDS Pipe, Sequences

ringBytes == [k \in 1 .. Fill |-> data[Add(nread, k - 1) % PIPESIZE]]

Stream == INSTANCE ByteStream
            WITH Cap <- PIPESIZE, stream <- ringBytes, readers <- rfd, writers <- wfd

(* Every behaviour of the pipe is one of the byte stream (pipe.c).          *)
ImplementsStream == Stream!Spec
=============================================================================
