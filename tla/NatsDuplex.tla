------------------------------ MODULE NatsDuplex ------------------------------
(***************************************************************************)
(* NatsDuplex: a byte-duplex over two NATS subjects.  Each endpoint has a  *)
(* caller, which polls the channel's read, write, flush and shutdown, and  *)
(* two spawned tasks: a reader that moves messages from the subscription   *)
(* to the inbound queue, and a writer that publishes outbound chunks and   *)
(* acknowledges each on its own oneshot channel.  The three share "closed" *)
(* and run concurrently.                                                   *)
(*                                                                         *)
(* Bytes of one direction are numbered in the order written, and a chunk   *)
(* is the sequence of its bytes.  The NATS client and server are external: *)
(* a publish hands the chunk to the client, which forwards chunks in order *)
(* to the server, which hands each to the peer's subscription if it is     *)
(* registered by then and drops it otherwise.  The network is healthy, or  *)
(* faulty: then a publish may be refused, a client may stop, a message may *)
(* be lost on its way, and a client's flush may not wait for the server.   *)
(* What a network in between does, a faulty one may do.                    *)
(***************************************************************************)
EXTENDS Naturals, Sequences, SequencesExt

CONSTANTS
    End,                \* the two endpoints
    Writing,            \* those whose caller does more than read
    MaxBytes,           \* bound on the bytes written in one direction
    MaxChunk            \* bound on the size of a chunk and of a read

ASSUME DuplexAssumption ==
    /\ \E a, b \in End : a # b /\ End = {a, b}
    /\ Writing \subseteq End
    /\ MaxBytes \in Nat
    /\ MaxChunk \in Nat \ {0}

Peer(e) == CHOOSE f \in End : f # e

VARIABLES
    faulty,             \* whether network and clients may fail; never changes
    phase,              \* connect's progress, and "gone" once dropped
    op,                 \* the flush or shutdown the caller waits on
    last,               \* what the last write, flush or shutdown returned
    eof,                \* a read has returned the end of the stream
    closed,             \* the shared flag
    outbound,           \* chunks waiting for the writer
    publishing,         \* the chunk the writer holds
    pendingPublishes,   \* the acknowledgements the channel still has to see
    inbound,            \* chunks the reader has queued
    inboundBuf,         \* bytes left over from a partly read chunk
    reader, writer,     \* the tasks
    alive,              \* the NATS client of each end works
    registered,         \* the server knows the end's subscription
    wire,               \* chunks on their way to the server
    mailbox,            \* messages delivered to the end's subscription
    written,            \* bytes accepted from the caller so far
    published,          \* of those, how many the client has accepted
    got,                \* the bytes handed to the caller
    since,              \* bytes the peer had written when connect returned
    refused             \* a call has failed, or shutdown has completed

caller == <<op, last, refused, eof>>
channel == <<closed, outbound, pendingPublishes, inbound, inboundBuf>>
tasks == <<reader, writer, publishing>>
broker == <<faulty, alive, registered, wire, mailbox>>
history == <<written, published, got, since>>
vars == <<phase, caller, channel, tasks, broker, history>>

Everywhere(v) == [e \in End |-> v]

Init ==
    /\ faulty \in BOOLEAN
    /\ phase = Everywhere("none")
    /\ op = Everywhere("idle")
    /\ last = Everywhere("none")
    /\ refused = Everywhere(FALSE)
    /\ eof = Everywhere(FALSE)
    /\ closed = Everywhere(FALSE)
    /\ outbound = Everywhere(<<>>)
    /\ pendingPublishes = Everywhere(<<>>)
    /\ inbound = Everywhere(<<>>)
    /\ inboundBuf = Everywhere(<<>>)
    /\ reader = Everywhere("none")
    /\ writer = Everywhere("none")
    /\ publishing = Everywhere(<<>>)
    /\ alive = Everywhere(TRUE)
    /\ registered = Everywhere(FALSE)
    /\ wire = Everywhere(<<>>)
    /\ mailbox = Everywhere(<<>>)
    /\ written = Everywhere(0)
    /\ published = Everywhere(0)
    /\ got = Everywhere(<<>>)
    /\ since = Everywhere(0)

-----------------------------------------------------------------------------
(* connect: subscribe, flush the subscription, spawn the tasks.            *)

Subscribe(e) ==
    /\ phase[e] = "none"
    /\ phase' = [phase EXCEPT ![e] = IF alive[e] THEN "subscribing" ELSE "gone"]
    /\ UNCHANGED <<caller, channel, tasks, broker, history>>

Spawn(e) ==
    /\ phase' = [phase EXCEPT ![e] = "open"]
    /\ reader' = [reader EXCEPT ![e] = "running"]
    /\ writer' = [writer EXCEPT ![e] = "running"]
    /\ since' = [since EXCEPT ![e] = written[Peer(e)]]
    /\ UNCHANGED <<caller, channel, publishing, broker, written, published, got>>

(* Mutant of Connected: the subscription is not flushed.                   *)
ConnectedUnflushed(e) == phase[e] = "subscribing" /\ Spawn(e)

(* The flush returns: on a healthy network the server has the subscription.*)
Connected(e) ==
    /\ phase[e] = "subscribing"
    /\ ~ faulty => registered[e]
    /\ Spawn(e)

(* The flush fails; the subscription is dropped with the error.            *)
ConnectFails(e) ==
    /\ phase[e] = "subscribing"
    /\ ~ alive[e]
    /\ phase' = [phase EXCEPT ![e] = "gone"]
    /\ registered' = [registered EXCEPT ![e] = FALSE]
    /\ mailbox' = [mailbox EXCEPT ![e] = <<>>]
    /\ UNCHANGED <<caller, channel, tasks, faulty, alive, wire, history>>

-----------------------------------------------------------------------------
(* The tasks.                                                              *)

ReaderForwards(e) ==
    /\ phase[e] = "open"
    /\ reader[e] = "running"
    /\ mailbox[e] # <<>>
    /\ inbound' = [inbound EXCEPT ![e] = Append(@, Head(mailbox[e]))]
    /\ mailbox' = [mailbox EXCEPT ![e] = Tail(@)]
    /\ UNCHANGED <<phase, caller, closed, outbound, pendingPublishes, inboundBuf, tasks,
                   faulty, alive, registered, wire, history>>

ReaderEnds(e) ==
    /\ reader[e] = "running"
    /\ mailbox[e] = <<>>
    /\ ~ alive[e]
    /\ reader' = [reader EXCEPT ![e] = "ended"]
    /\ closed' = [closed EXCEPT ![e] = TRUE]
    /\ UNCHANGED <<phase, caller, outbound, pendingPublishes, inbound, inboundBuf, writer,
                   publishing, broker, history>>

WriterTakes(e) ==
    /\ writer[e] = "running"
    /\ publishing[e] = <<>>
    /\ outbound[e] # <<>>
    /\ publishing' = [publishing EXCEPT ![e] = Head(outbound[e])]
    /\ outbound' = [outbound EXCEPT ![e] = Tail(@)]
    /\ UNCHANGED <<phase, caller, closed, pendingPublishes, inbound, inboundBuf, reader,
                   writer, broker, history>>

(* The writer answers the chunk it holds: the oldest unanswered one.       *)
Acknowledge(e, answer) ==
    \E i \in DOMAIN pendingPublishes[e] :
        /\ pendingPublishes[e][i] = "waiting"
        /\ \A j \in 1..(i - 1) : pendingPublishes[e][j] # "waiting"
        /\ pendingPublishes' = [pendingPublishes EXCEPT ![e][i] = answer]

PublishSucceeds(e) ==
    /\ publishing[e] # <<>>
    /\ writer[e] = "running"
    /\ alive[e]
    /\ wire' = [wire EXCEPT ![e] = Append(@, publishing[e])]
    /\ published' = [published EXCEPT ![e] = @ + Len(publishing[e])]
    /\ publishing' = [publishing EXCEPT ![e] = <<>>]
    /\ Acknowledge(e, "ok")
    /\ UNCHANGED <<phase, caller, closed, outbound, inbound, inboundBuf, reader, writer,
                   faulty, alive, registered, mailbox, written, got, since>>

(* The chunk is refused (too large a payload, a stopped client): the error *)
(* is acknowledged, then the flag is set, then the loop is left.           *)
PublishFails(e) ==
    /\ publishing[e] # <<>>
    /\ writer[e] = "running"
    /\ faulty
    /\ publishing' = [publishing EXCEPT ![e] = <<>>]
    /\ writer' = [writer EXCEPT ![e] = "failed"]
    /\ Acknowledge(e, "failed")
    /\ UNCHANGED <<phase, caller, closed, outbound, inbound, inboundBuf, reader, broker, history>>

WriterCloses(e) ==
    /\ writer[e] = "failed"
    /\ closed' = [closed EXCEPT ![e] = TRUE]
    /\ writer' = [writer EXCEPT ![e] = "leaving"]
    /\ UNCHANGED <<phase, caller, outbound, pendingPublishes, inbound, inboundBuf, reader,
                   publishing, broker, history>>

(* Mutant of QueueDropped: the chunks in the queue keep their senders.     *)
QueueKept(e) == UNCHANGED <<outbound, pendingPublishes>>

(* The queue's receiving end goes with the task, and with it the senders   *)
(* of the acknowledgements nobody will give.                               *)
QueueDropped(e) ==
    /\ outbound' = [outbound EXCEPT ![e] = <<>>]
    /\ pendingPublishes' = [pendingPublishes EXCEPT ![e] =
           [i \in DOMAIN @ |-> IF @[i] = "waiting" THEN "dropped" ELSE @[i]]]

WriterEnds(e) ==
    /\ writer[e] = "leaving"
    /\ writer' = [writer EXCEPT ![e] = "ended"]
    /\ QueueDropped(e)
    /\ UNCHANGED <<phase, caller, closed, inbound, inboundBuf, reader, publishing, broker, history>>

(* The task stops without an answer: a panic in it, or its runtime ends.   *)
(* The flag is not set.                                                    *)
WriterDies(e) ==
    /\ faulty
    /\ writer[e] = "running"
    /\ writer' = [writer EXCEPT ![e] = "ended"]
    /\ publishing' = [publishing EXCEPT ![e] = <<>>]
    /\ QueueDropped(e)
    /\ UNCHANGED <<phase, caller, closed, inbound, inboundBuf, reader, broker, history>>

-----------------------------------------------------------------------------
(* The caller.  It reads whenever it likes, and writes, flushes and shuts  *)
(* down one call at a time; a call that waits may be abandoned.            *)

Returns(e, outcome) ==
    /\ op' = [op EXCEPT ![e] = "idle"]
    /\ last' = [last EXCEPT ![e] = outcome]
    /\ refused' = [refused EXCEPT ![e] = @ \/ outcome \in {"BrokenPipe", "shutdown"}]

(* Mutant of Accepted: the bytes copied start one too late.                *)
AcceptedFromNext(e, n) == [i \in 1..n |-> written[e] + i + 1]

Accepted(e, n) == [i \in 1..n |-> written[e] + i]

(* poll_write of n > 0 bytes; writing nothing returns at once.             *)
Write(e, n) ==
    /\ phase[e] = "open"
    /\ op[e] = "idle"
    /\ written[e] + n <= MaxBytes
    /\ \/ /\ closed[e] \/ writer[e] = "ended"
          /\ Returns(e, "BrokenPipe")
          /\ UNCHANGED <<outbound, pendingPublishes, written>>
       \/ /\ ~ closed[e] /\ writer[e] # "ended"
          /\ outbound' = [outbound EXCEPT ![e] = Append(@, Accepted(e, n))]
          /\ pendingPublishes' = [pendingPublishes EXCEPT ![e] = Append(@, "waiting")]
          /\ written' = [written EXCEPT ![e] = @ + n]
          /\ Returns(e, "wrote")
    /\ UNCHANGED <<phase, eof, closed, inbound, inboundBuf, tasks, broker, published, got, since>>

(* poll_flush and poll_shutdown look at the acknowledgements in turn.      *)
Flush(e, call) ==
    /\ phase[e] = "open"
    /\ op[e] = "idle"
    /\ op' = [op EXCEPT ![e] = call]
    /\ UNCHANGED <<phase, last, refused, eof, channel, tasks, broker, history>>

Abandon(e) ==
    /\ op[e] # "idle"
    /\ op' = [op EXCEPT ![e] = "idle"]
    /\ last' = [last EXCEPT ![e] = "none"]
    /\ UNCHANGED <<phase, refused, eof, channel, tasks, broker, history>>

PublishSeen(e) ==
    /\ Head(pendingPublishes[e]) = "ok"
    /\ pendingPublishes' = [pendingPublishes EXCEPT ![e] = Tail(@)]
    /\ UNCHANGED <<phase, op, last, refused, closed>>

(* Mutant of FailureSeen: the failed acknowledgement is taken off.         *)
FailureForgotten(e) ==
    /\ Head(pendingPublishes[e]) \in {"failed", "dropped"}
    /\ pendingPublishes' = [pendingPublishes EXCEPT ![e] = Tail(@)]
    /\ closed' = [closed EXCEPT ![e] = TRUE]
    /\ Returns(e, "BrokenPipe")
    /\ UNCHANGED phase

(* The error is reported, and its receiver stays at the head: finished if  *)
(* it held the writer's answer; where the sender was dropped, the library  *)
(* may leave it finished or give the same error again.                     *)
FailureSeen(e) ==
    /\ Head(pendingPublishes[e]) \in {"failed", "dropped"}
    /\ \E left \in {"finished", "dropped"} :
          /\ Head(pendingPublishes[e]) = "failed" => left = "finished"
          /\ pendingPublishes' = [pendingPublishes EXCEPT ![e][1] = left]
    /\ closed' = [closed EXCEPT ![e] = TRUE]
    /\ Returns(e, "BrokenPipe")
    /\ UNCHANGED phase

(* Polling a finished receiver panics; unwinding drops the channel.        *)
PollFinished(e) ==
    /\ Head(pendingPublishes[e]) = "finished"
    /\ phase' = [phase EXCEPT ![e] = "gone"]
    /\ closed' = [closed EXCEPT ![e] = TRUE]
    /\ Returns(e, "panic")
    /\ UNCHANGED pendingPublishes

PollPendingPublishes(e) ==
    /\ op[e] # "idle"
    /\ pendingPublishes[e] # <<>>
    /\ PublishSeen(e) \/ FailureSeen(e) \/ PollFinished(e)
    /\ UNCHANGED <<eof, outbound, inbound, inboundBuf, tasks, broker, history>>

Flushed(e) ==
    /\ op[e] = "flushing"
    /\ pendingPublishes[e] = <<>>
    /\ Returns(e, "flushed")
    /\ UNCHANGED <<phase, eof, channel, tasks, broker, history>>

(* Mutant of ShutDown: the channel stays open for writing.                 *)
ShutDownLeavingOpen(e) ==
    /\ op[e] = "closing"
    /\ pendingPublishes[e] = <<>>
    /\ Returns(e, "shutdown")
    /\ UNCHANGED <<phase, eof, channel, tasks, broker, history>>

(* Only this endpoint is told: nothing is sent to the peer.                *)
ShutDown(e) ==
    /\ op[e] = "closing"
    /\ pendingPublishes[e] = <<>>
    /\ closed' = [closed EXCEPT ![e] = TRUE]
    /\ Returns(e, "shutdown")
    /\ UNCHANGED <<phase, eof, outbound, pendingPublishes, inbound, inboundBuf, tasks,
                   broker, history>>

(* poll_read into a buffer with room for n > 0 bytes: what is left of the  *)
(* chunk begun, else the next chunk, else the end if the reader has ended. *)
Fill(e, n, chunk) ==
    LET taken == SubSeq(chunk, 1, IF n < Len(chunk) THEN n ELSE Len(chunk))
    IN  /\ got' = [got EXCEPT ![e] = @ \o taken]
        /\ inboundBuf' = [inboundBuf EXCEPT ![e] = SubSeq(chunk, Len(taken) + 1, Len(chunk))]

(* Mutant of Read: the chunk begun stays in the queue.                    *)
ReadKeepingChunk(e, n) ==
    /\ phase[e] = "open"
    /\ inbound[e] # <<>>
    /\ Fill(e, n, Head(inbound[e]))
    /\ UNCHANGED <<phase, caller, closed, outbound, inbound, pendingPublishes, tasks, broker,
                   written, published, since>>

(* Mutant of Read: a closed channel has nothing more to read.              *)
ReadOpenOnly(e, n) ==
    /\ phase[e] = "open"
    /\ \/ ~ closed[e] /\ inboundBuf[e] # <<>> /\ Fill(e, n, inboundBuf[e]) /\ UNCHANGED <<inbound, eof>>
       \/ /\ ~ closed[e] /\ inboundBuf[e] = <<>> /\ inbound[e] # <<>>
          /\ Fill(e, n, Head(inbound[e]))
          /\ inbound' = [inbound EXCEPT ![e] = Tail(@)]
          /\ UNCHANGED eof
       \/ closed[e] /\ eof' = [eof EXCEPT ![e] = TRUE] /\ UNCHANGED <<inbound, inboundBuf, got>>
    /\ UNCHANGED <<phase, op, last, refused, closed, outbound, pendingPublishes, tasks, broker,
                   written, published, since>>

Read(e, n) ==
    /\ phase[e] = "open"
    /\ \/ inboundBuf[e] # <<>> /\ Fill(e, n, inboundBuf[e]) /\ UNCHANGED <<inbound, eof>>
       \/ /\ inboundBuf[e] = <<>> /\ inbound[e] # <<>>
          /\ Fill(e, n, Head(inbound[e]))
          /\ inbound' = [inbound EXCEPT ![e] = Tail(@)]
          /\ UNCHANGED eof
       \/ /\ inboundBuf[e] = <<>> /\ inbound[e] = <<>> /\ reader[e] = "ended"
          /\ eof' = [eof EXCEPT ![e] = TRUE]
          /\ UNCHANGED <<inbound, inboundBuf, got>>
    /\ UNCHANGED <<phase, op, last, refused, closed, outbound, pendingPublishes, tasks, broker,
                   written, published, since>>

Drop(e) ==
    /\ phase[e] = "open"
    /\ phase' = [phase EXCEPT ![e] = "gone"]
    /\ closed' = [closed EXCEPT ![e] = TRUE]
    /\ op' = [op EXCEPT ![e] = "idle"]
    /\ last' = [last EXCEPT ![e] = "none"]
    /\ UNCHANGED <<refused, eof, outbound, pendingPublishes, inbound, inboundBuf, tasks,
                   broker, history>>

(* The tasks of a dropped channel stop at their next await; until then     *)
(* they may take a few more steps.                                         *)
AbortReader(e) ==
    /\ phase[e] = "gone"
    /\ reader[e] = "running"
    /\ reader' = [reader EXCEPT ![e] = "ended"]
    /\ mailbox' = [mailbox EXCEPT ![e] = <<>>]
    /\ registered' = [registered EXCEPT ![e] = FALSE]
    /\ UNCHANGED <<phase, caller, channel, writer, publishing, faulty, alive, wire, history>>

AbortWriter(e) ==
    /\ phase[e] = "gone"
    /\ writer[e] \notin {"none", "ended"}
    /\ writer' = [writer EXCEPT ![e] = "ended"]
    /\ publishing' = [publishing EXCEPT ![e] = <<>>]
    /\ outbound' = [outbound EXCEPT ![e] = <<>>]
    /\ UNCHANGED <<phase, caller, closed, pendingPublishes, inbound, inboundBuf, reader,
                   broker, history>>

-----------------------------------------------------------------------------
(* The NATS clients and the server.                                        *)

Register(e) ==
    /\ phase[e] \in {"subscribing", "open"}
    /\ reader[e] # "ended"
    /\ alive[e]
    /\ ~ registered[e]
    /\ registered' = [registered EXCEPT ![e] = TRUE]
    /\ UNCHANGED <<phase, caller, channel, tasks, faulty, alive, wire, mailbox, history>>

Forward(e) ==
    /\ wire[e] # <<>>
    /\ wire' = [wire EXCEPT ![e] = Tail(@)]
    /\ mailbox' = IF registered[Peer(e)] /\ alive[Peer(e)]
                  THEN [mailbox EXCEPT ![Peer(e)] = Append(@, Head(wire[e]))] ELSE mailbox
    /\ UNCHANGED <<phase, caller, channel, tasks, faulty, alive, registered, history>>

Lose(e) ==
    /\ faulty
    /\ wire[e] # <<>>
    /\ wire' = [wire EXCEPT ![e] = Tail(@)]
    /\ UNCHANGED <<phase, caller, channel, tasks, faulty, alive, registered, mailbox, history>>

ClientStops(e) ==
    /\ faulty
    /\ alive[e]
    /\ alive' = [alive EXCEPT ![e] = FALSE]
    /\ UNCHANGED <<phase, caller, channel, tasks, faulty, registered, wire, mailbox, history>>

-----------------------------------------------------------------------------
Connect(e) == Subscribe(e) \/ Connected(e) \/ ConnectFails(e)

WriterTask(e) ==
    \/ WriterTakes(e) \/ PublishSucceeds(e) \/ PublishFails(e)
    \/ WriterCloses(e) \/ WriterEnds(e) \/ AbortWriter(e)

(* A writer with nothing to write is never observed: of an end outside     *)
(* Writing its steps are left out.                                         *)
Writer(e) == e \in Writing /\ (WriterTask(e) \/ WriterDies(e))

ReaderTask(e) == ReaderForwards(e) \/ ReaderEnds(e) \/ AbortReader(e)

(* A waiting flush or shutdown is polled again when it may go on.          *)
Poll(e) == PollPendingPublishes(e) \/ Flushed(e) \/ ShutDown(e)

CallOf(e) ==
    \/ \E n \in 1..MaxChunk : Read(e, n)
    \/ /\ e \in Writing
       /\ \/ \E n \in 1..MaxChunk : Write(e, n)
          \/ Flush(e, "flushing") \/ Flush(e, "closing") \/ Abandon(e)
    \/ Drop(e)

Environment(e) ==
    Register(e) \/ Forward(e) \/ Lose(e) \/ ClientStops(e)

(* Both channels are gone and nothing is on its way.                       *)
Over ==
    /\ \A e \in End : phase[e] = "gone" /\ wire[e] = <<>>
    /\ UNCHANGED vars

Next ==
    \/ \E e \in End :
          Connect(e) \/ Writer(e) \/ ReaderTask(e) \/ Poll(e) \/ CallOf(e) \/ Environment(e)
    \/ Over

Spec == Init /\ [][Next]_vars

(* The runtime polls its tasks and wakes a waiting call; a client either   *)
(* takes a chunk or refuses it.  Nothing forces a call, a fault or a read. *)
FairSpec ==
    /\ Spec
    /\ \A e \in End : WF_vars(ReaderTask(e)) /\ WF_vars(Poll(e))
    /\ \A e \in Writing : WF_vars(WriterTask(e))

-----------------------------------------------------------------------------
Bytes == 1..MaxBytes
Chunk == UNION {[1..n -> Bytes] : n \in 1..MaxChunk}
Answer == {"waiting", "ok", "failed", "dropped", "finished"}

(* Type invariant: what each variable may hold, and that nobody waits on a *)
(* channel that is gone.                                                   *)
TypeOK ==
    /\ faulty \in BOOLEAN
    /\ phase \in [End -> {"none", "subscribing", "open", "gone"}]
    /\ op \in [End -> {"idle", "flushing", "closing"}]
    /\ last \in [End -> {"none", "wrote", "flushed", "shutdown", "BrokenPipe", "panic"}]
    /\ refused \in [End -> BOOLEAN]
    /\ eof \in [End -> BOOLEAN]
    /\ closed \in [End -> BOOLEAN]
    /\ outbound \in [End -> Seq(Chunk)]
    /\ inbound \in [End -> Seq(Chunk)]
    /\ wire \in [End -> Seq(Chunk)]
    /\ mailbox \in [End -> Seq(Chunk)]
    /\ publishing \in [End -> Chunk \cup {<<>>}]
    /\ inboundBuf \in [End -> Seq(Bytes)]
    /\ got \in [End -> Seq(Bytes)]
    /\ pendingPublishes \in [End -> Seq(Answer)]
    /\ \A e \in End : phase[e] # "open" => op[e] = "idle"
    /\ reader \in [End -> {"none", "running", "ended"}]
    /\ writer \in [End -> {"none", "running", "failed", "leaving", "ended"}]
    /\ alive \in [End -> BOOLEAN]
    /\ registered \in [End -> BOOLEAN]
    /\ written \in [End -> 0..MaxBytes]
    /\ published \in [End -> 0..MaxBytes]
    /\ since \in [End -> 0..MaxBytes]

(* Each direction is a byte stream: bytes arrive in order, at most once,   *)
(* and without a gap unless the network loses messages ("The channel       *)
(* implements byte-stream semantics by concatenating received message      *)
(* payloads").                                                             *)
Stream == INSTANCE ByteStream
              WITH Direction <- End, lossy <- faulty, sent <- written,
                   received <- [e \in End |-> got[Peer(e)]]
ImplementsByteStream == Stream!Spec

(* A flush or a shutdown that succeeds has seen every byte written before  *)
(* it accepted by the NATS client, whichever failures were reported to     *)
(* earlier calls (poll_pending_publishes).                                 *)
FlushMeansPublished ==
    \A e \in End : last[e] \in {"flushed", "shutdown"} => published[e] = written[e]

(* Once a call has been refused or the channel shut down, no later write   *)
(* is accepted (the shared flag, or the queue the writer has left).        *)
NoWriteAfterFailure == [][\A e \in End : refused[e] => written'[e] = written[e]]_vars

(* The end of the stream is reported only when everything delivered to the *)
(* subscription has been read (poll_read does not look at the flag, and    *)
(* the reader leaves its loop only when the subscription is exhausted).    *)
EndAfterDelivered ==
    \A e \in End : eof[e] =>
        mailbox[e] = <<>> /\ inbound[e] = <<>> /\ inboundBuf[e] = <<>>

BytesOf(chunks) == UNION {ToSet(chunks[i]) : i \in DOMAIN chunks}

(* What of the bytes published by e has not been lost: the caller of the   *)
(* peer has them, or they are on their way.                                *)
Arriving(e) ==
    ToSet(got[Peer(e)]) \cup ToSet(inboundBuf[Peer(e)]) \cup BytesOf(inbound[Peer(e)])
        \cup BytesOf(mailbox[Peer(e)]) \cup BytesOf(wire[e])

(* The bytes accepted from the caller of e and not published yet.          *)
Unpublished(e) == ToSet(publishing[e]) \cup BytesOf(outbound[e])

(* Over a healthy network whose flush waits for the server, an endpoint    *)
(* misses nothing written after its connect returned (connect flushes the  *)
(* subscription before it spawns the tasks).                               *)
OpenEndMissesNothing ==
    ~ faulty => \A e \in End : phase[e] = "open" /\ phase[Peer(e)] = "open" =>
        (since[Peer(e)] + 1)..written[e] \subseteq Arriving(e) \cup Unpublished(e)

(* A flush or a shutdown does not wait for ever: the writer acknowledges   *)
(* each chunk or drops its sender.                                         *)
FlushReturns == \A e \in Writing : op[e] # "idle" ~> op[e] = "idle"

(* poll_pending_publishes reports a publish that failed, and a writer that *)
(* stopped, as BrokenPipe; using the channel afterwards must do so too,    *)
(* and not abort the caller's task.                                        *)
FailuresAreErrors == \A e \in End : last[e] # "panic"
=============================================================================
