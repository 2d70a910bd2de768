---------------------------- MODULE GzipFormatter ----------------------------
(***************************************************************************)
(* gzip_formatter.go and the transport that reads the body of a request.   *)
(* Without -gzip the transport reads the LogplexBatchFormatter itself.     *)
(* With it the first Read starts a goroutine, the writer, that compresses  *)
(* what it reads from the formatter into a pipe; the transport reads the   *)
(* pipe's other end.                                                       *)
(*                                                                         *)
(* Compression is modelled by what it does to the order of things: the     *)
(* compressor holds back as much as it likes (held) until it writes to the *)
(* pipe or is closed, when it adds an end of its own.  The pipe has no     *)
(* buffer: a write waits for a Read.                                       *)
(* A transport that gives up closes a body that post has wrapped in        *)
(* NopCloser, so nobody closes the pipe.                                   *)
(***************************************************************************)
EXTENDS LogplexFormatter

CONSTANT
  Writers  \* the goroutines there may be; the code starts one

VARIABLES
  useGzip,    \* config.UseGzip
  once,       \* g.once has run
  wpc,        \* each writer: "none", "copy", "close", "done"
  held,       \* what a writer has read and not written to the pipe yet
  closed,     \* g.writer has been closed
  transport,  \* "idle", "asking" inside a Read, "ended" at EOF, "gone"
  got         \* what the transport has been given

\* The end that gzip puts behind the data.
Trailer == <<"gzip", 0, 0>>

gzVars == <<useGzip, once, wpc, held, closed, transport, got>>
vars   == <<lpVars, gzVars>>

-----------------------------------------------------------------------------
Init ==
  /\ LPInit
  /\ useGzip \in BOOLEAN
  /\ once = FALSE
  /\ wpc = [w \in Writers |-> "none"]
  /\ held = [w \in Writers |-> <<>>]
  /\ closed = FALSE
  /\ transport = "idle"
  /\ got = <<>>

Prepare ==
  /\ ParseFlags \/ ComputeHeader \/ NewFormatter
  /\ UNCHANGED gzVars

\* Without -gzip the transport reads the formatter.
ReadPlain(size) ==
  /\ ~useGzip
  /\ transport = "idle"
  /\ ReadBody(size)
  /\ got' = body'
  /\ transport' = IF readers' = <<>> THEN "ended" ELSE "idle"
  /\ UNCHANGED <<useGzip, once, wpc, held, closed>>

\* Mutant of MustStart: every Read starts a writer.
MustStartAlways == TRUE

\* g.once has not run yet.
MustStart == ~once

\* GzipFormatter.Read begins: the writer is started unless it has been, and
\* the transport waits at the pipe.
AskPipe ==
  /\ useGzip
  /\ stage = "read"
  /\ transport = "idle"
  /\ transport' = "asking"
  /\ once' = TRUE
  /\ \/ /\ MustStart
        /\ \E w \in Writers :
             /\ wpc[w] = "none"
             /\ wpc' = [wpc EXCEPT ![w] = "copy"]
     \/ /\ ~MustStart \/ \A w \in Writers : wpc[w] # "none"
        /\ UNCHANGED wpc
  /\ UNCHANGED <<lpVars, useGzip, held, closed, got>>

\* io.Copy reads from the formatter and hands it to the compressor.
Copy(w, size) ==
  /\ wpc[w] = "copy"
  /\ ReadBody(size)
  /\ held' = [held EXCEPT ![w] = @ \o SubSeq(body', Len(body) + 1, Len(body'))]
  /\ UNCHANGED <<useGzip, once, wpc, closed, transport, got>>

\* io.Copy has seen the end of the formatter, and gw.Close is called.
CopyEnds(w) ==
  /\ wpc[w] = "copy"
  /\ AtEnd
  /\ wpc' = [wpc EXCEPT ![w] = "close"]
  /\ held' = [held EXCEPT ![w] = Append(@, Trailer)]
  /\ UNCHANGED <<lpVars, useGzip, once, closed, transport, got>>

\* A write to the pipe meets a Read: the compressor is full, or being closed.
WritePipe(w) ==
  /\ wpc[w] \in {"copy", "close"}
  /\ held[w] # <<>>
  /\ transport = "asking"
  /\ got' = got \o held[w]
  /\ held' = [held EXCEPT ![w] = <<>>]
  /\ transport' = "idle"
  /\ UNCHANGED <<lpVars, useGzip, once, wpc, closed>>

\* Mutant of Flushed: the pipe is closed before the compressor.
FlushedNever(w) == TRUE

\* gw.Close has written what the compressor held.
Flushed(w) == held[w] = <<>>

\* Mutant of PipeClosed: the writer returns with the pipe open.
PipeLeftOpen == closed

PipeClosed == TRUE

\* g.writer.Close, and the writer returns.
ClosePipe(w) ==
  /\ wpc[w] = "close"
  /\ Flushed(w)
  /\ closed' = PipeClosed
  /\ wpc' = [wpc EXCEPT ![w] = "done"]
  /\ UNCHANGED <<lpVars, useGzip, once, held, transport, got>>

\* The transport's Read returns io.EOF.
PipeEOF ==
  /\ transport = "asking"
  /\ closed
  /\ transport' = "ended"
  /\ UNCHANGED <<lpVars, useGzip, once, wpc, held, closed, got>>

\* The transport gives the request up between two Reads: a timeout, a broken
\* connection, or a response that came early.
GiveUp ==
  /\ stage = "read"
  /\ transport = "idle"
  /\ transport' = "gone"
  /\ UNCHANGED <<lpVars, useGzip, once, wpc, held, closed, got>>

WriterStep(w) ==
  \/ \E size \in Buffers : Copy(w, size)
  \/ CopyEnds(w)
  \/ WritePipe(w)
  \/ ClosePipe(w)

TransportStep ==
  \/ \E size \in Buffers : ReadPlain(size)
  \/ AskPipe
  \/ PipeEOF
  \/ GiveUp

\* A writer that nobody reads from is stuck for good.
Terminated ==
  /\ \/ stage = "refused"
     \/ transport = "ended"
     \/ /\ transport = "gone"
        /\ \A w \in Writers : wpc[w] \in {"none", "done"} \/ (wpc[w] = "close" /\ ~Flushed(w))
  /\ UNCHANGED vars

Next ==
  \/ Prepare
  \/ TransportStep
  \/ \E w \in Writers : WriterStep(w)
  \/ Terminated

\* Goroutines are scheduled; a transport goes on reading or gives up.
Fairness ==
  /\ WF_vars(TransportStep)
  /\ \A w \in Writers : WF_vars(WriterStep(w))

Safety == Init /\ [][Next]_vars
Spec == Safety /\ Fairness

-----------------------------------------------------------------------------
(***************************************************************************)
(* Properties                                                              *)
(***************************************************************************)
\* What the variables may hold; among it, that one writer at most is started,
\* and only with -gzip.
TypeOK ==
  /\ LPTypeOK
  /\ wpc \in [Writers -> {"none", "copy", "close", "done"}]
  /\ transport \in {"idle", "asking", "ended", "gone"}
  /\ Cardinality({w \in Writers : wpc[w] # "none"}) <= IF once /\ useGzip THEN 1 ELSE 0

\* What goes out decompresses to the body the formatter makes: nothing lost
\* between the formatter, the compressor and the pipe, nothing twice or out of
\* order, and when the transport sees the end all of it has gone out.
SentWhole ==
  /\ \A w \in Writers :
       /\ wpc[w] = "copy" => got \o held[w] = body
       /\ wpc[w] \in {"close", "done"} => got \o held[w] = Append(body, Trailer)
  /\ transport = "ended" =>
       /\ AtEnd
       /\ got = IF useGzip THEN Append(body, Trailer) ELSE body

\* The transport never waits at the pipe for ever, and the writer ends: once it
\* has been started the body is handed out to its end, unless the transport
\* gives up first, which leaves a writer behind that nobody reads from.
BodyEnds ==
  \A w \in Writers :
    wpc[w] = "copy" ~> \/ transport = "ended" /\ wpc[w] = "done"
                       \/ transport = "gone"
=============================================================================
