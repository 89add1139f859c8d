------------------------------ MODULE JobStream -----------------------------
(* The log of one job and one page that shows it: lines stored in batches   *)
(* and sent to the subscribers (services/logs.js), a stream that replays    *)
(* what came after the reader's last line and then follows (api/sse.js),    *)
(* and the viewer, which loads the end of the log, follows it, and loads    *)
(* earlier pages on demand (public/js/log-viewer.js).  What the browser's   *)
(* EventSource does is external: it connects again after a dropped          *)
(* connection, and gives up for good when it is answered with an error.     *)
EXTENDS Integers, Sequences, FiniteSetsExt

CONSTANTS
  MaxLines,   \* bound: lines of the log
  MaxBatch,   \* bound: lines of a batch
  PageSize,   \* lines of a page of the viewer
  MaxLosses   \* bound: times the job is lost and queued again

ASSUME StreamAssumption == /\ MaxLines \in Nat /\ MaxBatch \in Nat \ {0}
                           /\ PageSize \in Nat \ {0} /\ MaxLosses \in Nat

VARIABLES
  log,      \* number of lines stored; a line is its seq
  job,      \* whether it is active, and how often it was lost
  stream,   \* the connection: open, subscribed, events on the wire
  viewer,   \* the page
  earlier   \* the answer to a request for earlier lines, or NoPage

streamVars == <<log, job, stream, viewer, earlier>>

Seqs(from, to) == [i \in 1..(to - from + 1) |-> from + i - 1]

End      == 0                     \* on the wire: the event `end`; else a seq
NoPage   == [lines |-> <<>>, hasMore |-> FALSE, total |-> -1]
NoStream == [open |-> FALSE, subscribed |-> FALSE, wire |-> <<>>]

StreamTypeOK ==
  /\ log \in 0..MaxLines
  /\ job \in [active : BOOLEAN, losses : 0..MaxLosses]
  /\ stream.open \in BOOLEAN /\ stream.subscribed \in BOOLEAN
  /\ stream.wire \in Seq(0..MaxLines)
  /\ viewer.phase \in {"rendered", "loaded", "stalled", "ended", "final"}
  /\ viewer.active \in BOOLEAN        \* jobActive, when the page was rendered
  /\ viewer.lines \in Seq(1..MaxLines)
  /\ viewer.lastSeq \in 0..MaxLines
  /\ viewer.hasMore \in BOOLEAN /\ viewer.total \in Nat
  /\ earlier.total \in Nat \cup {-1}

-----------------------------------------------------------------------------
(* The Coordinator *)

\* pageBefore and count: the last lines before seq `before`.
PageBefore(before) ==
  LET first == Max({1, before - PageSize})
  IN [lines |-> Seqs(first, before - 1), hasMore |-> first > 1, total |-> log]

\* appendBatch: stored in one transaction, then sent on.
AppendBatch(n) ==
  /\ log + n <= MaxLines
  /\ log' = log + n
  /\ stream' = IF stream.subscribed
               THEN [stream EXCEPT !.wire = @ \o Seqs(log + 1, log + n)]
               ELSE stream
  /\ UNCHANGED <<job, viewer, earlier>>

\* job.finished, also of a lost job that is queued again at once.
Finished(requeued) ==
  /\ job.active
  /\ requeued => job.losses < MaxLosses
  /\ job' = [active |-> requeued, losses |-> IF requeued THEN job.losses + 1 ELSE job.losses]
  /\ stream' = IF stream.subscribed
               THEN [stream EXCEPT !.wire = Append(@, End), !.subscribed = FALSE]
               ELSE stream
  /\ UNCHANGED <<log, viewer, earlier>>

\* Mutant of Replay: one line too many is left out.
ReplayAfterNext(seq) == Seqs(seq + 2, log)

Replay(seq) == Seqs(seq + 1, log)

\* attachJobStream.  EventSource resumes after the last line it got, which is
\* the last one the viewer has.
Attach ==
  /\ viewer.phase = "loaded" /\ viewer.active /\ ~stream.open
  /\ stream' = [open       |-> TRUE,
                subscribed |-> job.active,
                wire       |-> Replay(viewer.lastSeq) \o (IF job.active THEN <<>> ELSE <<End>>)]
  /\ UNCHANGED <<log, job, viewer, earlier>>

\* The connection is answered with an HTTP error: 401 when the session has
\* ended, a proxy's 502 while the Coordinator restarts.  EventSource closes
\* for good, and onerror does nothing about it.
Refused ==
  /\ viewer.phase = "loaded" /\ viewer.active /\ ~stream.open
  /\ viewer' = [viewer EXCEPT !.phase = "stalled"]
  /\ UNCHANGED <<log, job, stream, earlier>>

Drop ==
  /\ stream.open
  /\ stream' = NoStream
  /\ UNCHANGED <<log, job, viewer, earlier>>

-----------------------------------------------------------------------------
(* The page *)

\* The page is opened or reloaded by its reader, or reloads itself 1.5 s
\* after the end of the stream.
RenderPage ==
  /\ viewer' = [phase |-> "rendered", active |-> job.active, lines |-> <<>>,
                lastSeq |-> 0, hasMore |-> FALSE, total |-> 0]
  /\ stream' = NoStream /\ earlier' = NoPage
  /\ UNCHANGED <<log, job>>

\* The first page: the end of the log.
LoadPage ==
  /\ viewer.phase = "rendered"
  /\ LET page == PageBefore(log + 1)
     IN viewer' = [viewer EXCEPT
          !.phase = IF viewer.active THEN "loaded" ELSE "final",
          !.lines = page.lines, !.lastSeq = log,
          !.hasMore = page.hasMore, !.total = Max({@, page.total})]
  /\ UNCHANGED <<log, job, stream, earlier>>

WithLine(seq) ==
  IF seq <= viewer.lastSeq THEN viewer
  ELSE [viewer EXCEPT !.lines = Append(@, seq), !.lastSeq = seq, !.total = @ + 1]

\* The next event reaches the viewer.
Receive ==
  /\ stream.wire # <<>>
  /\ IF Head(stream.wire) = End
     THEN viewer' = [viewer EXCEPT !.phase = "ended"] /\ stream' = NoStream
     ELSE /\ viewer' = WithLine(Head(stream.wire))
          /\ stream' = [stream EXCEPT !.wire = Tail(@)]
  /\ UNCHANGED <<log, job, earlier>>

\* loadEarlier: the request, and later its answer.
AskEarlier ==
  /\ viewer.phase # "rendered"
  /\ viewer.hasMore /\ earlier = NoPage
  /\ earlier' = PageBefore(viewer.lines[1])
  /\ UNCHANGED <<log, job, stream, viewer>>

\* Mutant of WithEarlier: the number of lines is taken from the answer.
WithEarlierTotal(page) ==
  [viewer EXCEPT !.lines = page.lines \o @, !.hasMore = page.hasMore, !.total = page.total]

WithEarlier(page) ==
  [viewer EXCEPT !.lines = page.lines \o @, !.hasMore = page.hasMore,
                 !.total = Max({@, page.total})]

AbsorbEarlier ==
  /\ earlier # NoPage
  /\ earlier' = NoPage
  /\ viewer' = WithEarlier(earlier) \/ UNCHANGED viewer   \* it failed
  /\ UNCHANGED <<log, job, stream>>

StreamInit ==
  /\ log = 0
  /\ job = [active |-> TRUE, losses |-> 0]
  /\ stream = NoStream /\ earlier = NoPage
  /\ viewer = [phase |-> "rendered", active |-> TRUE, lines |-> <<>>, lastSeq |-> 0,
               hasMore |-> FALSE, total |-> 0]

StreamNext ==
  \/ \E n \in 1..MaxBatch : AppendBatch(n)
  \/ \E requeued \in BOOLEAN : Finished(requeued)
  \/ Attach \/ Refused \/ Drop
  \/ RenderPage \/ LoadPage \/ Receive \/ AskEarlier \/ AbsorbEarlier

\* EventSource reconnects until it is refused, and a connection carries
\* events before it drops.
StreamFairness ==
  /\ WF_streamVars(Attach) /\ SF_streamVars(Receive)

StreamSpec == StreamInit /\ [][StreamNext]_streamVars /\ StreamFairness

-----------------------------------------------------------------------------

\* The viewer implements LogWindow: whatever overlaps, batches, dropped
\* streams, replays, earlier pages and the end of the job, the lines on the
\* page have no gap and no duplicate, and while it follows the job every line
\* that is stored arrives.  It no longer follows once its connection has been
\* refused: what it shows then stays a run of the log, but ends there.
W == INSTANCE LogWindow WITH MaxWritten <- MaxLines,
                             written    <- log,
                             window     <- viewer.lines,
                             following  <- viewer.phase = "loaded" /\ viewer.active
ReaderSeesTheLog == W!WindowSpec

\* The line above the log is not short: it offers earlier lines exactly when
\* there are some, and never counts fewer lines than there are up to the
\* last one shown.
InfoNotShort ==
  viewer.phase # "rendered" =>
    /\ viewer.hasMore <=> viewer.lines # <<>> /\ viewer.lines[1] > 1
    /\ viewer.total >= viewer.lastSeq
=============================================================================
