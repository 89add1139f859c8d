---------------------------- MODULE StreamProofs ----------------------------
(* Proofs about JobStream, for any number of lines, batches, pages and      *)
(* losses, then about Live and SelfUpdate, and about the parts side by side *)
(* as MCArrives composes them.                                              *)
(*                                                                          *)
(* The page holds a run of the log that ends at lastSeq (ViewerInv), the    *)
(* wire goes on from there (WireInv), and an earlier page that was asked    *)
(* for ends where the run begins (EarlierInv).                              *)
(*                                                                          *)
(* The second part is about open pages, for any tabs and number of changes: *)
(* what the server has compared is shown, or on its way to every tab (Due). *)
(* The third is about the update of the Coordinator itself, for any         *)
(* versions and timeouts: what is on disk and what the helper installs is   *)
(* never older than what runs (VersionInv), and the page that waits has a   *)
(* number of ticks left that only a new request raises (Left).              *)
EXTENDS MCArrives, OrdersProofs, SequenceTheorems, TLAPS

JobType    == [active : BOOLEAN, losses : 0..MaxLosses]
WireType   == [open : BOOLEAN, subscribed : BOOLEAN, wire : Seq(Nat)]
ViewerType == [phase   : {"rendered", "loaded", "stalled", "ended", "final"},
               active  : BOOLEAN,
               lines   : Seq(Nat),
               lastSeq : Nat,
               hasMore : BOOLEAN,
               total   : Nat]
PageType   == [lines : Seq(Nat), hasMore : BOOLEAN, total : Nat \cup {-1}]

TypesInv == /\ log \in 0..MaxLines /\ job \in JobType /\ stream \in WireType
            /\ viewer \in ViewerType /\ earlier \in PageType

\* The lines on the page are those from n to the last one.
RunFrom(n) == viewer.lines = Seqs(n, viewer.lastSeq)

ViewerInv ==
  /\ viewer.lastSeq <= log /\ viewer.lastSeq <= viewer.total
  /\ \E n \in 1..viewer.lastSeq \cup {1} : RunFrom(n) /\ (viewer.hasMore <=> n > 1)

WireInv ==
  /\ stream.open => viewer.phase = "loaded" /\ viewer.active
  /\ ~stream.open => stream.wire = <<>> /\ ~stream.subscribed
  /\ stream.subscribed => stream.wire = Seqs(viewer.lastSeq + 1, log)
  /\ stream.open /\ ~stream.subscribed =>
       \E m \in viewer.lastSeq..log : stream.wire = Append(Seqs(viewer.lastSeq + 1, m), End)

EarlierInv ==
  earlier # NoPage =>
    /\ viewer.phase # "rendered" /\ earlier.total \in Nat
    /\ \E n \in 2..viewer.lastSeq, first \in Nat \ {0} :
         /\ RunFrom(n) /\ first < n
         /\ earlier.lines = Seqs(first, n - 1) /\ (earlier.hasMore <=> first > 1)

\* The inductive invariant.
StreamInv == TypesInv /\ ViewerInv /\ WireInv /\ EarlierInv

-----------------------------------------------------------------------------
(* Runs of the log *)

LEMMA SeqsIs ==
  ASSUME NEW from \in Nat, NEW to \in Nat, from <= to + 1
  PROVE  /\ Seqs(from, to) \in Seq(Nat) /\ Len(Seqs(from, to)) = to - from + 1
         /\ \A i \in 1..(to - from + 1) : Seqs(from, to)[i] = from + i - 1
<1> DEFINE n == to - from + 1
<1>1. n \in Nat
  OBVIOUS
<1>2. \A i \in 1..n : from + i - 1 \in Nat
  OBVIOUS
<1> QED
  BY <1>1, <1>2 DEF Seqs

LEMMA SeqsEmpty ==
  ASSUME NEW to \in Nat
  PROVE  Seqs(to + 1, to) = <<>>
<1>1. Seqs(to + 1, to) \in Seq(Nat) /\ Len(Seqs(to + 1, to)) = 0
  BY SeqsIs
<1> QED
  BY <1>1, EmptySeq

LEMMA SeqsConcat ==
  ASSUME NEW a \in Nat, NEW b \in Nat, NEW c \in Nat, a <= b + 1, b <= c
  PROVE  Seqs(a, b) \o Seqs(b + 1, c) = Seqs(a, c)
<1> DEFINE s == Seqs(a, b)
           t == Seqs(b + 1, c)
           u == Seqs(a, c)
<1>1. s \in Seq(Nat) /\ Len(s) = b - a + 1 /\ \A i \in 1..(b - a + 1) : s[i] = a + i - 1
  BY SeqsIs
<1>2. t \in Seq(Nat) /\ Len(t) = c - b /\ \A i \in 1..(c - b) : t[i] = b + i
  <2>1. b + 1 \in Nat /\ b + 1 <= c + 1 /\ c - (b + 1) + 1 = c - b
    OBVIOUS
  <2>2. /\ t \in Seq(Nat) /\ Len(t) = c - (b + 1) + 1
        /\ \A i \in 1..(c - (b + 1) + 1) : t[i] = (b + 1) + i - 1
    BY <2>1, SeqsIs
  <2> HIDE DEF t
  <2> QED
    BY <2>1, <2>2
<1>3. u \in Seq(Nat) /\ Len(u) = c - a + 1 /\ \A i \in 1..(c - a + 1) : u[i] = a + i - 1
  <2>1. a <= c + 1
    OBVIOUS
  <2> QED
    BY <2>1, SeqsIs
<1> HIDE DEF s, t, u
<1>4. /\ s \o t \in Seq(Nat) /\ Len(s \o t) = Len(s) + Len(t)
      /\ \A i \in 1..(Len(s) + Len(t)) :
           (s \o t)[i] = IF i <= Len(s) THEN s[i] ELSE t[i - Len(s)]
  BY <1>1, <1>2, ConcatProperties
<1>5. Len(s \o t) = Len(u)
  BY <1>1, <1>2, <1>3, <1>4
<1>6. ASSUME NEW i \in 1..Len(u) PROVE (s \o t)[i] = u[i]
  <2>1. u[i] = a + i - 1 /\ i \in 1..(Len(s) + Len(t))
    BY <1>3, <1>4, <1>5
  <2>2. CASE i <= Len(s)
    BY <1>1, <1>4, <2>1, <2>2
  <2>3. CASE ~(i <= Len(s))
    <3>1. i - Len(s) \in 1..(c - b) /\ b + (i - Len(s)) = a + i - 1
      BY <1>1, <1>2, <2>1, <2>3
    <3> QED
      BY <1>2, <1>4, <2>1, <2>3, <3>1
  <2> QED
    BY <2>2, <2>3
<1> QED
  BY <1>3, <1>4, <1>5, <1>6, SeqEqual DEF s, t, u

LEMMA SeqsAppend ==
  ASSUME NEW a \in Nat, NEW b \in Nat, a <= b + 1
  PROVE  Append(Seqs(a, b), b + 1) = Seqs(a, b + 1)
<1>1. Seqs(b + 1, b + 1) = <<b + 1>>
  BY DEF Seqs
<1>2. Append(Seqs(a, b), b + 1) = Seqs(a, b) \o <<b + 1>>
  <2>1. Seqs(a, b) \in Seq(Nat) /\ b + 1 \in Nat
    BY SeqsIs
  <2> QED
    BY <2>1, AppendIsConcat
<1>3. b + 1 \in Nat /\ b <= b + 1
  OBVIOUS
<1>4. Seqs(a, b) \o Seqs(b + 1, b + 1) = Seqs(a, b + 1)
  BY <1>3, SeqsConcat
<1> QED
  BY <1>1, <1>2, <1>4

LEMMA SeqsHeadTail ==
  ASSUME NEW a \in Nat, NEW b \in Nat, a <= b
  PROVE  /\ Seqs(a, b) # <<>> /\ Seqs(a, b)[1] = a /\ Head(Seqs(a, b)) = a
         /\ Tail(Seqs(a, b)) = Seqs(a + 1, b)
         /\ Seqs(a, b)[Len(Seqs(a, b))] = b
<1> DEFINE s == Seqs(a, b)
           t == Seqs(a + 1, b)
<1>1. s \in Seq(Nat) /\ Len(s) = b - a + 1 /\ \A i \in 1..(b - a + 1) : s[i] = a + i - 1
  BY SeqsIs
<1>2. t \in Seq(Nat) /\ Len(t) = b - a /\ \A i \in 1..(b - a) : t[i] = a + i
  <2>1. a + 1 \in Nat /\ a + 1 <= b + 1 /\ b - (a + 1) + 1 = b - a
    OBVIOUS
  <2>2. /\ t \in Seq(Nat) /\ Len(t) = b - (a + 1) + 1
        /\ \A i \in 1..(b - (a + 1) + 1) : t[i] = (a + 1) + i - 1
    BY <2>1, SeqsIs
  <2> HIDE DEF t
  <2> QED
    BY <2>1, <2>2
<1> HIDE DEF s, t
<1>3. s # <<>> /\ s[1] = a /\ s[Len(s)] = b
  BY <1>1
<1>4. /\ Head(s) = s[1] /\ Tail(s) \in Seq(Nat) /\ Len(Tail(s)) = Len(s) - 1
      /\ \A i \in 1..Len(Tail(s)) : Tail(s)[i] = s[i + 1]
  BY <1>1, <1>3, HeadTailProperties
<1>5. ASSUME NEW i \in 1..Len(t) PROVE Tail(s)[i] = t[i]
  <2>1. i \in 1..Len(Tail(s)) /\ i + 1 \in 1..(b - a + 1) /\ i \in 1..(b - a)
    BY <1>1, <1>2, <1>4
  <2> QED
    BY <1>1, <1>2, <1>4, <2>1
<1>6. Len(Tail(s)) = Len(t)
  BY <1>1, <1>2, <1>4
<1>7. Tail(s) = t
  BY <1>2, <1>4, <1>5, <1>6, SeqEqual
<1> QED
  BY <1>3, <1>4, <1>7 DEF s, t

\* Where an earlier page begins.
LEMMA PageFirst ==
  ASSUME NEW before \in Nat \ {0}
  PROVE  \E first \in 1..before :
           /\ PageBefore(before) = [lines |-> Seqs(first, before - 1), hasMore |-> (first > 1),
                                    total |-> log]
           /\ before > 1 => first < before
<1> DEFINE first == Max({1, before - PageSize})
<1>1. PageSize \in Nat /\ PageSize > 0
  BY StreamAssumption
<1>2. first \in {1, before - PageSize} /\ first >= 1 /\ first >= before - PageSize
  BY <1>1 DEF Max
<1>3. first \in 1..before /\ (before > 1 => first < before)
  BY <1>1, <1>2
<1>4. PageBefore(before) = [lines |-> Seqs(first, before - 1), hasMore |-> (first > 1),
                            total |-> log]
  BY DEF PageBefore
<1> QED
  BY <1>3, <1>4

LEMMA MaxIs ==
  ASSUME NEW a \in Nat, NEW b \in Nat
  PROVE  Max({a, b}) \in Nat /\ Max({a, b}) >= a /\ Max({a, b}) >= b
BY DEF Max

-----------------------------------------------------------------------------

LEMMA StreamInvInit == StreamInit => StreamInv
<1> SUFFICES ASSUME StreamInit PROVE StreamInv
  OBVIOUS
<1>1. /\ log = 0 /\ job = [active |-> TRUE, losses |-> 0]
      /\ stream = [open |-> FALSE, subscribed |-> FALSE, wire |-> <<>>]
      /\ earlier = NoPage /\ NoPage = [lines |-> <<>>, hasMore |-> FALSE, total |-> -1]
      /\ viewer = [phase |-> "rendered", active |-> TRUE, lines |-> <<>>, lastSeq |-> 0,
                   hasMore |-> FALSE, total |-> 0]
  BY DEF StreamInit, NoStream, NoPage
<1>2. <<>> \in Seq(Nat) /\ Seqs(1, 0) = <<>>
  BY SeqsEmpty, EmptySeq
<1>3. TypesInv
  BY <1>1, <1>2, StreamAssumption
     DEF TypesInv, JobType, WireType, ViewerType, PageType
<1>4. ViewerInv
  BY <1>1, <1>2 DEF ViewerInv, RunFrom
<1> QED
  BY <1>1, <1>3, <1>4 DEF StreamInv, WireInv, EarlierInv

LEMMA AppendBatchKeeps ==
  ASSUME StreamInv, NEW n \in 1..MaxBatch, AppendBatch(n)
  PROVE  StreamInv'
<1>1. /\ log \in Nat /\ n \in Nat \ {0} /\ log' = log + n /\ log + n \in 0..MaxLines
      /\ viewer.lastSeq \in Nat /\ viewer.lastSeq <= log /\ stream \in WireType
      /\ UNCHANGED <<job, viewer, earlier>>
  BY StreamAssumption DEF StreamInv, TypesInv, ViewerInv, ViewerType, AppendBatch
<1>2. CASE stream.subscribed
  <2>1. stream' = [stream EXCEPT !.wire = stream.wire \o Seqs(log + 1, log + n)]
    BY <1>2 DEF AppendBatch
  <2>2. /\ viewer.lastSeq + 1 \in Nat /\ log + n \in Nat /\ log <= log + n
        /\ viewer.lastSeq + 1 <= log + 1 /\ viewer.lastSeq + 1 <= (log + n) + 1
    BY <1>1
  <2>3. /\ stream.wire \o Seqs(log + 1, log + n) = Seqs(viewer.lastSeq + 1, log + n)
        /\ Seqs(viewer.lastSeq + 1, log + n) \in Seq(Nat)
    <3>1. stream.wire = Seqs(viewer.lastSeq + 1, log)
      BY <1>2 DEF StreamInv, WireInv
    <3>2. Seqs(viewer.lastSeq + 1, log) \o Seqs(log + 1, log + n) = Seqs(viewer.lastSeq + 1, log + n)
      BY <1>1, <2>2, SeqsConcat
    <3>3. Seqs(viewer.lastSeq + 1, log + n) \in Seq(Nat)
      BY <2>2, SeqsIs
    <3> QED
      BY <3>1, <3>2, <3>3
  <2>4. /\ stream' \in WireType /\ stream'.wire = Seqs(viewer.lastSeq + 1, log')
        /\ stream'.open = stream.open /\ stream'.subscribed
    BY <1>1, <1>2, <2>1, <2>3 DEF WireType
  <2> QED
    BY <1>1, <1>2, <2>4
       DEF StreamInv, TypesInv, ViewerInv, WireInv, EarlierInv, RunFrom
<1>3. CASE ~stream.subscribed
  <2>1. stream' = stream
    BY <1>3 DEF AppendBatch
  <2>2. TypesInv' /\ ViewerInv' /\ EarlierInv'
    BY <1>1, <2>1 DEF StreamInv, TypesInv, ViewerInv, EarlierInv, RunFrom
  <2>3. WireInv'
    BY <1>1, <1>3, <2>1 DEF StreamInv, WireInv
  <2> QED
    BY <2>2, <2>3 DEF StreamInv
<1> QED
  BY <1>2, <1>3

\* The viewer and what it has asked for do not change.
LEMMA SameViewer ==
  ASSUME StreamInv, UNCHANGED <<log, viewer, earlier>>,
         job' \in JobType, stream' \in WireType, WireInv'
  PROVE  StreamInv'
BY DEF StreamInv, TypesInv, ViewerInv, EarlierInv, RunFrom

LEMMA FinishedKeeps ==
  ASSUME StreamInv, NEW requeued \in BOOLEAN, Finished(requeued)
  PROVE  StreamInv'
<1>1. /\ log \in Nat /\ viewer.lastSeq \in Nat /\ viewer.lastSeq <= log
      /\ stream \in WireType /\ job \in JobType /\ UNCHANGED <<log, viewer, earlier>>
  BY StreamAssumption DEF StreamInv, TypesInv, ViewerInv, ViewerType, Finished
<1>2. job' \in JobType
  BY <1>1, StreamAssumption DEF Finished, JobType
<1>3. CASE stream.subscribed
  <2>1. stream' = [stream EXCEPT !.wire = Append(stream.wire, End), !.subscribed = FALSE]
    BY <1>3 DEF Finished
  <2>2. stream.wire \in Seq(Nat) /\ Append(stream.wire, End) \in Seq(Nat)
    BY <1>1, AppendProperties DEF WireType, End
  <2>3. /\ stream' \in WireType /\ stream'.wire = Append(stream.wire, End)
        /\ stream'.open = stream.open /\ ~stream'.subscribed
    BY <1>1, <2>1, <2>2 DEF WireType
  <2>4. stream.open /\ stream.wire = Seqs(viewer.lastSeq + 1, log) /\ log \in viewer.lastSeq..log
    BY <1>1, <1>3 DEF StreamInv, WireInv
  <2>5. WireInv'
    BY <1>1, <2>3, <2>4 DEF StreamInv, WireInv
  <2> QED
    BY <1>1, <1>2, <2>3, <2>5, SameViewer
<1>4. CASE ~stream.subscribed
  <2>1. stream' = stream
    BY <1>4 DEF Finished
  <2>2. WireInv'
    BY <1>1, <2>1 DEF StreamInv, WireInv
  <2> QED
    BY <1>1, <1>2, <2>1, <2>2, SameViewer
<1> QED
  BY <1>3, <1>4

LEMMA AttachKeeps ==
  ASSUME StreamInv, Attach
  PROVE  StreamInv'
<1>1. /\ log \in Nat /\ viewer.lastSeq \in Nat /\ viewer.lastSeq <= log
      /\ job \in JobType /\ UNCHANGED <<log, job, viewer, earlier>>
      /\ viewer.phase = "loaded" /\ viewer.active
  BY StreamAssumption DEF StreamInv, TypesInv, ViewerInv, ViewerType, Attach
<1> DEFINE replay == Seqs(viewer.lastSeq + 1, log)
<1>2. replay \in Seq(Nat) /\ Append(replay, End) \in Seq(Nat)
      /\ replay \o <<>> = replay /\ replay \o <<End>> = Append(replay, End)
  <2>1. replay \in Seq(Nat)
    <3>1. viewer.lastSeq + 1 \in Nat /\ viewer.lastSeq + 1 <= log + 1 /\ log \in Nat
      BY <1>1
    <3> QED
      BY <3>1, SeqsIs
  <2> HIDE DEF replay
  <2> QED
    BY <2>1, AppendProperties, AppendIsConcat, ConcatEmptySeq DEF End
<1>3. /\ stream' = [open |-> TRUE, subscribed |-> job.active,
                    wire |-> IF job.active THEN replay ELSE Append(replay, End)]
  BY <1>2 DEF Attach, Replay
<1>4. stream' \in WireType
  BY <1>1, <1>2, <1>3 DEF WireType, JobType
<1>5. log \in viewer.lastSeq..log
  BY <1>1
<1>6. WireInv'
  BY <1>1, <1>3, <1>5 DEF WireInv
<1> QED
  BY <1>1, <1>4, <1>6, SameViewer

LEMMA DropKeeps ==
  ASSUME StreamInv, Drop
  PROVE  StreamInv'
<1>1. /\ stream' = [open |-> FALSE, subscribed |-> FALSE, wire |-> <<>>]
      /\ UNCHANGED <<log, job, viewer, earlier>> /\ job \in JobType
  BY DEF Drop, NoStream, StreamInv, TypesInv
<1>2. stream' \in WireType
  BY <1>1, EmptySeq DEF WireType
<1>3. WireInv'
  BY <1>1 DEF WireInv
<1> QED
  BY <1>1, <1>2, <1>3, SameViewer

\* A refused connection only ends the following.
LEMMA RefusedKeeps ==
  ASSUME StreamInv, Refused
  PROVE  /\ StreamInv'
         /\ viewer'.phase = "stalled" /\ viewer'.lines = viewer.lines
<1>1. /\ viewer \in ViewerType /\ ~stream.open
      /\ viewer' = [viewer EXCEPT !.phase = "stalled"] /\ UNCHANGED <<log, job, stream, earlier>>
  BY DEF Refused, StreamInv, TypesInv
<1>2. /\ viewer' \in ViewerType /\ viewer'.phase = "stalled"
      /\ viewer'.lines = viewer.lines /\ viewer'.lastSeq = viewer.lastSeq
      /\ viewer'.hasMore = viewer.hasMore /\ viewer'.total = viewer.total
  BY <1>1 DEF ViewerType
<1>3. TypesInv' /\ ViewerInv'
  BY <1>1, <1>2 DEF StreamInv, TypesInv, ViewerInv, RunFrom
<1>4. WireInv' /\ EarlierInv'
  BY <1>1, <1>2 DEF StreamInv, WireInv, EarlierInv, RunFrom
<1> QED
  BY <1>2, <1>3, <1>4 DEF StreamInv

LEMMA RenderPageKeeps ==
  ASSUME StreamInv, RenderPage
  PROVE  StreamInv'
<1>1. /\ viewer' = [phase |-> "rendered", active |-> job.active, lines |-> <<>>,
                    lastSeq |-> 0, hasMore |-> FALSE, total |-> 0]
      /\ earlier' = NoPage /\ NoPage = [lines |-> <<>>, hasMore |-> FALSE, total |-> -1]
      /\ stream' = [open |-> FALSE, subscribed |-> FALSE, wire |-> <<>>]
      /\ UNCHANGED <<log, job>>
      /\ log \in Nat /\ job \in JobType
  BY StreamAssumption DEF RenderPage, NoPage, NoStream, StreamInv, TypesInv
<1>2. <<>> \in Seq(Nat) /\ Seqs(1, 0) = <<>>
  BY SeqsEmpty, EmptySeq
<1>3. TypesInv'
  BY <1>1, <1>2, EmptySeq DEF StreamInv, TypesInv, ViewerType, PageType, JobType, WireType
<1>4. ViewerInv'
  BY <1>1, <1>2 DEF ViewerInv, RunFrom
<1>5. WireInv'
  BY <1>1 DEF WireInv
<1> QED
  BY <1>1, <1>3, <1>4, <1>5 DEF StreamInv, EarlierInv

LEMMA LoadPageKeeps ==
  ASSUME StreamInv, LoadPage
  PROVE  StreamInv'
<1>1. /\ log \in Nat /\ viewer \in ViewerType /\ viewer.phase = "rendered"
      /\ UNCHANGED <<log, job, stream, earlier>> /\ earlier = NoPage
      /\ ~stream.open
  BY StreamAssumption DEF LoadPage, StreamInv, TypesInv, EarlierInv, WireInv
<1>2. PICK first \in 1..(log + 1) :
        /\ PageBefore(log + 1) = [lines |-> Seqs(first, (log + 1) - 1), hasMore |-> (first > 1),
                                  total |-> log]
        /\ log + 1 > 1 => first < log + 1
  BY <1>1, PageFirst
<1>3. (log + 1) - 1 = log /\ first \in Nat /\ first <= log + 1 /\ first \in 1..log \cup {1}
  BY <1>1, <1>2
<1>4. Seqs(first, log) \in Seq(Nat)
  BY <1>1, <1>3, SeqsIs
<1> DEFINE phase == IF viewer.active THEN "loaded" ELSE "final"
           total == Max({viewer.total, log})
<1>5. viewer' = [viewer EXCEPT !.phase = phase, !.lines = Seqs(first, log), !.lastSeq = log,
                               !.hasMore = (first > 1), !.total = total]
  <2> DEFINE page == PageBefore(log + 1)
  <2>1. page.lines = Seqs(first, log) /\ page.hasMore = (first > 1) /\ page.total = log
    BY <1>2, <1>3
  <2>2. viewer' = [viewer EXCEPT
           !.phase = IF viewer.active THEN "loaded" ELSE "final",
           !.lines = page.lines, !.lastSeq = log,
           !.hasMore = page.hasMore, !.total = Max({viewer.total, page.total})]
    BY Zenon DEF LoadPage
  <2> HIDE DEF page
  <2> QED
    BY <2>1, <2>2, Zenon DEF phase, total
<1>6. total \in Nat /\ total >= log /\ phase \in {"loaded", "final"}
  BY <1>1, MaxIs DEF ViewerType
<1>7. (first > 1) \in BOOLEAN
  OBVIOUS
<1> HIDE DEF phase, total
<1>8. /\ viewer' \in ViewerType /\ viewer'.lines = Seqs(first, log) /\ viewer'.lastSeq = log
      /\ (viewer'.hasMore <=> first > 1) /\ viewer'.total = total
  BY <1>1, <1>4, <1>5, <1>6, <1>7 DEF ViewerType
<1>9. TypesInv' /\ WireInv' /\ EarlierInv'
  BY <1>1, <1>8 DEF StreamInv, TypesInv, WireInv, EarlierInv
<1>10. ViewerInv'
  BY <1>1, <1>3, <1>6, <1>8 DEF ViewerInv, RunFrom
<1> QED
  BY <1>9, <1>10 DEF StreamInv

\* What the next event is, and what comes after it.
LEMMA NextEvent ==
  ASSUME StreamInv, stream.wire # <<>>
  PROVE  /\ stream.open
         /\ \/ Head(stream.wire) = End
            \/ /\ Head(stream.wire) = viewer.lastSeq + 1 /\ viewer.lastSeq < log
               /\ Tail(stream.wire) \in Seq(Nat)
               /\ stream.subscribed =>
                    Tail(stream.wire) = Seqs((viewer.lastSeq + 1) + 1, log)
               /\ ~stream.subscribed =>
                    \E m \in (viewer.lastSeq + 1)..log :
                      Tail(stream.wire) = Append(Seqs((viewer.lastSeq + 1) + 1, m), End)
<1> DEFINE last == viewer.lastSeq
<1>1. /\ log \in Nat /\ last \in Nat /\ last <= log /\ stream.wire \in Seq(Nat) /\ stream.open
  BY StreamAssumption
     DEF StreamInv, TypesInv, ViewerInv, ViewerType, WireInv, WireType
<1>2. CASE stream.subscribed
  <2>1. stream.wire = Seqs(last + 1, log)
    BY <1>2 DEF StreamInv, WireInv
  <2>2. last # log
    BY <1>1, <2>1, SeqsEmpty
  <2>3. last + 1 \in Nat /\ last + 1 <= log /\ last < log
    BY <1>1, <2>2
  <2>4. /\ Head(stream.wire) = last + 1 /\ Tail(stream.wire) = Seqs((last + 1) + 1, log)
    <3>1. /\ Head(Seqs(last + 1, log)) = last + 1
          /\ Tail(Seqs(last + 1, log)) = Seqs((last + 1) + 1, log)
      BY <1>1, <2>3, SeqsHeadTail
    <3> QED
      BY <2>1, <3>1, Zenon
  <2>5. Tail(stream.wire) \in Seq(Nat)
    BY <1>1, HeadTailProperties
  <2> QED
    BY <1>1, <1>2, <2>3, <2>4, <2>5
<1>3. CASE ~stream.subscribed
  <2>1. PICK m \in last..log : stream.wire = Append(Seqs(last + 1, m), End)
    BY <1>1, <1>3 DEF StreamInv, WireInv
  <2>2. m \in Nat /\ last + 1 \in Nat /\ last + 1 <= m + 1 /\ Seqs(last + 1, m) \in Seq(Nat)
    <3>1. m \in Nat /\ last + 1 \in Nat /\ last + 1 <= m + 1
      BY <1>1
    <3> QED
      BY <3>1, SeqsIs
  <2>3. CASE m = last
    <3>1. Seqs(last + 1, m) = <<>>
      BY <1>1, <2>3, SeqsEmpty
    <3> QED
      BY <1>1, <2>1, <3>1 DEF End
  <2>4. CASE m # last
    <3>1. last + 1 <= m /\ last < log /\ m \in (last + 1)..log
      BY <1>1, <2>2, <2>4
    <3> DEFINE s == Seqs(last + 1, m)
    <3>2. s # <<>> /\ Head(s) = last + 1 /\ Tail(s) = Seqs((last + 1) + 1, m)
      BY <2>2, <3>1, SeqsHeadTail
    <3>3. s \in Seq(Nat) /\ End \in Nat
      BY <2>2 DEF End
    <3> HIDE DEF s
    <3>4. /\ Head(Append(s, End)) = Head(s) /\ Tail(Append(s, End)) = Append(Tail(s), End)
      BY <3>2, <3>3, HeadTailAppend
    <3>5. Tail(stream.wire) \in Seq(Nat)
      BY <1>1, HeadTailProperties
    <3> QED
      BY <1>1, <1>3, <2>1, <3>1, <3>2, <3>4, <3>5 DEF s
  <2> QED
    BY <2>3, <2>4
<1> QED
  BY <1>2, <1>3

LEMMA ReceiveKeeps ==
  ASSUME StreamInv, Receive
  PROVE  StreamInv'
<1> DEFINE last == viewer.lastSeq
<1>1. /\ log \in Nat /\ last \in Nat /\ viewer \in ViewerType /\ stream \in WireType
      /\ viewer.total \in Nat /\ last <= viewer.total /\ stream.wire # <<>>
      /\ UNCHANGED <<log, job, earlier>>
  BY StreamAssumption DEF Receive, StreamInv, TypesInv, ViewerType, ViewerInv
<1>2. CASE Head(stream.wire) = End
  <2>1. /\ viewer' = [viewer EXCEPT !.phase = "ended"]
        /\ stream' = [open |-> FALSE, subscribed |-> FALSE, wire |-> <<>>]
    BY <1>2 DEF Receive, NoStream
  <2>2. /\ viewer' \in ViewerType /\ viewer'.phase = "ended"
        /\ viewer'.lines = viewer.lines /\ viewer'.lastSeq = viewer.lastSeq
        /\ viewer'.hasMore = viewer.hasMore /\ viewer'.total = viewer.total
    BY <1>1, <2>1 DEF ViewerType
  <2>3. stream' \in WireType
    BY <2>1, EmptySeq DEF WireType
  <2>4. TypesInv' /\ ViewerInv'
    BY <1>1, <2>2, <2>3 DEF StreamInv, TypesInv, ViewerInv, RunFrom
  <2>5. WireInv' /\ EarlierInv'
    BY <1>1, <2>1, <2>2 DEF StreamInv, WireInv, EarlierInv, RunFrom
  <2> QED
    BY <2>4, <2>5 DEF StreamInv
<1>3. CASE Head(stream.wire) # End
  <2>1. Head(stream.wire) = last + 1 /\ last < log /\ stream.open
    BY <1>1, <1>3, NextEvent
  <2>2. /\ viewer' = [viewer EXCEPT !.lines = Append(viewer.lines, last + 1),
                                    !.lastSeq = last + 1, !.total = viewer.total + 1]
        /\ stream' = [stream EXCEPT !.wire = Tail(stream.wire)]
    <3>1. ~(last + 1 <= last)
      BY <1>1
    <3>2. /\ viewer' = WithLine(Head(stream.wire))
          /\ stream' = [stream EXCEPT !.wire = Tail(stream.wire)]
      BY <1>3 DEF Receive
    <3>3. viewer' = WithLine(last + 1)
      BY <2>1, <3>2, Zenon
    <3> QED
      BY <3>1, <3>2, <3>3, Zenon DEF WithLine
  <2>3. /\ viewer.lines \in Seq(Nat) /\ Append(viewer.lines, last + 1) \in Seq(Nat)
        /\ last + 1 \in Nat /\ viewer.total + 1 \in Nat
    <3>1. viewer.lines \in Seq(Nat) /\ last + 1 \in Nat /\ viewer.total + 1 \in Nat
      BY <1>1 DEF ViewerType
    <3> QED
      BY <3>1, AppendProperties
  <2>4. /\ viewer' \in ViewerType /\ viewer'.lines = Append(viewer.lines, last + 1)
        /\ viewer'.lastSeq = last + 1 /\ viewer'.hasMore = viewer.hasMore
        /\ viewer'.total = viewer.total + 1
        /\ viewer'.phase = viewer.phase /\ viewer'.active = viewer.active
    <3> DEFINE lines == Append(viewer.lines, last + 1)
               seq   == last + 1
               total == viewer.total + 1
    <3>1. /\ lines \in Seq(Nat) /\ seq \in Nat /\ total \in Nat
          /\ viewer' = [viewer EXCEPT !.lines = lines, !.lastSeq = seq, !.total = total]
      BY <2>2, <2>3, Zenon
    <3> HIDE DEF lines, seq, total
    <3>2. /\ viewer' \in ViewerType /\ viewer'.lines = lines
          /\ viewer'.lastSeq = seq /\ viewer'.hasMore = viewer.hasMore
          /\ viewer'.total = total
          /\ viewer'.phase = viewer.phase /\ viewer'.active = viewer.active
      BY <1>1, <3>1 DEF ViewerType
    <3> QED
      BY <3>2, Zenon DEF lines, seq, total
  <2>5. ASSUME NEW n \in 1..last \cup {1}, RunFrom(n)
        PROVE  RunFrom(n)'
    <3>1. n \in Nat /\ n <= last + 1
      BY <1>1
    <3>2. Append(Seqs(n, last), last + 1) = Seqs(n, last + 1)
      BY <1>1, <3>1, SeqsAppend
    <3> QED
      BY <2>4, <2>5, <3>2 DEF RunFrom
  <2>6. ViewerInv'
    <3>1. PICK n \in 1..last \cup {1} : RunFrom(n) /\ (viewer.hasMore <=> n > 1)
      BY DEF StreamInv, ViewerInv
    <3>2. n \in 1..viewer'.lastSeq \cup {1} /\ RunFrom(n)' /\ (viewer'.hasMore <=> n > 1)
      BY <1>1, <2>4, <2>5, <3>1
    <3>3. viewer'.lastSeq <= log' /\ viewer'.lastSeq <= viewer'.total
      BY <1>1, <2>1, <2>4
    <3> QED
      BY <3>2, <3>3 DEF ViewerInv
  <2>7. /\ Tail(stream.wire) \in Seq(Nat)
        /\ stream.subscribed => Tail(stream.wire) = Seqs((last + 1) + 1, log)
        /\ ~stream.subscribed =>
             \E m \in (last + 1)..log : Tail(stream.wire) = Append(Seqs((last + 1) + 1, m), End)
    BY <1>1, <1>3, NextEvent
  <2>8. /\ stream' \in WireType /\ stream'.wire = Tail(stream.wire)
        /\ stream'.open = stream.open /\ stream'.subscribed = stream.subscribed
    BY <1>1, <2>2, <2>7 DEF WireType
  <2>9. WireInv'
    BY <1>1, <2>1, <2>4, <2>7, <2>8 DEF StreamInv, WireInv
  <2>10. EarlierInv'
    <3>1. CASE earlier = NoPage
      BY <1>1, <3>1 DEF EarlierInv
    <3>2. CASE earlier # NoPage
      <4>1. PICK n \in 2..last, first \in Nat \ {0} :
              /\ RunFrom(n) /\ first < n
              /\ earlier.lines = Seqs(first, n - 1) /\ (earlier.hasMore <=> first > 1)
        BY <3>2 DEF StreamInv, EarlierInv
      <4>2. n \in 2..viewer'.lastSeq /\ RunFrom(n)'
        BY <1>1, <2>4, <2>5, <4>1
      <4>3. viewer'.phase # "rendered" /\ earlier.total \in Nat
        BY <2>4, <3>2 DEF StreamInv, EarlierInv
      <4> QED
        BY <1>1, <4>1, <4>2, <4>3 DEF EarlierInv
    <3> QED
      BY <3>1, <3>2
  <2>11. TypesInv'
    BY <1>1, <2>4, <2>8 DEF StreamInv, TypesInv
  <2> QED
    BY <2>6, <2>9, <2>10, <2>11 DEF StreamInv
<1> QED
  BY <1>2, <1>3

LEMMA AskEarlierKeeps ==
  ASSUME StreamInv, AskEarlier
  PROVE  StreamInv'
<1> DEFINE last == viewer.lastSeq
<1>1. /\ log \in Nat /\ last \in Nat /\ viewer.phase # "rendered" /\ viewer.hasMore
      /\ UNCHANGED <<log, job, stream, viewer>>
  BY StreamAssumption DEF AskEarlier, StreamInv, TypesInv, ViewerType
<1>2. PICK n \in 1..last \cup {1} : RunFrom(n) /\ n > 1
  BY <1>1 DEF StreamInv, ViewerInv
<1>3. n \in Nat \ {0} /\ n \in 2..last /\ n <= last /\ n - 1 \in Nat
  BY <1>1, <1>2
<1>4. viewer.lines[1] = n
  <2>1. Seqs(n, last)[1] = n
    BY <1>1, <1>3, SeqsHeadTail
  <2> QED
    BY <1>2, <2>1 DEF RunFrom
<1>5. PICK first \in 1..n :
        /\ PageBefore(n) = [lines |-> Seqs(first, n - 1), hasMore |-> (first > 1), total |-> log]
        /\ n > 1 => first < n
  BY <1>3, PageFirst
<1>6. first \in Nat \ {0} /\ first < n /\ first <= (n - 1) + 1
  BY <1>2, <1>3, <1>5
<1>7. Seqs(first, n - 1) \in Seq(Nat)
  BY <1>3, <1>6, SeqsIs
<1>8. earlier' = [lines |-> Seqs(first, n - 1), hasMore |-> (first > 1), total |-> log]
  BY <1>4, <1>5, Zenon DEF AskEarlier
<1>9. TypesInv'
  BY <1>1, <1>7, <1>8 DEF StreamInv, TypesInv, PageType
<1>10. ViewerInv' /\ WireInv'
  BY <1>1 DEF StreamInv, ViewerInv, WireInv, RunFrom
<1>11. EarlierInv'
  <2>1. RunFrom(n)'
    BY <1>1, <1>2 DEF RunFrom
  <2>2. earlier'.lines = Seqs(first, n - 1) /\ (earlier'.hasMore <=> first > 1)
        /\ earlier'.total \in Nat
    BY <1>1, <1>8
  <2> QED
    BY <1>1, <1>3, <1>6, <2>1, <2>2 DEF EarlierInv
<1> QED
  BY <1>9, <1>10, <1>11 DEF StreamInv

\* The earlier page ends where the page begins, so together they are a run.
LEMMA EarlierPageFits ==
  ASSUME StreamInv, earlier # NoPage
  PROVE  \E n \in 2..viewer.lastSeq, first \in Nat \ {0} :
           /\ RunFrom(n) /\ viewer.lines # <<>> /\ viewer.lines[1] = n /\ first < n
           /\ earlier.lines = Seqs(first, n - 1)
           /\ earlier.lines \o viewer.lines = Seqs(first, viewer.lastSeq)
           /\ (earlier.hasMore <=> first > 1)
<1> DEFINE last == viewer.lastSeq
<1>1. last \in Nat
  BY DEF StreamInv, TypesInv, ViewerType
<1>2. PICK n \in 2..last, first \in Nat \ {0} :
        /\ RunFrom(n) /\ first < n
        /\ earlier.lines = Seqs(first, n - 1) /\ (earlier.hasMore <=> first > 1)
  BY DEF StreamInv, EarlierInv
<1>3. n \in Nat /\ n <= last /\ n - 1 \in Nat /\ (n - 1) + 1 = n
      /\ first \in Nat /\ first <= (n - 1) + 1 /\ n - 1 <= last
  BY <1>1, <1>2
<1>4. Seqs(n, last) # <<>> /\ Seqs(n, last)[1] = n
  BY <1>1, <1>3, SeqsHeadTail
<1>5. Seqs(first, n - 1) \o Seqs((n - 1) + 1, last) = Seqs(first, last)
  BY <1>1, <1>3, SeqsConcat
<1>6. viewer.lines = Seqs(n, last)
  BY <1>2 DEF RunFrom
<1>7. earlier.lines \o viewer.lines = Seqs(first, last)
  BY <1>2, <1>3, <1>5, <1>6
<1>8. viewer.lines # <<>> /\ viewer.lines[1] = n
  BY <1>4, <1>6
<1> QED
  BY <1>2, <1>7, <1>8

LEMMA AbsorbEarlierKeeps ==
  ASSUME StreamInv, AbsorbEarlier
  PROVE  StreamInv'
<1> DEFINE last == viewer.lastSeq
<1>1. /\ log \in Nat /\ last \in Nat /\ viewer \in ViewerType /\ last <= viewer.total
      /\ earlier # NoPage /\ earlier \in PageType /\ earlier.total \in Nat
      /\ earlier' = [lines |-> <<>>, hasMore |-> FALSE, total |-> -1] /\ earlier' = NoPage
      /\ UNCHANGED <<log, job, stream>>
  BY StreamAssumption
     DEF AbsorbEarlier, NoPage, StreamInv, TypesInv, ViewerInv, EarlierInv, ViewerType
<1>2. earlier' \in PageType
  BY <1>1, EmptySeq DEF PageType
<1>3. CASE UNCHANGED viewer
  BY <1>1, <1>2, <1>3 DEF StreamInv, TypesInv, ViewerInv, WireInv, EarlierInv, RunFrom
<1>4. CASE viewer' = WithEarlier(earlier)
  <2>1. PICK n \in 2..last, first \in Nat \ {0} :
          /\ RunFrom(n) /\ first < n
          /\ earlier.lines \o viewer.lines = Seqs(first, last)
          /\ (earlier.hasMore <=> first > 1)
    BY <1>1, EarlierPageFits
  <2>2. first \in Nat /\ first <= last + 1 /\ first \in 1..last
    BY <1>1, <2>1
  <2>3. Seqs(first, last) \in Seq(Nat)
    BY <1>1, <2>2, SeqsIs
  <2> DEFINE total == Max({viewer.total, earlier.total})
  <2>4. total \in Nat /\ last <= total
    <3>1. viewer.total \in Nat
      BY <1>1 DEF ViewerType
    <3>2. total \in Nat /\ total >= viewer.total
      BY <1>1, <3>1, MaxIs
    <3> HIDE DEF total
    <3> QED
      BY <1>1, <3>1, <3>2
  <2>5. viewer' = [viewer EXCEPT !.lines = earlier.lines \o viewer.lines,
                                 !.hasMore = earlier.hasMore, !.total = total]
    BY <1>4, Zenon DEF WithEarlier
  <2>6. viewer' = [viewer EXCEPT !.lines = Seqs(first, last),
                                 !.hasMore = earlier.hasMore, !.total = total]
    BY <2>1, <2>5, Zenon
  <2>7. earlier.hasMore \in BOOLEAN
    BY <1>1 DEF PageType
  <2> HIDE DEF total
  <2>8. /\ viewer' \in ViewerType /\ viewer'.lines = Seqs(first, last) /\ viewer'.lastSeq = last
        /\ viewer'.hasMore = earlier.hasMore /\ viewer'.total = total
        /\ viewer'.phase = viewer.phase /\ viewer'.active = viewer.active
    BY <1>1, <2>3, <2>4, <2>6, <2>7 DEF ViewerType
  <2>9. ViewerInv'
    <3>1. first \in 1..viewer'.lastSeq \cup {1} /\ RunFrom(first)' /\ (viewer'.hasMore <=> first > 1)
      BY <1>1, <2>1, <2>2, <2>8 DEF RunFrom
    <3>2. viewer'.lastSeq <= log' /\ viewer'.lastSeq <= viewer'.total
      BY <1>1, <2>4, <2>8 DEF StreamInv, ViewerInv
    <3> QED
      BY <3>1, <3>2 DEF ViewerInv
  <2>10. TypesInv' /\ WireInv' /\ EarlierInv'
    BY <1>1, <1>2, <2>8 DEF StreamInv, TypesInv, WireInv, EarlierInv
  <2> QED
    BY <2>9, <2>10 DEF StreamInv
<1> QED
  BY <1>3, <1>4 DEF AbsorbEarlier

-----------------------------------------------------------------------------

LEMMA StreamStep == ASSUME StreamInv, [StreamNext]_streamVars PROVE StreamInv'
<1>1. ASSUME NEW n \in 1..MaxBatch, AppendBatch(n) PROVE StreamInv'
  BY <1>1, AppendBatchKeeps
<1>2. ASSUME NEW requeued \in BOOLEAN, Finished(requeued) PROVE StreamInv'
  BY <1>2, FinishedKeeps
<1>3. CASE UNCHANGED streamVars
  BY <1>3 DEF streamVars, StreamInv, TypesInv, ViewerInv, WireInv, EarlierInv, RunFrom
<1> QED
  BY <1>1, <1>2, <1>3, AttachKeeps, RefusedKeeps, DropKeeps, RenderPageKeeps, LoadPageKeeps,
     ReceiveKeeps, AskEarlierKeeps, AbsorbEarlierKeeps, Zenon DEF StreamNext

\* Every reachable state of the stream and the page satisfies the invariant,
\* whatever is stored, sent, dropped, replayed and loaded.
THEOREM StreamInvariant == StreamSpec => []StreamInv
BY StreamInvInit, StreamStep, PTL DEF StreamSpec

LEMMA SeqsWithin ==
  ASSUME NEW from \in Nat, NEW to \in Nat, NEW max \in Nat, 1 <= from, from <= to + 1, to <= max
  PROVE  /\ Seqs(from, to) \in Seq(1..max)
         /\ Seqs(from, to) \in Seq(0..max)
<1>1. /\ Seqs(from, to) \in Seq(Nat) /\ Len(Seqs(from, to)) = to - from + 1
      /\ \A i \in 1..(to - from + 1) : Seqs(from, to)[i] = from + i - 1
  BY SeqsIs
<1>2. \A i \in 1..(to - from + 1) : from + i - 1 \in 1..max
  OBVIOUS
<1>3. Seqs(from, to) \in Seq(1..max)
  BY <1>1, <1>2, ElementOfSeq, SeqDef
<1>4. \A i \in 1..(to - from + 1) : from + i - 1 \in 0..max
  BY <1>2
<1>5. Seqs(from, to) \in Seq(0..max)
  BY <1>1, <1>4, ElementOfSeq, SeqDef
<1> QED
  BY <1>3, <1>5

\* The invariant says more of lines and wire than their types.
LEMMA StreamTypes == StreamInv => StreamTypeOK
<1> SUFFICES ASSUME StreamInv PROVE StreamTypeOK
  OBVIOUS
<1> DEFINE last == viewer.lastSeq
<1>1. /\ log \in 0..MaxLines /\ MaxLines \in Nat /\ log \in Nat /\ last \in Nat
      /\ last <= log /\ job \in JobType /\ stream \in WireType
      /\ viewer \in ViewerType /\ earlier \in PageType
  BY StreamAssumption DEF StreamInv, TypesInv, ViewerInv, ViewerType
<1>2. viewer.lines \in Seq(1..MaxLines)
  <2>1. PICK n \in 1..last \cup {1} : viewer.lines = Seqs(n, last)
    BY DEF StreamInv, ViewerInv, RunFrom
  <2>2. n \in Nat /\ 1 <= n /\ n <= last + 1 /\ last <= MaxLines
    BY <1>1
  <2> HIDE DEF last
  <2> QED
    BY <1>1, <2>1, <2>2, SeqsWithin
<1>3. stream.wire \in Seq(0..MaxLines)
  <2> HIDE DEF last
  <2>1. ASSUME NEW m \in last..log PROVE Seqs(last + 1, m) \in Seq(0..MaxLines)
    <3>1. m \in Nat /\ last + 1 \in Nat /\ 1 <= last + 1 /\ last + 1 <= m + 1 /\ m <= MaxLines
      BY <1>1
    <3> QED
      BY <1>1, <3>1, SeqsWithin
  <2>2. CASE ~stream.open
    BY <2>2, EmptySeq DEF StreamInv, WireInv
  <2>3. CASE stream.subscribed
    <3>1. log \in last..log
      BY <1>1
    <3> QED
      BY <2>1, <2>3, <3>1 DEF StreamInv, WireInv, last
  <2>4. CASE stream.open /\ ~stream.subscribed
    <3>1. PICK m \in last..log : stream.wire = Append(Seqs(last + 1, m), End)
      BY <2>4 DEF StreamInv, WireInv, last
    <3>2. End \in 0..MaxLines
      BY <1>1 DEF End
    <3> QED
      BY <2>1, <3>1, <3>2
  <2> QED
    BY <2>2, <2>3, <2>4
<1>4. last \in 0..MaxLines
  BY <1>1
<1> QED
  BY <1>1, <1>2, <1>3, <1>4 DEF StreamTypeOK, JobType, WireType, ViewerType, PageType

\* Type correctness.
THEOREM StreamTypeCorrect == StreamSpec => []StreamTypeOK
BY StreamTypes, StreamInvariant, PTL

\* The line above the log offers earlier lines exactly when the page does not
\* begin at line 1, and never counts less than it shows.
LEMMA InfoFollows == StreamInv => InfoNotShort
<1> SUFFICES ASSUME StreamInv PROVE InfoNotShort
  OBVIOUS
<1> DEFINE last == viewer.lastSeq
<1>1. last \in Nat /\ viewer.total \in Nat /\ last <= viewer.total
  BY DEF StreamInv, TypesInv, ViewerInv, ViewerType
<1>2. PICK n \in 1..last \cup {1} : viewer.lines = Seqs(n, last) /\ (viewer.hasMore <=> n > 1)
  BY DEF StreamInv, ViewerInv, RunFrom
<1>3. CASE n <= last
  <2>1. n \in Nat
    BY <1>1, <1>2
  <2>2. Seqs(n, last) # <<>> /\ Seqs(n, last)[1] = n
    BY <1>1, <1>3, <2>1, SeqsHeadTail
  <2> QED
    BY <1>1, <1>2, <2>1, <2>2 DEF InfoNotShort
<1>4. CASE ~(n <= last)
  <2>1. n = 1 /\ last = 0
    BY <1>1, <1>2, <1>4
  <2>2. viewer.lines = <<>> /\ ~viewer.hasMore
    BY <1>2, <2>1, SeqsEmpty
  <2> QED
    BY <1>1, <2>1, <2>2 DEF InfoNotShort
<1> QED
  BY <1>3, <1>4

\* InfoNotShort in every reachable state.
THEOREM InfoIsNotShort == StreamSpec => []InfoNotShort
BY StreamInvariant, InfoFollows, PTL

-----------------------------------------------------------------------------
(* The viewer implements the window.  (That every line arrives is left to    *)
(* the model checker: it rests on fairness.)                                 *)

LEMMA StreamStepIsWindowStep ==
  ASSUME StreamInv, [StreamNext]_streamVars
  PROVE  [W!WindowNext]_(W!windowVars)
<1> DEFINE following == viewer.phase = "loaded" /\ viewer.active
           last == viewer.lastSeq
<1>1. log \in Nat /\ last \in Nat /\ last <= log /\ viewer \in ViewerType
  BY StreamAssumption DEF StreamInv, TypesInv, ViewerInv, ViewerType
<1>2. \A a, b : W!Lines(a, b) = Seqs(a, b)
  BY DEF W!Lines, Seqs
<1>3. ASSUME NEW n \in 1..MaxBatch, AppendBatch(n) PROVE W!Write
  <2>1. log' = log + n /\ log + n \in (log + 1)..MaxLines /\ UNCHANGED viewer
    BY <1>1, <1>3, StreamAssumption DEF AppendBatch
  <2> QED
    BY <2>1 DEF W!Write
<1>4. ASSUME UNCHANGED <<log, viewer>> PROVE UNCHANGED W!windowVars
  BY <1>4 DEF W!windowVars
<1>5. ASSUME NEW requeued \in BOOLEAN, Finished(requeued) PROVE UNCHANGED W!windowVars
  BY <1>4, <1>5 DEF Finished
<1>6. CASE Attach \/ Drop \/ AskEarlier \/ UNCHANGED streamVars
  BY <1>4, <1>6 DEF Attach, Drop, AskEarlier, streamVars
<1>7. CASE RenderPage
  <2>1. viewer'.lines = <<>> /\ viewer'.phase = "rendered" /\ log' = log
    BY <1>7 DEF RenderPage
  <2> QED
    BY <2>1 DEF W!WindowNext, W!Clear
<1>8. CASE LoadPage
  <2>1. PICK first \in 1..(log + 1) :
          PageBefore(log + 1) = [lines |-> Seqs(first, (log + 1) - 1), hasMore |-> (first > 1),
                                 total |-> log]
    BY <1>1, PageFirst
  <2>2. PageBefore(log + 1).lines = Seqs(first, log) /\ (log + 1) - 1 = log
    BY <1>1, <2>1
  <2>3. viewer'.lines = PageBefore(log + 1).lines /\ log' = log
    BY <1>1 , <1>8 DEF LoadPage, ViewerType
  <2>4. viewer'.lines = W!Lines(first, log) /\ log' = log
    BY <1>2, <2>2, <2>3
  <2> QED
    BY <2>1, <2>4 DEF W!WindowNext, W!Open
<1>9. CASE Receive
  <2>1. CASE Head(stream.wire) = End
    <3>1. viewer' = [viewer EXCEPT !.phase = "ended"] /\ log' = log
      BY <1>9, <2>1 DEF Receive
    <3>2. viewer'.lines = viewer.lines /\ viewer'.phase = "ended"
      BY <1>1, <3>1 DEF ViewerType
    <3> QED
      BY <3>1, <3>2 DEF W!WindowNext, W!Stop
  <2>2. CASE Head(stream.wire) # End
    <3>1. /\ Head(stream.wire) = last + 1 /\ last < log /\ stream.open
      BY <1>9, <2>2, NextEvent DEF Receive
    <3>2. following
      BY <3>1 DEF StreamInv, WireInv
    <3>3. viewer' = [viewer EXCEPT !.lines = Append(viewer.lines, last + 1),
                                   !.lastSeq = last + 1, !.total = viewer.total + 1]
      <4>1. ~(last + 1 <= last)
        BY <1>1
      <4>2. viewer' = WithLine(Head(stream.wire))
        BY <1>9, <2>2 DEF Receive
      <4>3. viewer' = WithLine(last + 1)
        BY <3>1, <4>2, Zenon
      <4> QED
        BY <4>1, <4>3, Zenon DEF WithLine
    <3>4. /\ viewer'.lines = Append(viewer.lines, last + 1) /\ viewer'.phase = viewer.phase
          /\ viewer'.active = viewer.active /\ log' = log
      BY <1>1, <1>9, <3>3 DEF ViewerType, Receive
    <3>5. W!After(viewer.lines) = last + 1
      <4>1. PICK n \in 1..last \cup {1} : viewer.lines = Seqs(n, last)
        BY DEF StreamInv, ViewerInv, RunFrom
      <4>2. CASE n <= last
        <5>1. n \in Nat
          BY <1>1, <4>1
        <5>2. Seqs(n, last) # <<>> /\ Seqs(n, last)[Len(Seqs(n, last))] = last
          BY <1>1, <4>2, <5>1, SeqsHeadTail
        <5> QED
          BY <4>1, <5>2 DEF W!After
      <4>3. CASE ~(n <= last)
        <5>1. n = 1 /\ last = 0
          BY <1>1, <4>1, <4>3
        <5>2. viewer.lines = <<>>
          BY <4>1, <5>1, SeqsEmpty
        <5> QED
          BY <5>1, <5>2 DEF W!After
      <4> QED
        BY <4>2, <4>3
    <3>6. W!Follow
      BY <1>1, <3>1, <3>2, <3>4, <3>5 DEF W!Follow
    <3> QED
      BY <3>6 DEF W!WindowNext
  <2> QED
    BY <2>1, <2>2
<1>10. CASE AbsorbEarlier
  <2>1. CASE UNCHANGED viewer
    BY <1>4, <1>10, <2>1 DEF AbsorbEarlier
  <2>2. CASE viewer' = WithEarlier(earlier)
    <3>1. PICK n \in 2..last, first \in Nat \ {0} :
            /\ RunFrom(n) /\ viewer.lines # <<>> /\ viewer.lines[1] = n /\ first < n
            /\ earlier.lines = Seqs(first, n - 1)
      BY <1>10, EarlierPageFits DEF AbsorbEarlier
    <3>2. first \in 1..(viewer.lines[1] - 1)
      BY <1>1, <3>1
    <3>3. /\ viewer'.lines = earlier.lines \o viewer.lines
          /\ viewer'.phase = viewer.phase /\ viewer'.active = viewer.active
      BY <1>1, <2>2 DEF WithEarlier, ViewerType
    <3>4. viewer'.lines = W!Lines(first, viewer.lines[1] - 1) \o viewer.lines
      BY <1>2, <3>1, <3>3
    <3>5. log' = log
      BY <1>10 DEF AbsorbEarlier
    <3>6. W!Earlier
      BY <3>1, <3>2, <3>3, <3>4, <3>5 DEF W!Earlier
    <3> QED
      BY <3>6 DEF W!WindowNext
  <2> QED
    BY <1>10, <2>1, <2>2 DEF AbsorbEarlier
<1>11. CASE Refused
  <2>1. viewer'.phase = "stalled" /\ viewer'.lines = viewer.lines /\ log' = log
    BY <1>11, RefusedKeeps DEF Refused
  <2> QED
    BY <2>1 DEF W!WindowNext, W!Stop
<1> QED
  BY <1>3, <1>5, <1>6, <1>7, <1>8, <1>9, <1>10, <1>11, Zenon DEF StreamNext, W!WindowNext

\* The lines on the page are at any time a gapless run of the log, each once,
\* that only grows at its ends: whatever overlaps, no line is lost or doubled.
THEOREM ReaderSeesNoGap == StreamSpec => W!WindowInit /\ [][W!WindowNext]_(W!windowVars)
<1>1. StreamInit => W!WindowInit
  BY DEF StreamInit, W!WindowInit
<1>2. StreamInv /\ [StreamNext]_streamVars => [W!WindowNext]_(W!windowVars)
  BY StreamStepIsWindowStep
<1> QED
  BY <1>1, <1>2, StreamInvariant, PTL DEF StreamSpec

-----------------------------------------------------------------------------
(* Open dashboard pages *)

TabRow == [shown : Versions, timer : BOOLEAN, dirty : BOOLEAN, hidden : BOOLEAN,
           ended : BOOLEAN, page : {"none", "asked", "sent"}, sent : Versions,
           dropped : BOOLEAN]

\* A tab that is over does nothing; one that is to catch up has a timer or
\* is hidden, and is not fetching already; a page is newer than what it
\* replaces, and no newer than the data d.
TabInv(row, d) == /\ row.ended => ~row.timer /\ ~row.dirty /\ row.page = "none"
                  /\ row.dirty => row.page = "none" /\ (row.timer \/ row.hidden)
                  /\ row.page = "sent" => row.sent >= row.shown
                  /\ row.sent <= d /\ row.shown <= d

\* What the server last compared, version f, is shown in the tab, or on its
\* way to it: a timer runs, the page is asked for, one that is new enough is
\* on its way, or the tab catches up when it is looked at.  (Unless it was
\* closed, its stream was opened later, or the timer fired during a fetch.)
Due(row, f, b) ==
  \/ row.shown >= f
  \/ row.timer
  \/ row.page = "asked"
  \/ row.page = "sent" /\ row.sent >= f
  \/ row.dirty /\ row.hidden
  \/ row.ended \/ b >= f \/ row.dropped

NoChangeForgotten == connected => \A t \in Tab : Due(tabs[t], fingerprint, base)

LiveStreamInv ==
  /\ connected => /\ fingerprint \in Versions /\ fingerprint <= data
                  /\ connectedBefore /\ holder # Nobody

\* The inductive invariant.
LiveInv == /\ LiveTypeOK /\ LiveStreamInv
           /\ \A t \in Tab : TabInv(tabs[t], data)
           /\ NoChangeForgotten

LEMMA LiveConstants ==
  /\ MaxData \in Nat /\ Versions = 0..MaxData /\ Versions \subseteq Nat /\ 0 \in Versions
  /\ Tab \subseteq Nat /\ Nobody \notin Tab
BY LiveAssumption DEF Versions

LEMMA LiveTypes ==
  ASSUME LiveInv
  PROVE  /\ data \in Versions /\ base \in Versions /\ tabs \in [Tab -> TabRow]
         /\ fingerprint \in Versions \cup {Nobody} /\ holder \in Tab \cup {Nobody}
         /\ connected \in BOOLEAN /\ connectedBefore \in BOOLEAN
BY DEF LiveInv, LiveTypeOK, TabRow

LEMMA LiveInvInit == LiveInit => LiveInv
<1> SUFFICES ASSUME LiveInit PROVE LiveInv
  OBVIOUS
<1>1. tabs \in [Tab -> TabRow] /\ \A t \in Tab : TabInv(tabs[t], data)
  BY LiveConstants DEF LiveInit, TabRow, TabInv
<1>2. LiveTypeOK
  BY <1>1, LiveConstants DEF LiveInit, LiveTypeOK, TabRow
<1> QED
  BY <1>1, <1>2 DEF LiveInit, LiveInv, LiveStreamInv, NoChangeForgotten

-----------------------------------------------------------------------------

\* A step of one tab.
LEMMA TabStepKeeps ==
  ASSUME LiveInv, NEW t \in Tab, NEW row \in TabRow, TabStep(t, row), TabInv(row, data),
         connected => Due(row, fingerprint, base)
  PROVE  LiveInv'
<1>1. /\ tabs' = [tabs EXCEPT ![t] = row]
      /\ UNCHANGED <<data, fingerprint, holder, connected, connectedBefore, base>>
  BY DEF TabStep
<1>2. tabs' \in [Tab -> TabRow]
  BY <1>1, LiveTypes
<1>3. \A u \in Tab : tabs'[u] = IF u = t THEN row ELSE tabs[u]
  BY <1>1, LiveTypes
<1>4. LiveTypeOK'
  BY <1>1, <1>2 DEF LiveInv, LiveTypeOK, TabRow
<1>5. \A u \in Tab : TabInv(tabs'[u], data')
  <2>1. data' = data
    BY <1>1
  <2>2. \A u \in Tab : TabInv(tabs'[u], data)
    BY <1>3 DEF LiveInv
  <2> QED
    BY <2>1, <2>2
<1>6. NoChangeForgotten'
  BY <1>1, <1>3 DEF LiveInv, NoChangeForgotten
<1>7. LiveStreamInv'
  BY <1>1 DEF LiveInv, LiveStreamInv
<1> QED
  BY <1>4, <1>5, <1>6, <1>7 DEF LiveInv

\* What is known of a tab before its step.
LEMMA TabIs ==
  ASSUME LiveInv, NEW t \in Tab
  PROVE  /\ tabs[t] \in TabRow /\ TabInv(tabs[t], data)
         /\ connected => Due(tabs[t], fingerprint, base)
BY LiveTypes DEF LiveInv, NoChangeForgotten

LEMMA RefreshKeeps == ASSUME LiveInv, NEW t \in Tab, Refresh(t) PROVE LiveInv'
<1>1. tabs[t] \in TabRow /\ TabInv(tabs[t], data) /\ tabs[t].timer
  BY TabIs DEF Refresh
<1>2. CASE Fetching(t)
  <2> DEFINE row == [tabs[t] EXCEPT !.timer = FALSE, !.dropped = TRUE]
  <2>1. TabStep(t, row)
    BY <1>2 DEF Refresh
  <2>2. row \in TabRow /\ TabInv(row, data) /\ Due(row, fingerprint, base)
    BY <1>1, <1>2 DEF TabRow, TabInv, Due, Fetching
  <2> QED
    BY <2>1, <2>2, TabStepKeeps
<1>3. CASE ~Fetching(t) /\ tabs[t].hidden
  <2> DEFINE row == [tabs[t] EXCEPT !.timer = FALSE, !.dirty = TRUE]
  <2>1. TabStep(t, row)
    BY <1>3 DEF Refresh
  <2>2. row \in TabRow /\ TabInv(row, data) /\ Due(row, fingerprint, base)
    BY <1>1, <1>3 DEF TabRow, TabInv, Due, Fetching
  <2> QED
    BY <2>1, <2>2, TabStepKeeps
<1>4. CASE ~Fetching(t) /\ ~tabs[t].hidden
  <2> DEFINE row == [tabs[t] EXCEPT !.timer = FALSE, !.dirty = FALSE, !.page = "asked",
                                    !.dropped = FALSE]
  <2>1. TabStep(t, row)
    BY <1>4 DEF Refresh
  <2>2. row \in TabRow /\ TabInv(row, data) /\ Due(row, fingerprint, base)
    BY <1>1, <1>4 DEF TabRow, TabInv, Due, Fetching
  <2> QED
    BY <2>1, <2>2, TabStepKeeps
<1> QED
  BY <1>2, <1>3, <1>4

LEMMA RefreshBlockedKeeps == ASSUME LiveInv, NEW t \in Tab, RefreshBlocked(t) PROVE LiveInv'
<1> DEFINE row == [tabs[t] EXCEPT !.dirty = TRUE]
<1>1. tabs[t] \in TabRow /\ TabInv(tabs[t], data) /\ tabs[t].timer /\ ~Fetching(t) /\ TabStep(t, row)
  BY TabIs DEF RefreshBlocked
<1>2. row \in TabRow /\ TabInv(row, data) /\ Due(row, fingerprint, base)
  BY <1>1 DEF TabRow, TabInv, Due, Fetching
<1> QED
  BY <1>1, <1>2, TabStepKeeps

\* A page shows the data of when it is rendered, which is what was compared
\* or newer.
LEMMA RenderKeeps == ASSUME LiveInv, NEW t \in Tab, Render(t) PROVE LiveInv'
<1> DEFINE row == [tabs[t] EXCEPT !.page = "sent", !.sent = data]
<1>1. tabs[t] \in TabRow /\ TabInv(tabs[t], data) /\ tabs[t].page = "asked" /\ TabStep(t, row)
  BY TabIs DEF Render
<1>2. data \in Versions /\ (connected => fingerprint <= data /\ fingerprint \in Versions)
  BY LiveTypes DEF LiveInv, LiveStreamInv
<1>3. row \in TabRow /\ TabInv(row, data) /\ row.page = "sent" /\ row.sent = data
  <2>1. row \in TabRow /\ row.page = "sent" /\ row.sent = data
        /\ row.shown = tabs[t].shown /\ row.ended = tabs[t].ended /\ row.dirty = tabs[t].dirty
    BY <1>1, <1>2 DEF TabRow
  <2>2. ~tabs[t].ended /\ ~tabs[t].dirty /\ tabs[t].shown <= data /\ data <= data
    BY <1>1, <1>2, LiveConstants DEF TabInv
  <2> HIDE DEF row
  <2> QED
    BY <2>1, <2>2 DEF TabInv
<1> HIDE DEF row
<1>4. connected => Due(row, fingerprint, base)
  BY <1>2, <1>3, LiveConstants DEF Due
<1> QED
  BY <1>1, <1>3, <1>4, TabStepKeeps

LEMMA ApplyKeeps == ASSUME LiveInv, NEW t \in Tab, Apply(t) PROVE LiveInv'
<1>1. /\ tabs[t] \in TabRow /\ TabInv(tabs[t], data) /\ tabs[t].page = "sent"
      /\ connected => Due(tabs[t], fingerprint, base)
  BY TabIs DEF Apply
<1> DEFINE row == [tabs[t] EXCEPT !.page = "none", !.shown = tabs[t].sent]
<1>2. TabStep(t, row)
  BY DEF Apply, Applied
<1>3. tabs[t].sent \in Versions
  BY <1>1 DEF TabRow
<1>4. row \in TabRow /\ TabInv(row, data)
  BY <1>1, <1>3 DEF TabRow, TabInv
<1>5. connected => Due(row, fingerprint, base)
  <2>1. /\ row.shown = tabs[t].sent /\ row.timer = tabs[t].timer /\ row.dirty = tabs[t].dirty
        /\ row.hidden = tabs[t].hidden /\ row.ended = tabs[t].ended
        /\ row.dropped = tabs[t].dropped
    BY <1>1 DEF TabRow
  <2>2. ~tabs[t].dirty
    BY <1>1 DEF TabInv
  <2> HIDE DEF row
  <2>3. connected /\ tabs[t].shown >= fingerprint => tabs[t].sent >= fingerprint
    <3>1. connected => fingerprint \in Nat
      BY LiveConstants DEF LiveInv, LiveStreamInv
    <3>2. tabs[t].shown \in Nat /\ tabs[t].sent \in Nat /\ tabs[t].sent >= tabs[t].shown
      BY <1>1, <1>3, LiveConstants DEF TabRow, TabInv
    <3> QED
      BY <3>1, <3>2
  <2>4. tabs[t].sent >= fingerprint \/ tabs[t].timer
        \/ tabs[t].ended \/ base >= fingerprint \/ tabs[t].dropped \/ ~connected
    BY <1>1, <2>2, <2>3 DEF Due
  <2> QED
    BY <2>1, <2>4 DEF Due
<1> QED
  BY <1>2, <1>4, <1>5, TabStepKeeps

LEMMA FetchFailsKeeps == ASSUME LiveInv, NEW t \in Tab, FetchFails(t) PROVE LiveInv'
<1> DEFINE row == [tabs[t] EXCEPT !.page = "none", !.dirty = TRUE, !.timer = TRUE]
<1>1. tabs[t] \in TabRow /\ TabInv(tabs[t], data) /\ tabs[t].page = "sent" /\ TabStep(t, row)
  BY TabIs DEF FetchFails
<1>2. row \in TabRow /\ TabInv(row, data) /\ Due(row, fingerprint, base)
  BY <1>1 DEF TabRow, TabInv, Due
<1> QED
  BY <1>1, <1>2, TabStepKeeps

LEMMA HideKeeps == ASSUME LiveInv, NEW t \in Tab, Hide(t) PROVE LiveInv'
<1> DEFINE row == [tabs[t] EXCEPT !.hidden = TRUE]
<1>1. /\ tabs[t] \in TabRow /\ TabInv(tabs[t], data) /\ TabStep(t, row)
      /\ connected => Due(tabs[t], fingerprint, base)
  BY TabIs DEF Hide
<1>2. row \in TabRow /\ TabInv(row, data)
  BY <1>1 DEF TabRow, TabInv
<1>3. connected => Due(row, fingerprint, base)
  BY <1>1 DEF TabRow, Due
<1> QED
  BY <1>1, <1>2, <1>3, TabStepKeeps

LEMMA ShowKeeps == ASSUME LiveInv, NEW t \in Tab, Show(t) PROVE LiveInv'
<1> DEFINE row == [tabs[t] EXCEPT !.hidden = FALSE, !.timer = @ \/ tabs[t].dirty]
<1>1. /\ tabs[t] \in TabRow /\ TabInv(tabs[t], data) /\ ~tabs[t].ended /\ TabStep(t, row)
      /\ connected => Due(tabs[t], fingerprint, base)
  BY TabIs DEF Show
<1>2. row \in TabRow /\ TabInv(row, data)
  BY <1>1 DEF TabRow, TabInv
<1>3. connected => Due(row, fingerprint, base)
  BY <1>1 DEF TabRow, Due
<1> QED
  BY <1>1, <1>2, <1>3, TabStepKeeps

-----------------------------------------------------------------------------

\* When everything is scheduled, nothing is forgotten.
LEMMA ScheduledIs ==
  ASSUME LiveInv
  PROVE  /\ Scheduled \in [Tab -> TabRow]
         /\ \A t \in Tab : /\ TabInv(Scheduled[t], data)
                           /\ \A f, b : Due(Scheduled[t], f, b)
<1>1. ASSUME NEW t \in Tab
      PROVE  /\ Scheduled[t] \in TabRow /\ TabInv(Scheduled[t], data)
             /\ Scheduled[t].timer \/ Scheduled[t].ended
  <2>1. Scheduled[t] = [tabs[t] EXCEPT !.timer = ~tabs[t].ended]
    BY DEF Scheduled
  <2> QED
    BY <2>1, TabIs DEF TabRow, TabInv
<1>2. Scheduled = [t \in Tab |-> Scheduled[t]]
  BY DEF Scheduled
<1> QED
  BY <1>1, <1>2 DEF Due

LEMMA EndedIs ==
  ASSUME NEW row \in TabRow, NEW d, TabInv(row, d)
  PROVE  /\ Ended(row) \in TabRow /\ TabInv(Ended(row), d)
         /\ \A f, b : Due(Ended(row), f, b)
BY DEF Ended, TabRow, TabInv, Due

\* A step of the server or the stream: it owes the tabs what it compared.
LEMMA StreamStepKeeps ==
  ASSUME LiveInv, tabs' \in [Tab -> TabRow], \A t \in Tab : TabInv(tabs'[t], data'),
         data' \in Versions, base' \in Versions,
         fingerprint' \in Versions \cup {Nobody}, holder' \in Tab \cup {Nobody},
         connected' \in BOOLEAN, connectedBefore' \in BOOLEAN, LiveStreamInv',
         connected' => \A t \in Tab : Due(tabs'[t], fingerprint', base')
  PROVE  LiveInv'
BY DEF LiveInv, LiveTypeOK, NoChangeForgotten, TabRow

LEMMA ChangeKeeps == ASSUME LiveInv, Change PROVE LiveInv'
<1>1. UNCHANGED <<fingerprint, holder, connected, connectedBefore, tabs, base>>
  BY DEF Change
<1>2. data \in Nat /\ data' \in Versions /\ data' = data + 1
  BY LiveTypes, LiveConstants DEF Change
<1>3. LiveStreamInv'
  BY <1>1, <1>2, LiveConstants DEF LiveInv, LiveStreamInv
<1>4. ASSUME NEW t \in Tab PROVE TabInv(tabs'[t], data')
  <2>1. tabs[t].shown \in Nat /\ tabs[t].sent \in Nat /\ TabInv(tabs[t], data)
    BY TabIs, LiveConstants DEF TabRow
  <2>2. TabInv(tabs[t], data + 1)
    BY <1>2, <2>1 DEF TabInv
  <2> QED
    BY <1>1, <1>2, <2>2
<1> QED
  BY <1>1, <1>2, <1>3, <1>4, LiveTypes, StreamStepKeeps DEF LiveInv, NoChangeForgotten

LEMMA CheckKeeps == ASSUME LiveInv, Check PROVE LiveInv'
<1>1. /\ UNCHANGED <<data, holder, connected, connectedBefore, base>> /\ connected
      /\ fingerprint' = data
      /\ tabs' = IF data # fingerprint THEN Scheduled ELSE tabs
  BY DEF Check
<1>2. LiveStreamInv'
  BY <1>1, LiveTypes, LiveConstants DEF LiveInv, LiveStreamInv
<1>3. /\ tabs' \in [Tab -> TabRow]
      /\ \A t \in Tab : TabInv(tabs'[t], data') /\ Due(tabs'[t], fingerprint', base')
  <2>1. CASE data # fingerprint
    BY <1>1, <2>1, ScheduledIs
  <2>2. CASE data = fingerprint
    BY <1>1, <2>2, LiveTypes DEF LiveInv, NoChangeForgotten
  <2> QED
    BY <2>1, <2>2
<1> QED
  BY <1>1, <1>2, <1>3, LiveTypes, StreamStepKeeps

LEMMA TakeOverKeeps == ASSUME LiveInv, NEW t \in Tab, TakeOver(t) PROVE LiveInv'
<1>1. /\ UNCHANGED <<data, fingerprint, connected, tabs, base>> /\ ~connected
      /\ holder' = t /\ connectedBefore' = FALSE
  BY DEF TakeOver, LiveInv, LiveStreamInv
<1>2. LiveStreamInv'
  BY <1>1 DEF LiveStreamInv
<1> QED
  BY <1>1, <1>2, LiveTypes, StreamStepKeeps DEF LiveInv

\* A stream that comes back makes every tab catch up; the first one of its
\* holder starts from the data of now.
LEMMA ConnectKeeps == ASSUME LiveInv, Connect PROVE LiveInv'
<1>1. /\ UNCHANGED <<data, holder>> /\ holder # Nobody
      /\ connected' = TRUE /\ connectedBefore' = TRUE /\ fingerprint' = data
      /\ base' = IF connectedBefore THEN base ELSE data
      /\ tabs' = IF connectedBefore THEN Scheduled ELSE tabs
  BY DEF Connect
<1>2. data \in Versions /\ data \in Nat
  BY LiveTypes, LiveConstants
<1>3. LiveStreamInv'
  BY <1>1, <1>2 DEF LiveStreamInv
<1>4. /\ tabs' \in [Tab -> TabRow]
      /\ \A t \in Tab : TabInv(tabs'[t], data') /\ Due(tabs'[t], fingerprint', base')
  <2>1. CASE connectedBefore
    BY <1>1, <2>1, ScheduledIs
  <2>2. CASE ~connectedBefore
    BY <1>1, <1>2, <2>2, LiveTypes DEF LiveInv, Due
  <2> QED
    BY <2>1, <2>2
<1> QED
  BY <1>1, <1>2, <1>3, <1>4, LiveTypes, StreamStepKeeps

LEMMA DisconnectKeeps == ASSUME LiveInv, Disconnect PROVE LiveInv'
<1>1. /\ UNCHANGED <<data, holder, connectedBefore, tabs, base>>
      /\ connected' = FALSE /\ fingerprint' = Nobody
  BY DEF Disconnect
<1> QED
  BY <1>1, LiveTypes, StreamStepKeeps DEF LiveInv, LiveStreamInv

LEMMA SessionEndedKeeps == ASSUME LiveInv, SessionEnded PROVE LiveInv'
<1>1. /\ UNCHANGED <<data, connectedBefore, base>>
      /\ connected' = FALSE /\ fingerprint' = Nobody /\ holder' = Nobody
      /\ tabs' = [t \in Tab |-> Ended(tabs[t])]
  BY DEF SessionEnded
<1>2. tabs' \in [Tab -> TabRow] /\ \A t \in Tab : TabInv(tabs'[t], data')
  <2>1. data' = data
    BY <1>1
  <2>2. \A t \in Tab : Ended(tabs[t]) \in TabRow /\ TabInv(Ended(tabs[t]), data)
    BY TabIs, EndedIs
  <2> QED
    BY <1>1, <2>1, <2>2
<1> QED
  BY <1>1, <1>2, LiveTypes, StreamStepKeeps DEF LiveStreamInv

LEMMA CloseTabKeeps == ASSUME LiveInv, NEW t \in Tab, CloseTab(t) PROVE LiveInv'
<1>1. UNCHANGED <<data, connectedBefore, base>> /\ tabs' = [tabs EXCEPT ![t] = Ended(tabs[t])]
  BY DEF CloseTab
<1>2. /\ tabs' \in [Tab -> TabRow] /\ \A u \in Tab : TabInv(tabs'[u], data')
      /\ connected => \A u \in Tab : Due(tabs'[u], fingerprint, base)
  <2>1. /\ tabs[t] \in TabRow /\ Ended(tabs[t]) \in TabRow /\ TabInv(Ended(tabs[t]), data)
        /\ Due(Ended(tabs[t]), fingerprint, base)
    BY TabIs, EndedIs
  <2>2. \A u \in Tab : tabs'[u] = IF u = t THEN Ended(tabs[t]) ELSE tabs[u]
    BY <1>1, LiveTypes
  <2> QED
    BY <1>1, <2>1, <2>2, TabIs, LiveTypes
<1>3. CASE holder = t
  <2>1. holder' = Nobody /\ connected' = FALSE /\ fingerprint' = Nobody
    BY <1>3 DEF CloseTab
  <2> QED
    BY <1>1, <1>2, <2>1, LiveTypes, StreamStepKeeps DEF LiveStreamInv
<1>4. CASE holder # t
  <2>1. UNCHANGED <<holder, connected, fingerprint>>
    BY <1>4 DEF CloseTab
  <2> QED
    BY <1>1, <1>2, <2>1, LiveTypes, StreamStepKeeps DEF LiveInv, LiveStreamInv
<1> QED
  BY <1>3, <1>4

-----------------------------------------------------------------------------

LEMMA LiveStep == ASSUME LiveInv, [LiveNext]_liveVars PROVE LiveInv'
<1>1. CASE UNCHANGED liveVars
  BY <1>1, LiveTypes, StreamStepKeeps DEF liveVars, LiveInv, LiveStreamInv, NoChangeForgotten
<1>2. CASE LiveNext
  BY <1>2, ChangeKeeps, CheckKeeps, ConnectKeeps, DisconnectKeeps, SessionEndedKeeps,
     TakeOverKeeps, CloseTabKeeps, RefreshKeeps, RefreshBlockedKeeps, RenderKeeps,
     ApplyKeeps, FetchFailsKeeps, HideKeeps, ShowKeeps DEF LiveNext
<1> QED
  BY <1>1, <1>2

\* LiveInv holds in every reachable state.
THEOREM LiveInvariant == LiveSpec => []LiveInv
BY LiveInvInit, LiveStep, PTL DEF LiveSpec

\* Type correctness.
THEOREM LiveTypeCorrect == LiveSpec => []LiveTypeOK
<1>1. LiveInv => LiveTypeOK
  BY DEF LiveInv
<1> QED
  BY <1>1, LiveInvariant, PTL

\* The safety half of ChangeIsShown: what the server has announced is on
\* every page, or something is still under way that brings it there, however
\* streams drop, fetches fail and tabs are hidden.
THEOREM NothingIsForgotten == LiveSpec => []NoChangeForgotten
<1>1. LiveInv => NoChangeForgotten
  BY DEF LiveInv
<1> QED
  BY <1>1, LiveInvariant, PTL

-----------------------------------------------------------------------------
(* The update of the Coordinator *)

ProcessState == [version : Release,
                 latest  : Release \cup {0},
                 pending : Release \cup {0},
                 error   : BOOLEAN,
                 waited  : 0..(PickupTimeout + 1)]
StatusState == [state   : {"none", "installing", "restarting", "failed"},
                version : Release \cup {0},
                age     : 0..(InstallTimeout + 1)]

\* What is on disk is what runs, or newer; the helper installs what is newer.
VersionInv == /\ installed >= process.version
              /\ helper # 0 => helper > installed

\* The inductive invariant.
UpdateInv == UpdateTypeOK /\ VersionInv

LEMMA UpdateConstants ==
  /\ Release \subseteq Nat \ {0} /\ Release \cup {0} \subseteq Nat
  /\ PickupTimeout \in Nat /\ InstallTimeout \in Nat
BY UpdateAssumption

LEMMA UpdateTypes ==
  ASSUME UpdateInv
  PROVE  /\ process \in ProcessState /\ statusFile \in StatusState
         /\ installed \in Release
         /\ requestFile \in Release \cup {0} /\ helper \in Release \cup {0}
         /\ watching \in Release \cup {0}
         /\ installed >= process.version /\ (helper # 0 => helper > installed)
BY DEF UpdateInv, UpdateTypeOK, VersionInv, ProcessState, StatusState

LEMMA UpdateInvNext ==
  ASSUME process' \in ProcessState, statusFile' \in StatusState, installed' \in Release,
         requestFile' \in Release \cup {0}, helper' \in Release \cup {0},
         watching' \in Release \cup {0},
         installed' >= process'.version, helper' # 0 => helper' > installed'
  PROVE  UpdateInv'
BY DEF UpdateInv, UpdateTypeOK, VersionInv, ProcessState, StatusState

LEMMA StatusTypes ==
  /\ NoStatus \in StatusState /\ NoStatus.state = "none"
  /\ \A state \in {"installing", "restarting", "failed"}, v \in Release \cup {0} :
       /\ Status(state, v) \in StatusState
       /\ Status(state, v).state = state /\ Status(state, v).age = 0
BY UpdateConstants DEF StatusState, NoStatus, Status

\* A process that starts runs what it was started with and waits for nothing.
LEMMA StartedIs ==
  ASSUME NEW v \in Release, NEW status \in StatusState, Started(v, status)
  PROVE  /\ process' \in ProcessState /\ process'.version = v /\ process'.pending = 0
         /\ statusFile' \in StatusState
<1>1. 0 \in 0..(PickupTimeout + 1)
  BY UpdateConstants
<1>2. process' \in ProcessState /\ process'.version = v /\ process'.pending = 0
  BY <1>1 DEF Started, ProcessState
<1>3. statusFile' \in StatusState
  BY StatusTypes DEF Started, Settled
<1> QED
  BY <1>2, <1>3

LEMMA RefreshPendingIs ==
  ASSUME NEW row \in ProcessState
  PROVE  /\ RefreshPending(row) \in ProcessState
         /\ RefreshPending(row).version = row.version
         /\ RefreshPending(row).latest = row.latest
         /\ RefreshPending(row).pending \in {0, row.pending}
<1>1. 0 \in 0..(PickupTimeout + 1)
  BY UpdateConstants
<1>2. Failed(row) \in ProcessState /\ Failed(row).version = row.version
      /\ Failed(row).latest = row.latest /\ Failed(row).pending = 0
  BY <1>1 DEF Failed, ProcessState
<1> QED
  BY <1>2 DEF RefreshPending

LEMMA UpdateInvInit == UpdateInit => UpdateInv
<1> SUFFICES ASSUME UpdateInit PROVE UpdateInv
  OBVIOUS
<1>1. 0 \in 0..(PickupTimeout + 1) /\ installed \in Release /\ installed \in Nat
  BY UpdateConstants DEF UpdateInit
<1>2. process \in ProcessState /\ process.version = installed
  BY <1>1 DEF UpdateInit, ProcessState
<1> QED
  BY <1>1, <1>2, StatusTypes
     DEF UpdateInit, UpdateInv, UpdateTypeOK, VersionInv, ProcessState, StatusState

LEMMA CheckNowKeeps == ASSUME UpdateInv, CheckNow PROVE UpdateInv'
<1>1. PICK v \in Release : process' = [process EXCEPT !.latest = v]
  BY DEF CheckNow
<1>2. process' \in ProcessState /\ process'.version = process.version
  BY <1>1, UpdateTypes DEF ProcessState
<1> QED
  BY <1>2, UpdateTypes, UpdateInvNext DEF CheckNow

LEMMA UpdateRequestKeeps ==
  ASSUME UpdateInv, RequestUpdateOfCoordinator
  PROVE  UpdateInv'
<1> DEFINE now == RefreshPending(process)
<1>1. now \in ProcessState /\ now.version = process.version
  BY UpdateTypes, RefreshPendingIs
<1>2. /\ process' = [now EXCEPT !.pending = now.latest, !.waited = 0, !.error = FALSE]
      /\ statusFile' = NoStatus /\ requestFile' = now.latest /\ watching' = now.version
      /\ UNCHANGED <<installed, helper>>
  BY DEF RequestUpdateOfCoordinator
<1> HIDE DEF now
<1>3. 0 \in 0..(PickupTimeout + 1)
  BY UpdateConstants
<1>4. process' \in ProcessState /\ process'.version = process.version
      /\ requestFile' \in Release \cup {0} /\ watching' \in Release \cup {0}
  BY <1>1, <1>2, <1>3 DEF ProcessState
<1> QED
  BY <1>2, <1>4, UpdateTypes, StatusTypes, UpdateInvNext

LEMMA PollKeeps == ASSUME UpdateInv, PollStatus PROVE UpdateInv'
<1>1. process' \in ProcessState /\ process'.version = process.version
  BY UpdateTypes, RefreshPendingIs DEF PollStatus
<1>2. watching' \in Release \cup {0}
  BY UpdateTypes DEF PollStatus
<1> QED
  BY <1>1, <1>2, UpdateTypes, UpdateInvNext DEF PollStatus

LEMMA StartsKeeps == ASSUME UpdateInv, CoordinatorStarts PROVE UpdateInv'
<1>1. /\ process' \in ProcessState /\ process'.version = installed
      /\ statusFile' \in StatusState
  BY UpdateTypes, StartedIs DEF CoordinatorStarts
<1>2. installed \in Nat
  BY UpdateTypes, UpdateConstants
<1> QED
  BY <1>1, <1>2, UpdateTypes, UpdateInvNext DEF CoordinatorStarts

\* The helper takes up what is newer than the package on disk.
LEMMA PickUpKeeps == ASSUME UpdateInv, PickUp PROVE UpdateInv'
<1>1. /\ requestFile \in Release /\ requestFile # 0 /\ helper = 0 /\ requestFile' = 0
      /\ UNCHANGED <<installed, watching>>
  BY UpdateTypes DEF PickUp
<1>2. installed \in Nat /\ requestFile \in Nat
  BY <1>1, UpdateTypes, UpdateConstants
<1>3. CASE installed >= requestFile /\ Started(installed, Status("restarting", requestFile))
  <2>1. helper' = 0
    BY <1>1, <1>3 DEF PickUp
  <2>2. Status("restarting", requestFile) \in StatusState
    BY <1>1, StatusTypes
  <2>3. /\ process' \in ProcessState /\ process'.version = installed
        /\ statusFile' \in StatusState
    BY <1>3, <2>2, UpdateTypes, StartedIs
  <2> QED
    BY <1>1, <1>2, <2>1, <2>3, UpdateTypes, UpdateInvNext
<1>4. CASE /\ installed >= requestFile
           /\ statusFile' = Status("failed", requestFile) /\ UNCHANGED process
  <2>1. helper' = 0
    BY <1>1, <1>4 DEF PickUp
  <2> QED
    BY <1>1, <1>4, <2>1, UpdateTypes, StatusTypes, UpdateInvNext
<1>5. CASE ~(installed >= requestFile)
  <2>1. /\ helper' = requestFile /\ UNCHANGED process
        /\ statusFile' = Status("installing", requestFile)
    BY <1>5 DEF PickUp
  <2> QED
    BY <1>1, <1>2, <1>5, <2>1, UpdateTypes, StatusTypes, UpdateInvNext
<1> QED
  BY <1>3, <1>4, <1>5 DEF PickUp

LEMMA InstalledKeeps ==
  ASSUME UpdateInv, Installed
  PROVE  UpdateInv' /\ installed' > installed
<1>1. /\ helper # 0 /\ helper \in Release /\ installed' = helper /\ helper' = 0
      /\ UNCHANGED <<requestFile, watching>>
  BY UpdateTypes DEF Installed
<1>2. helper > installed /\ helper \in Nat /\ installed \in Nat /\ process.version \in Nat
      /\ installed >= process.version
  BY <1>1, UpdateTypes, UpdateConstants DEF ProcessState
<1>3. CASE Started(helper, statusFile)
  <2>1. /\ process' \in ProcessState /\ process'.version = helper
        /\ statusFile' \in StatusState
    BY <1>1, <1>3, UpdateTypes, StartedIs
  <2> QED
    BY <1>1, <1>2, <2>1, UpdateTypes, UpdateInvNext
<1>4. CASE UNCHANGED <<process, statusFile>>
  BY <1>1, <1>2, <1>4, UpdateTypes, UpdateInvNext
<1> QED
  BY <1>3, <1>4 DEF Installed

LEMMA HelperEndsKeeps ==
  ASSUME UpdateInv, InstallFails \/ HelperKilled
  PROVE  UpdateInv'
<1>1. /\ helper \in Release /\ helper' = 0
      /\ UNCHANGED <<process, installed, requestFile, watching>>
  BY UpdateTypes DEF InstallFails, HelperKilled
<1>2. statusFile' \in StatusState
  BY <1>1, UpdateTypes, StatusTypes DEF InstallFails, HelperKilled
<1> QED
  BY <1>1, <1>2, UpdateTypes, UpdateInvNext

LEMMA ElapseIs ==
  ASSUME UpdateInv, Elapse
  PROVE  /\ process' \in ProcessState /\ statusFile' \in StatusState
         /\ process'.version = process.version /\ process'.pending = process.pending
         /\ process'.waited = IF process.pending # 0 /\ process.waited <= PickupTimeout
                              THEN process.waited + 1 ELSE process.waited
         /\ statusFile'.state = statusFile.state
         /\ statusFile'.age = IF statusFile.state # "none" /\ statusFile.age <= InstallTimeout
                              THEN statusFile.age + 1 ELSE statusFile.age
<1> DEFINE waited == IF process.pending # 0 /\ process.waited <= PickupTimeout
                     THEN process.waited + 1 ELSE process.waited
           age    == IF statusFile.state # "none" /\ statusFile.age <= InstallTimeout
                     THEN statusFile.age + 1 ELSE statusFile.age
<1>1. /\ process' = [process EXCEPT !.waited = waited]
      /\ statusFile' = [statusFile EXCEPT !.age = age]
  BY DEF Elapse
<1>2. /\ process.waited \in 0..(PickupTimeout + 1) /\ statusFile.age \in 0..(InstallTimeout + 1)
      /\ process \in ProcessState /\ statusFile \in StatusState
  BY UpdateTypes DEF ProcessState, StatusState
<1>3. waited \in 0..(PickupTimeout + 1) /\ age \in 0..(InstallTimeout + 1)
  BY <1>2, UpdateConstants
<1> HIDE DEF waited, age
<1>4. /\ process' \in ProcessState /\ statusFile' \in StatusState
      /\ process'.version = process.version /\ process'.pending = process.pending
      /\ process'.waited = waited
      /\ statusFile'.state = statusFile.state /\ statusFile'.age = age
  BY <1>1, <1>2, <1>3 DEF ProcessState, StatusState
<1> QED
  BY <1>4 DEF waited, age

LEMMA ElapseKeeps == ASSUME UpdateInv, Elapse PROVE UpdateInv'
BY ElapseIs, UpdateTypes, UpdateInvNext DEF Elapse

LEMMA UpdateStep == ASSUME UpdateInv, [UpdateNext]_updateVars PROVE UpdateInv'
<1>1. CASE UNCHANGED updateVars
  BY <1>1, UpdateTypes, UpdateInvNext DEF updateVars
<1>2. CASE UpdateNext
  BY <1>2, CheckNowKeeps, UpdateRequestKeeps, PollKeeps, StartsKeeps, PickUpKeeps, InstalledKeeps,
     HelperEndsKeeps, ElapseKeeps DEF UpdateNext
<1> QED
  BY <1>1, <1>2

\* UpdateInv holds in every reachable state.
THEOREM UpdateInvariant == UpdateSpec => []UpdateInv
BY UpdateInvInit, UpdateStep, PTL DEF UpdateSpec

\* Type correctness.
THEOREM UpdateTypeCorrect == UpdateSpec => []UpdateTypeOK
<1>1. UpdateInv => UpdateTypeOK
  BY DEF UpdateInv
<1> QED
  BY <1>1, UpdateInvariant, PTL

\* The Coordinator never installs, and never starts, an older version than
\* the one it runs, whatever request files are left behind and whichever
\* restart fails.
THEOREM CoordinatorNeverGoesBack ==
  UpdateSpec => [][installed' >= installed /\ process'.version >= process.version]_updateVars
<1>1. ASSUME UpdateInv, UpdateNext
      PROVE  installed' >= installed /\ process'.version >= process.version
  <2>1. /\ installed \in Nat /\ process.version \in Nat /\ installed >= process.version
        /\ process \in ProcessState
    BY <1>1, UpdateTypes, UpdateConstants DEF ProcessState
  <2>2. CASE Installed
    <3>1. UpdateInv' /\ installed' > installed
      BY <1>1, <2>2, InstalledKeeps
    <3>2. /\ installed' \in Nat /\ process'.version \in Nat
          /\ process'.version \in {process.version, installed'}
      <4>1. process'.version \in Release /\ installed' \in Release
        BY <3>1 DEF UpdateInv, UpdateTypeOK
      <4>2. process'.version \in {process.version, installed'}
        BY <2>2 DEF Started, Installed
      <4> QED
        BY <4>1, <4>2, UpdateConstants
    <3> QED
      BY <2>1, <3>1, <3>2
  <2>3. CASE CoordinatorStarts \/ PickUp
    <3>1. installed' = installed
      BY <2>3 DEF CoordinatorStarts, PickUp
    <3>2. process'.version \in {process.version, installed}
      BY <2>3 DEF CoordinatorStarts, PickUp, Started
    <3> QED
      BY <2>1, <3>1, <3>2
  <2>4. CASE CheckNow \/ RequestUpdateOfCoordinator \/ PollStatus \/ Elapse
             \/ InstallFails \/ HelperKilled
    <3>1. installed' = installed
      BY <2>4 DEF CheckNow, RequestUpdateOfCoordinator, PollStatus, Elapse, InstallFails,
                  HelperKilled
    <3>2. process'.version = process.version
      <4>1. RefreshPending(process) \in ProcessState
            /\ RefreshPending(process).version = process.version
        BY <2>1, RefreshPendingIs
      <4>2. CASE RequestUpdateOfCoordinator
        <5> DEFINE now == RefreshPending(process)
        <5>1. process' = [now EXCEPT !.pending = now.latest, !.waited = 0, !.error = FALSE]
          BY <4>2 DEF RequestUpdateOfCoordinator
        <5> HIDE DEF now
        <5>2. now \in ProcessState => process'.version = now.version
          BY <5>1 DEF ProcessState
        <5> QED
          BY <4>1, <5>2 DEF now
      <4>3. CASE CheckNow \/ PollStatus \/ InstallFails \/ HelperKilled
        BY <2>1, <4>1, <4>3 DEF CheckNow, PollStatus, InstallFails, HelperKilled, ProcessState
      <4>4. CASE Elapse
        BY <1>1, <4>4, ElapseIs
      <4> QED
        BY <2>4, <4>2, <4>3, <4>4
    <3> QED
      BY <2>1, <3>1, <3>2
  <2> QED
    BY <1>1, <2>2, <2>3, <2>4 DEF UpdateNext
<1>2. UpdateInv /\ [UpdateNext]_updateVars =>
        [installed' >= installed /\ process'.version >= process.version]_updateVars
  BY <1>1
<1> QED
  BY <1>2, UpdateInvariant, PTL DEF UpdateSpec

\* A page waits for a version that this process is to be replaced by.
Waits == watching # 0 /\ process.version = watching /\ process.pending # 0

\* What makes refreshPending give up.
Expired == \/ statusFile.state = "failed"
           \/ statusFile.state = "none" /\ process.waited > PickupTimeout
           \/ statusFile.state # "none" /\ statusFile.age > InstallTimeout

\* Ticks until it does, at most: the clock that runs, and the one that would
\* start when the request is picked up.
Clock  == IF statusFile.state = "failed" THEN 0
          ELSE IF statusFile.state = "none" THEN PickupTimeout + 1 - process.waited
          ELSE InstallTimeout + 1 - statusFile.age
NotPickedUp == IF requestFile # 0 THEN InstallTimeout + 1 ELSE 0
Left   == IF Waits THEN Clock + NotPickedUp ELSE 0

LEMMA ClockIs ==
  ASSUME UpdateInv
  PROVE  Clock \in Nat /\ NotPickedUp \in Nat /\ Left \in Nat
<1>1. process.waited \in 0..(PickupTimeout + 1) /\ statusFile.age \in 0..(InstallTimeout + 1)
  BY UpdateTypes DEF ProcessState, StatusState
<1>2. Clock \in Nat /\ NotPickedUp \in Nat
  BY <1>1, UpdateConstants DEF Clock, NotPickedUp
<1> QED
  BY <1>2 DEF Left

\* It is enough that a step that leaves the page waiting found it waiting.
LEMMA LeftFalls ==
  ASSUME UpdateInv, UpdateInv', Waits' => Waits /\ Clock' + NotPickedUp' <= Clock + NotPickedUp
  PROVE  Left' <= Left
<1>1. Clock \in Nat /\ NotPickedUp \in Nat /\ Left \in Nat
  BY ClockIs
<1> QED
  BY <1>1 DEF Left

\* A request that is picked up has the time of an install, and no other.
LEMMA PickUpLeft == ASSUME UpdateInv, UpdateInv', PickUp PROVE Left' <= Left
<1>1. requestFile # 0 /\ requestFile' = 0 /\ watching' = watching
  BY DEF PickUp
<1>2. ASSUME Waits' PROVE process' = process
  <2>1. Status("restarting", requestFile) \in StatusState /\ installed \in Release
    BY StatusTypes, UpdateTypes
  <2>2. ~Started(installed, Status("restarting", requestFile))
    BY <1>2, <2>1, StartedIs DEF Waits
  <2> QED
    BY <2>2 DEF PickUp
<1>3. ASSUME Waits' PROVE statusFile'.state \in {"installing", "failed"} /\ statusFile'.age = 0
  <2>1. \/ Started(installed, Status("restarting", requestFile))
        \/ \E state \in {"installing", "failed"} : statusFile' = Status(state, requestFile)
    BY DEF PickUp
  <2>2. Status("restarting", requestFile) \in StatusState /\ installed \in Release
        /\ requestFile \in Release \cup {0}
    BY StatusTypes, UpdateTypes
  <2>3. ~Started(installed, Status("restarting", requestFile))
    BY <1>3, <2>2, StartedIs DEF Waits
  <2> QED
    BY <2>1, <2>2, <2>3, StatusTypes
<1>4. Clock \in Nat
  BY ClockIs
<1>5. ASSUME Waits' PROVE Waits /\ Clock' + NotPickedUp' <= Clock + NotPickedUp
  <2>1. Waits
    BY <1>1, <1>2, <1>5 DEF Waits
  <2>2. Clock' \in {0, InstallTimeout + 1} /\ NotPickedUp' = 0 /\ NotPickedUp = InstallTimeout + 1
    BY <1>1, <1>3, <1>5, UpdateConstants DEF Clock, NotPickedUp
  <2>3. \A c, i \in Nat : 0 + 0 <= c + (i + 1) /\ (i + 1) + 0 <= c + (i + 1)
    OBVIOUS
  <2>4. Clock' + NotPickedUp' <= Clock + NotPickedUp
    BY <1>4, <2>2, <2>3, UpdateConstants
  <2> QED
    BY <2>1, <2>4
<1> QED
  BY <1>5, LeftFalls

LEMMA InstallLeft ==
  ASSUME UpdateInv, UpdateInv', Installed \/ InstallFails \/ HelperKilled
  PROVE  Left' <= Left
<1>1. helper \in Release /\ statusFile \in StatusState
  BY UpdateTypes DEF Installed, InstallFails, HelperKilled
<1>2. requestFile' = requestFile /\ watching' = watching
  BY DEF Installed, InstallFails, HelperKilled
<1>3. ASSUME Waits'
      PROVE  process' = process /\ (statusFile' = statusFile \/ statusFile'.state = "failed")
  <2>1. ~Started(helper, statusFile)
    BY <1>1, <1>3, StartedIs DEF Waits
  <2>2. Status("failed", helper).state = "failed"
    BY <1>1, StatusTypes
  <2> QED
    BY <2>1, <2>2 DEF Installed, InstallFails, HelperKilled
<1>4. Clock \in Nat /\ NotPickedUp \in Nat
  BY ClockIs
<1>5. ASSUME Waits' PROVE Waits /\ Clock' + NotPickedUp' <= Clock + NotPickedUp
  <2>1. Waits /\ NotPickedUp' = NotPickedUp
    BY <1>2, <1>3, <1>5 DEF Waits, NotPickedUp
  <2>2. Clock' = Clock \/ Clock' = 0
    BY <1>3, <1>5 DEF Clock
  <2> QED
    BY <1>4, <2>1, <2>2
<1> QED
  BY <1>5, LeftFalls

\* Checks for versions, polls and starts of the process.
LEMMA ProcessLeft ==
  ASSUME UpdateInv, UpdateInv', CheckNow \/ PollStatus \/ CoordinatorStarts
  PROVE  Left' <= Left
<1>1. /\ requestFile' = requestFile /\ watching' \in {0, watching}
      /\ process \in ProcessState
  BY UpdateTypes DEF CheckNow, PollStatus, CoordinatorStarts
<1>2. ASSUME Waits'
      PROVE  /\ process'.version = process.version /\ process'.pending = process.pending
             /\ process'.waited = process.waited /\ statusFile' = statusFile
  <2>1. ~CoordinatorStarts
    BY <1>2, UpdateTypes, StartedIs DEF Waits, CoordinatorStarts
  <2>2. CASE CheckNow
    BY <1>1, <2>2 DEF CheckNow, ProcessState
  <2>3. CASE PollStatus
    <3>1. Failed(process).pending = 0
      BY <1>1 DEF Failed, ProcessState
    <3>2. process' = process
      BY <1>2, <2>3, <3>1 DEF PollStatus, RefreshPending, Waits
    <3> QED
      BY <2>3, <3>2 DEF PollStatus
  <2> QED
    BY <2>1, <2>2, <2>3
<1>3. ASSUME Waits' PROVE Waits /\ Clock' = Clock /\ NotPickedUp' = NotPickedUp
  BY <1>1, <1>2, <1>3 DEF Waits, Clock, NotPickedUp
<1>4. Clock \in Nat /\ NotPickedUp \in Nat
  BY ClockIs
<1> QED
  BY <1>3, <1>4, LeftFalls

\* Time brings the end nearer.
LEMMA ElapseLeft ==
  ASSUME UpdateInv, UpdateInv', Elapse
  PROVE  Left' <= Left /\ (Waits /\ ~Expired => Left' < Left)
<1>1. /\ process.waited \in Nat /\ statusFile.age \in Nat
      /\ PickupTimeout \in Nat /\ InstallTimeout \in Nat
  BY UpdateTypes, UpdateConstants DEF ProcessState, StatusState
<1>2. requestFile' = requestFile /\ watching' = watching
  BY DEF Elapse
<1>3. (Waits' <=> Waits) /\ NotPickedUp' = NotPickedUp
  BY <1>2, ElapseIs DEF Waits, NotPickedUp
<1>4. Clock' <= Clock /\ (Waits /\ ~Expired => Clock' < Clock)
  BY <1>1, ElapseIs DEF Clock, Waits, Expired
<1>5. Clock \in Nat /\ NotPickedUp \in Nat
  BY ClockIs
<1>6. Clock' \in Nat
  <2>1. /\ process'.waited \in 0..(PickupTimeout + 1)
        /\ statusFile'.age \in 0..(InstallTimeout + 1)
    BY ElapseIs DEF ProcessState, StatusState
  <2> QED
    BY <1>1, <2>1 DEF Clock
<1>7. CASE ~Waits
  <2>1. Left' = 0 /\ Left = 0
    BY <1>3, <1>7 DEF Left
  <2> QED
    BY <1>7, <2>1
<1>8. CASE Waits
  <2>1. Left = Clock + NotPickedUp /\ Left' = Clock' + NotPickedUp
    BY <1>3, <1>8 DEF Left
  <2>2. \A c, d, p \in Nat : (d <= c => d + p <= c + p) /\ (d < c => d + p < c + p)
    OBVIOUS
  <2>3. Left' <= Left /\ (Clock' < Clock => Left' < Left)
    BY <1>4, <1>5, <1>6, <2>1, <2>2
  <2> QED
    BY <1>4, <1>8, <2>3
<1> QED
  BY <1>7, <1>8

\* The safety half of WaitIsOver: no step but a new request lengthens the
\* wait, time shortens it, and once a clock has expired the next poll ends
\* it.
THEOREM WaitRunsOut ==
  UpdateSpec => [][/\ RequestUpdateOfCoordinator \/ Left' <= Left
                   /\ Elapse /\ Waits /\ ~Expired => Left' < Left
                   /\ PollStatus /\ (Waits => Expired) => watching' = 0]_updateVars
<1>1. ASSUME UpdateInv, UpdateNext
      PROVE  /\ RequestUpdateOfCoordinator \/ Left' <= Left
             /\ Elapse /\ Waits /\ ~Expired => Left' < Left
             /\ PollStatus /\ (Waits => Expired) => watching' = 0
  <2>1. UpdateInv'
    BY <1>1, UpdateStep
  <2>2. RequestUpdateOfCoordinator \/ Left' <= Left
    BY <1>1, <2>1, PickUpLeft, InstallLeft, ProcessLeft, ElapseLeft DEF UpdateNext
  <2>3. Elapse /\ Waits /\ ~Expired => Left' < Left
    BY <1>1, <2>1, ElapseLeft
  <2>4. ASSUME PollStatus, Waits => Expired PROVE watching' = 0
    <3>1. process \in ProcessState
      BY <1>1, UpdateTypes
    <3>2. Failed(process).pending = 0
      BY <3>1 DEF Failed, ProcessState
    <3> QED
      BY <2>4, <3>2 DEF PollStatus, RefreshPending, Waits, Expired
  <2> QED
    BY <2>2, <2>3, <2>4
<1>2. UpdateInv /\ [UpdateNext]_updateVars =>
        [/\ RequestUpdateOfCoordinator \/ Left' <= Left
         /\ Elapse /\ Waits /\ ~Expired => Left' < Left
         /\ PollStatus /\ (Waits => Expired) => watching' = 0]_updateVars
  BY <1>1
<1> QED
  BY <1>2, UpdateInvariant, PTL DEF UpdateSpec

-----------------------------------------------------------------------------
(* The parts side by side, as MCArrives composes them *)

ArrivesInv == OrdersInv /\ LiveInv /\ UpdateInv /\ StreamInv

LEMMA ArrivesInvInit == Init => ArrivesInv
BY OrdersInvInit, LiveInvInit, UpdateInvInit, StreamInvInit DEF Init, ArrivesInv

\* A step is one of one part, and leaves the others alone.
LEMMA ArrivesStep == ASSUME ArrivesInv, [Next]_vars PROVE ArrivesInv'
<1>1. /\ [OrdersNext]_orderVars /\ [LiveNext]_liveVars
      /\ [UpdateNext]_updateVars /\ [StreamNext]_streamVars
  BY DEF Next, InOrders, InLive, InUpdate, InStream, vars
<1> QED
  BY <1>1, OrdersStep, LiveStep, UpdateStep, StreamStep DEF ArrivesInv

\* All parts together keep their types, and each of them its invariant, in
\* the specification that is model-checked.
THEOREM ArrivesInvariant == Spec => []ArrivesInv
BY ArrivesInvInit, ArrivesStep, PTL DEF Spec

\* Type correctness of the parts side by side.
THEOREM ArrivesTypeCorrect == Spec => []ArrivesTypeOK
<1>1. ArrivesInv => ArrivesTypeOK
  BY StreamTypes DEF ArrivesInv, ArrivesTypeOK, OrdersInv, LiveInv, UpdateInv
<1> QED
  BY <1>1, ArrivesInvariant, PTL
=============================================================================
