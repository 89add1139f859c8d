----------------------------- MODULE LogWindow ------------------------------
(* What the log viewer promises its reader: the lines on the page are        *)
(* always a gapless run of the job's log in its order, each line once; more  *)
(* lines only ever come before its first or after its last one; and while it *)
(* follows the job every line comes in the end.  JobStream implements this.  *)
EXTENDS Integers, Sequences

CONSTANT MaxWritten   \* bound: lines of the log

VARIABLES written, window, following

windowVars == <<written, window, following>>

Lines(from, to) == [i \in 1..(to - from + 1) |-> from + i - 1]
After(w)        == IF w = <<>> THEN 1 ELSE w[Len(w)] + 1

WindowInit == written = 0 /\ window = <<>> /\ following = FALSE

Write   == \E n \in (written + 1)..MaxWritten : written' = n /\ UNCHANGED <<window, following>>
Open    == /\ \E n \in 1..(written + 1) : window' = Lines(n, written)
           /\ following' \in BOOLEAN
           /\ UNCHANGED written
Clear   == window' = <<>> /\ following' = FALSE /\ UNCHANGED written
Follow  == /\ following /\ After(window) <= written
           /\ window' = Append(window, After(window))
           /\ UNCHANGED <<written, following>>
Earlier == /\ window # <<>>
           /\ \E n \in 1..(window[1] - 1) : window' = Lines(n, window[1] - 1) \o window
           /\ UNCHANGED <<written, following>>
Stop    == following' = FALSE /\ UNCHANGED <<written, window>>

WindowNext == Write \/ Open \/ Clear \/ Follow \/ Earlier \/ Stop

WindowSpec == WindowInit /\ [][WindowNext]_windowVars /\ WF_windowVars(Follow)
=============================================================================
