------------------------------ MODULE Sessions ------------------------------
(* One signed-in browser: its session row (services/session-store.js), the  *)
(* requests that count as activity and those that do not (server.js,        *)
(* web/routes.js), the user read again on each of them (auth.js), requests  *)
(* that are still running while others come and go, the live stream, and    *)
(* the log of a job as it is streamed to its page (api/sse.js).             *)
(* What express-session itself does is external: it sets the expiry when    *)
(* the headers are sent, and at the end of the request it saves a changed   *)
(* session (set) and touches an unchanged one.                              *)
EXTENDS Naturals

CONSTANTS
  Timeouts,   \* the users' idle timeouts, in ticks
  NoRequest

ASSUME SessionsAssumption == /\ Timeouts \subseteq Nat \ {0}
                             /\ \E t \in Timeouts : \A u \in Timeouts : t >= u

VARIABLES
  session,  \* the row, as the browser's cookie names it
  account,  \* the user: may use the dashboard, and the idle timeout chosen
  slow,     \* copy of the session in a request that is still running
  stream,   \* copy of the session in GET /live
  jobLog,   \* copy of the session in a job's log stream, or log download
  idle,     \* history: ticks since a request that counts has ended
  allowed,  \* history: the timeout that request was given
  granted,  \* history: ticks left of the latest expiry a log stream was given
  overtaken, \* history: a log stream has ended since that request
  out       \* history: has signed out, or was refused, or refusable, since

historyVars == <<idle, allowed, granted, overtaken, out>>
sessionVars == <<session, account, slow, stream, jobLog, historyVars>>

LongestTimeout == CHOOSE t \in Timeouts : \A u \in Timeouts : t >= u

\* left: ticks until `expires`; timeout: user.sessionTimeoutMin as stored.
Session == [stored  : BOOLEAN,
            user    : BOOLEAN,
            timeout : Timeouts,
            left    : 0..LongestTimeout]

SessionsTypeOK ==
  /\ session \in Session
  /\ account \in [open : BOOLEAN, timeout : Timeouts]
  /\ slow \in Session \cup {NoRequest} /\ stream \in Session \cup {NoRequest}
  /\ jobLog \in Session \cup {NoRequest}
  /\ idle \in 0..LongestTimeout /\ allowed \in Timeouts
  /\ granted \in 0..LongestTimeout
  /\ overtaken \in BOOLEAN /\ out \in BOOLEAN

\* get: an expired row is none.
Readable == session.stored /\ session.left > 0 /\ session.user

-----------------------------------------------------------------------------
(* The store *)

\* set inserts the row or replaces it; touch only updates it.
SetRow(s)   == session' = [s EXCEPT !.stored = TRUE]
TouchRow(s) == session' = IF session.stored THEN s ELSE session

\* get of an expired row, and the periodic sweep.
Prune ==
  /\ session.stored /\ session.left = 0
  /\ session' = [session EXCEPT !.stored = FALSE]
  /\ UNCHANGED <<account, slow, stream, jobLog, historyVars>>

-----------------------------------------------------------------------------
(* Requests *)

\* requireAdminSession: the user is read again.
Refreshed(s) == [s EXCEPT !.user = account.open, !.timeout = account.timeout]

\* Mutant of Rolled: the expiry stays as it was when the user signed in.
NotRolled(s) == s

\* The middleware: the idle timeout of the stored user starts again.
Rolled(s) == [s EXCEPT !.left = s.timeout]

Counts(timeout) ==
  idle' = 0 /\ allowed' = timeout /\ overtaken' = FALSE /\ UNCHANGED granted

\* POST /login, after the password was checked on the thread pool.  Where
\* the row was gone, the browser gets another one, which the streams that are
\* still open know nothing of.
SignIn ==
  /\ ~Readable /\ account.open
  /\ SetRow([stored |-> TRUE, user |-> TRUE, timeout |-> account.timeout,
             left |-> account.timeout])
  /\ Counts(account.timeout) /\ out' = FALSE
  /\ IF session.stored /\ session.left > 0
     THEN UNCHANGED <<stream, jobLog>>
     ELSE stream' = NoRequest /\ jobLog' = NoRequest
  /\ UNCHANGED <<account, slow>>

\* A page view or a form.
Request ==
  /\ Readable
  /\ SetRow(Refreshed(Rolled(session)))
  /\ Counts(session.timeout) /\ out' = (out \/ ~account.open)
  /\ UNCHANGED <<account, slow, stream, jobLog>>

\* One whose handler waits, and answers at its end: it works on its copy of
\* the session.
SlowRequest ==
  /\ Readable /\ account.open /\ slow = NoRequest
  /\ slow' = Refreshed(Rolled(session))
  /\ UNCHANGED <<session, account, stream, jobLog, historyVars>>

\* It ends with a message for the next page, so the copy is saved and the
\* cookie sent again, even after a logout.  The expiry counts from here, by
\* the timeout it began with.
SlowRequestEnds ==
  /\ slow # NoRequest /\ slow' = NoRequest
  /\ SetRow(slow) /\ Counts(slow.left)
  /\ out' = (out /\ ~account.open)
  /\ UNCHANGED <<account, stream, jobLog>>

\* Mutant of PassiveRequest: it counts like any other.
PassiveRequestRolling ==
  /\ Readable
  /\ SetRow(Refreshed(Rolled(session)))
  /\ out' = (out \/ ~account.open)
  /\ UNCHANGED <<account, slow, stream, jobLog, idle, allowed, granted, overtaken>>

\* A re-fetch of an open page (thubPassive) does not move the expiry.
PassiveRequest ==
  /\ Readable
  /\ SetRow(Refreshed(session))
  /\ out' = (out \/ ~account.open)
  /\ UNCHANGED <<account, slow, stream, jobLog, idle, allowed, granted, overtaken>>

\* GET /live, passive, too: it keeps its copy as long as it is open.
OpenStream ==
  /\ Readable /\ account.open /\ stream = NoRequest
  /\ stream' = Refreshed(session)
  /\ UNCHANGED <<session, account, slow, jobLog, historyVars>>

\* sessionCheck: the session is over, and so is the stream.  A row that has
\* expired is deleted by get; another one is touched with the copy.  (Where
\* the user had changed before the stream was opened, the copy is saved; a
\* row this inserts is one the browser no longer asks for.)
StreamEnds ==
  /\ stream # NoRequest /\ stream' = NoRequest
  /\ ~Readable \/ ~account.open
  /\ IF session.left = 0 THEN session' = [session EXCEPT !.stored = FALSE]
                         ELSE TouchRow(stream)
  /\ UNCHANGED <<account, slow, jobLog, historyVars>>

\* The browser goes away: nothing is written.
StreamDrops ==
  /\ stream # NoRequest /\ stream' = NoRequest
  /\ UNCHANGED <<session, account, slow, jobLog, historyVars>>

\* GET /jobs/:id/stream, and the download of a log: not passive.  The headers
\* go out at once, with an expiry that counts from here, and nothing is
\* written yet.
OpenJobLog ==
  /\ Readable /\ account.open /\ jobLog = NoRequest
  /\ jobLog' = Refreshed(Rolled(session))
  /\ granted' = IF granted > session.timeout THEN granted ELSE session.timeout
  /\ UNCHANGED <<session, account, slow, stream, idle, allowed, overtaken, out>>

\* The job has finished, or the log is through: res.end writes the copy, with
\* the expiry it was given when it was opened.  (A row this inserts is one
\* the browser no longer asks for.)
JobLogEnds ==
  /\ jobLog # NoRequest /\ jobLog' = NoRequest
  /\ TouchRow(jobLog) /\ overtaken' = TRUE
  /\ UNCHANGED <<account, slow, stream, idle, allowed, granted, out>>

\* The reader goes away: nothing is written.
JobLogDrops ==
  /\ jobLog # NoRequest /\ jobLog' = NoRequest
  /\ UNCHANGED <<session, account, slow, stream, historyVars>>

\* POST /logout
Logout ==
  /\ session' = [session EXCEPT !.stored = FALSE]
  /\ out' = TRUE
  /\ UNCHANGED <<account, slow, stream, jobLog, idle, allowed, granted, overtaken>>

-----------------------------------------------------------------------------

\* The account is blocked, demoted, deleted, or given back.
OpenAccount(open) ==
  /\ account' = [account EXCEPT !.open = open]
  /\ out' = (out \/ ~open)
  /\ UNCHANGED <<session, slow, stream, jobLog, idle, allowed, granted, overtaken>>

\* Another timeout is saved, here or in another browser.
ChooseTimeout(t) ==
  /\ account' = [account EXCEPT !.timeout = t]
  /\ UNCHANGED <<session, slow, stream, jobLog, historyVars>>

Less(n) == IF n = 0 THEN 0 ELSE n - 1
Later(copy) == IF copy = NoRequest THEN copy ELSE [copy EXCEPT !.left = Less(@)]

\* Time passes.  A request that runs takes its time from its end.
SessionTick ==
  /\ session' = [session EXCEPT !.left = Less(@)]
  /\ stream' = Later(stream) /\ jobLog' = Later(jobLog)
  /\ idle' = IF idle < LongestTimeout THEN idle + 1 ELSE idle
  /\ granted' = Less(granted)
  /\ UNCHANGED <<account, slow, allowed, overtaken, out>>

SessionsInit ==
  /\ account \in [open : {TRUE}, timeout : Timeouts]
  /\ session = [stored |-> FALSE, user |-> FALSE, timeout |-> account.timeout, left |-> 0]
  /\ slow = NoRequest /\ stream = NoRequest /\ jobLog = NoRequest
  /\ idle = 0 /\ allowed = account.timeout /\ granted = 0
  /\ overtaken = FALSE /\ out = TRUE

SessionsNext ==
  \/ SignIn \/ Request \/ SlowRequest \/ SlowRequestEnds \/ PassiveRequest
  \/ OpenStream \/ StreamEnds \/ StreamDrops
  \/ OpenJobLog \/ JobLogEnds \/ JobLogDrops
  \/ Logout \/ Prune \/ SessionTick
  \/ \E open \in BOOLEAN : OpenAccount(open)
  \/ \E t \in Timeouts : ChooseTimeout(t)

SessionsSpec == SessionsInit /\ [][SessionsNext]_sessionVars

-----------------------------------------------------------------------------

\* "they must not count as activity" (server.js): however long pages refetch
\* themselves and streams stay open, a session nobody uses is over when the
\* timeout has passed that its last real request was given, or, once a log
\* stream has ended, those that log streams were given when they were opened.
\* (Where the user was blocked and unblocked meanwhile, the live stream may
\* write an older expiry.)
IdleSessionEnds ==
  Readable /\ ~out => \/ idle + session.left <= allowed
                      \/ overtaken /\ session.left <= granted

\* Somebody who stays active is not signed out: until that timeout has
\* passed, the session is there, whatever the live stream, refetches and slow
\* requests write back in between; unless a log stream has ended since.
ActiveStaysSignedIn == ~out /\ ~overtaken /\ idle < allowed => Readable

\* "the session survives as long as the user stays active and only actually
\* expires `sessionTimeoutMin` after their *last* request" (server.js).  The
\* code does not keep this: the end of a log stream writes an older expiry.
SurvivesWhileActive == ~out /\ idle < allowed => Readable
=============================================================================
