-------------------------------- MODULE Live --------------------------------
(* How an open dashboard page stays current: the server compares            *)
(* fingerprints and says that something changed, one tab of the browser     *)
(* holds the stream and relays what it hears, and each tab fetches itself   *)
(* again (services/live.js, public/js/live.js).                             *)
EXTENDS Naturals

CONSTANTS
  Tab,        \* pages of one browser, numbered as they were opened
  MaxData,    \* bound: changes of what the pages show
  Nobody

ASSUME LiveAssumption == Tab \subseteq Nat /\ MaxData \in Nat /\ Nobody \notin Tab

VARIABLES
  data,         \* version of the data
  fingerprint,  \* version of the last check, or Nobody: nobody subscribed
  holder,       \* the tab that holds the lock, hence the stream
  connected,    \* its stream is open
  connectedBefore,
  tabs,
  base          \* history: the data when the holder first opened its stream

liveVars == <<data, fingerprint, holder, connected, connectedBefore, tabs, base>>

Versions == 0..MaxData

LiveTypeOK ==
  /\ data \in Versions
  /\ fingerprint \in Versions \cup {Nobody}
  /\ holder \in Tab \cup {Nobody}
  /\ connected \in BOOLEAN /\ connectedBefore \in BOOLEAN
  /\ tabs \in [Tab -> [shown : Versions, timer : BOOLEAN, dirty : BOOLEAN,
                       hidden : BOOLEAN, ended : BOOLEAN,  \* closed or signed out
                       page : {"none", "asked", "sent"}, sent : Versions,
                       dropped : BOOLEAN]]  \* history: see Refresh
  /\ base \in Versions

Fetching(t) == tabs[t].page # "none"
Scheduled   == [t \in Tab |-> [tabs[t] EXCEPT !.timer = ~tabs[t].ended]]

-----------------------------------------------------------------------------
(* The server *)

Change ==
  /\ data < MaxData
  /\ data' = data + 1
  /\ UNCHANGED <<fingerprint, holder, connected, connectedBefore, tabs, base>>

\* check, on an event or the interval: tell the tabs, through the holder.
Check ==
  /\ connected
  /\ fingerprint' = data
  /\ tabs' = IF data # fingerprint THEN Scheduled ELSE tabs
  /\ UNCHANGED <<data, holder, connected, connectedBefore, base>>

-----------------------------------------------------------------------------
(* The stream *)

\* navigator.locks: of the tabs that wait for it, the first one gets the lock.
TakeOver(t) ==
  /\ holder = Nobody /\ ~tabs[t].ended
  /\ \A u \in Tab : ~tabs[u].ended => t <= u
  /\ holder' = t /\ connectedBefore' = FALSE
  /\ UNCHANGED <<data, fingerprint, connected, tabs, base>>

\* Mutant of Connect: a stream that comes back is taken for the first one.
ConnectSilently ==
  /\ holder # Nobody /\ ~connected
  /\ connected' = TRUE /\ connectedBefore' = TRUE /\ fingerprint' = data
  /\ base' = IF connectedBefore THEN base ELSE data
  /\ UNCHANGED <<data, holder, tabs>>

\* GET /live: subscribing takes the fingerprints; `hello` on a stream that
\* was lost makes every tab catch up.
Connect ==
  /\ holder # Nobody /\ ~connected
  /\ connected' = TRUE /\ connectedBefore' = TRUE /\ fingerprint' = data
  /\ base' = IF connectedBefore THEN base ELSE data
  /\ tabs' = IF connectedBefore THEN Scheduled ELSE tabs
  /\ UNCHANGED <<data, holder>>

\* The connection drops, or the Coordinator restarts.
Disconnect ==
  /\ connected
  /\ connected' = FALSE /\ fingerprint' = Nobody
  /\ UNCHANGED <<data, holder, connectedBefore, tabs, base>>

Ended(row) == [row EXCEPT !.ended = TRUE, !.timer = FALSE, !.dirty = FALSE, !.page = "none",
                           !.dropped = FALSE]

\* session-ended on the stream, relayed to every tab; the lock is given up.
SessionEnded ==
  /\ connected
  /\ connected' = FALSE /\ fingerprint' = Nobody /\ holder' = Nobody
  /\ tabs' = [t \in Tab |-> Ended(tabs[t])]
  /\ UNCHANGED <<data, connectedBefore, base>>

\* A tab is closed, and the lock with it.
CloseTab(t) ==
  /\ ~tabs[t].ended
  /\ tabs' = [tabs EXCEPT ![t] = Ended(@)]
  /\ IF holder = t
     THEN holder' = Nobody /\ connected' = FALSE /\ fingerprint' = Nobody
     ELSE UNCHANGED <<holder, connected, fingerprint>>
  /\ UNCHANGED <<data, connectedBefore, base>>

-----------------------------------------------------------------------------
(* A tab *)

TabStep(t, row) ==
  /\ tabs' = [tabs EXCEPT ![t] = row]
  /\ UNCHANGED <<data, fingerprint, holder, connected, connectedBefore, base>>

\* refresh, when its timer fires: not while a page is being fetched (then
\* this one is dropped), not while hidden, not while a dialog is open.
Refresh(t) ==
  /\ tabs[t].timer
  /\ IF Fetching(t) THEN TabStep(t, [tabs[t] EXCEPT !.timer = FALSE, !.dropped = TRUE])
     ELSE IF tabs[t].hidden
     THEN TabStep(t, [tabs[t] EXCEPT !.timer = FALSE, !.dirty = TRUE])
     ELSE TabStep(t, [tabs[t] EXCEPT !.timer = FALSE, !.dirty = FALSE, !.page = "asked",
                                             !.dropped = FALSE])

RefreshBlocked(t) ==
  /\ tabs[t].timer /\ ~Fetching(t) /\ ~tabs[t].hidden
  /\ TabStep(t, [tabs[t] EXCEPT !.dirty = TRUE])

\* The server renders the page.
Render(t) == /\ tabs[t].page = "asked"
             /\ TabStep(t, [tabs[t] EXCEPT !.page = "sent", !.sent = data])

Applied(t) == [tabs[t] EXCEPT !.page = "none", !.shown = tabs[t].sent]

Apply(t) == tabs[t].page = "sent" /\ TabStep(t, Applied(t))

\* The page could not be fetched, or a region is in use: again later.  (It
\* makes no difference whether it failed before or after it was rendered.)
FetchFails(t) ==
  /\ tabs[t].page = "sent"
  /\ TabStep(t, [tabs[t] EXCEPT !.page = "none", !.dirty = TRUE, !.timer = TRUE])

Hide(t) == ~tabs[t].hidden /\ ~tabs[t].ended /\ TabStep(t, [tabs[t] EXCEPT !.hidden = TRUE])

\* visibilitychange: catch up.
Show(t) ==
  /\ tabs[t].hidden /\ ~tabs[t].ended
  /\ TabStep(t, [tabs[t] EXCEPT !.hidden = FALSE, !.timer = @ \/ tabs[t].dirty])

LiveInit ==
  /\ data = 0 /\ fingerprint = Nobody
  /\ holder = Nobody /\ connected = FALSE /\ connectedBefore = FALSE
  /\ tabs = [t \in Tab |-> [shown |-> 0, timer |-> FALSE, dirty |-> FALSE,
                            hidden |-> FALSE, ended |-> FALSE, page |-> "none",
                            sent |-> 0, dropped |-> FALSE]]
  /\ base = 0

LiveNext ==
  \/ Change \/ Check \/ Connect \/ Disconnect \/ SessionEnded
  \/ \E t \in Tab : \/ TakeOver(t) \/ CloseTab(t)
                    \/ Refresh(t) \/ RefreshBlocked(t) \/ Render(t) \/ Apply(t)
                    \/ FetchFails(t) \/ Hide(t) \/ Show(t)

\* The interval keeps checking, streams are opened again and once stay open
\* long enough to be checked, and an open tab is looked at, free of dialogs
\* and able to load its page at some time.
LiveFairness ==
  /\ SF_liveVars(Check) /\ WF_liveVars(Connect)
  /\ \A t \in Tab : /\ WF_liveVars(TakeOver(t)) /\ WF_liveVars(Show(t))
                    /\ SF_liveVars(Refresh(t) /\ ~tabs[t].hidden)
                    /\ WF_liveVars(Render(t)) /\ SF_liveVars(Apply(t))

LiveSpec == LiveInit /\ [][LiveNext]_liveVars /\ LiveFairness

-----------------------------------------------------------------------------

\* A change after the holder has first opened its stream is shown in every
\* tab in the end, through dropped streams, failed fetches, hidden tabs and
\* open dialogs; unless it was announced to a tab whose page took so long to
\* load that the timer fired meanwhile.
ChangeIsShown ==
  \A n \in Versions \ {0} :
    data = n /\ connectedBefore /\ base < n
      ~> \A t \in Tab : tabs[t].shown >= n \/ tabs[t].ended \/ base >= n \/ tabs[t].dropped
=============================================================================
