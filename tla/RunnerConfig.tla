----------------------------- MODULE RunnerConfig ---------------------------
(* The config file of one runner, edited from the dashboard: registry.js    *)
(* keeps a numbered revision in the runner's row, the reply to each         *)
(* heartbeat repeats it until a heartbeat reports it as applied, and the    *)
(* runner reports its file whenever it starts.  The runner is external:     *)
(* it writes a newer revision to its file (or refuses it), and restarts     *)
(* once it is idle.                                                         *)
EXTENDS Naturals

CONSTANTS
  Section,      \* contents of the hw-devices section
  Field,        \* the other fields: labels, groups
  Value,        \* contents of one of them
  MaxRevision,  \* bound: revisions saved
  Nothing

VARIABLES
  configRow,    \* the row in table resources
  configReply,  \* the set-config command in the reply on its way, or Nothing
  runner,       \* the runner's process and file
  asked         \* history: the value last asked for each field, if it stands

configVars == <<configRow, configReply, runner, asked>>

Revisions == 0..MaxRevision
Fields    == UNION {[F -> Value] : F \in SUBSET Field}
NoFields  == [f \in {} |-> Nothing]
Import    == [revision : Revisions, fields : Fields]
Reply     == [revision : Revisions, section : Section, fields : Fields]

ASSUME ConfigAssumption ==
  /\ MaxRevision \in Nat
  /\ Nothing \notin Section \cup Value \cup [Field -> Value] \cup Import \cup Reply

ConfigTypeOK ==
  /\ configRow \in [desired  : Section \cup {Nothing},
                    revision : Revisions,
                    applied  : Revisions,
                    error    : BOOLEAN,
                    import   : Import \cup {Nothing},
                    section  : Section,
                    file     : [Field -> Value] \cup {Nothing},
                    live     : [Field -> Value]]  \* labels, group_ids
  /\ configReply \in Reply \cup {Nothing}
  /\ runner \in [section    : Section,
                 fields     : [Field -> Value],
                 applied    : Revisions,
                 refused    : BOOLEAN,
                 old        : BOOLEAN,   \* applies and reports its section only
                 joins      : BOOLEAN,   \* has a joinKey: registers on start
                 restarting : BOOLEAN]   \* the file changed since it started
  /\ asked \in [Field -> Value \cup {Nothing}]
  /\ configRow.desired = Nothing <=> configRow.revision = 0

-----------------------------------------------------------------------------
(* What registry.js reads from the row.                                     *)

\* { ...old, ...new }
Over(new, old) ==
  [f \in DOMAIN new \cup DOMAIN old |-> IF f \in DOMAIN new THEN new[f] ELSE old[f]]

\* Mutant of CurrentSection: the saved revision on its way is overlooked.
ReportedSection == configRow.section

\* Mutant of CurrentSection: what was saved last, applied or not.
SavedSection ==
  IF configRow.desired # Nothing THEN configRow.desired ELSE configRow.section

CurrentSection ==
  IF configRow.desired # Nothing /\ configRow.applied < configRow.revision
  THEN configRow.desired
  ELSE configRow.section

PendingImport ==
  IF configRow.import # Nothing /\ configRow.import.revision > configRow.applied
  THEN configRow.import.fields
  ELSE NoFields

\* Mutant of PendingConfig: nothing is sent while a refusal is on record.
PendingConfigUnlessRefused ==
  IF configRow.desired = Nothing \/ configRow.error
     \/ configRow.applied >= configRow.revision
  THEN Nothing
  ELSE [revision |-> configRow.revision, section |-> configRow.desired,
        fields |-> PendingImport]

PendingConfig ==
  IF configRow.desired = Nothing \/ configRow.applied >= configRow.revision
  THEN Nothing
  ELSE [revision |-> configRow.revision, section |-> configRow.desired,
        fields |-> PendingImport]

TakesFile == configRow.file # Nothing

Exported ==
  [fields  |-> Over(PendingImport, IF TakesFile THEN configRow.file ELSE configRow.live),
   section |-> CurrentSection]

-----------------------------------------------------------------------------
(* The dashboard *)

\* Config tab.
SaveSection(s) ==
  /\ configRow.revision < MaxRevision
  /\ configRow' = [configRow EXCEPT !.desired = s, !.revision = @ + 1, !.error = FALSE]
  /\ UNCHANGED <<configReply, runner, asked>>

\* Mutant of SaveField: the fields of a save on its way are not carried along.
SaveFieldAlone(f, v) ==
  /\ configRow.revision < MaxRevision
  /\ TakesFile
  /\ configRow' = [configRow EXCEPT
       !.desired = CurrentSection, !.revision = @ + 1, !.error = FALSE,
       !.import = [revision |-> configRow.revision + 1, fields |-> [g \in {f} |-> v]],
       !.live[f] = v]
  /\ asked' = [asked EXCEPT ![f] = v]
  /\ UNCHANGED <<configReply, runner>>

\* Labels and Groups tabs: in effect at once, and sent with whatever has not
\* been applied yet.
SaveField(f, v) ==
  /\ configRow.revision < MaxRevision
  /\ TakesFile
  /\ configRow' = [configRow EXCEPT
       !.desired = CurrentSection, !.revision = @ + 1, !.error = FALSE,
       !.import = [revision |-> configRow.revision + 1,
                   fields   |-> Over([g \in {f} |-> v], PendingImport)],
       !.live[f] = v]
  /\ asked' = [asked EXCEPT ![f] = v]
  /\ UNCHANGED <<configReply, runner>>

\* Import of a file with or without a section.  It replaces the fields on
\* their way: those it does not have are dropped.
ImportFile(s, fields) ==
  /\ configRow.revision < MaxRevision
  /\ configRow' = [configRow EXCEPT
       !.desired = IF s = Nothing THEN CurrentSection ELSE s,
       !.revision = @ + 1, !.error = FALSE,
       !.import = IF TakesFile
                  THEN [revision |-> configRow.revision + 1, fields |-> fields]
                  ELSE Nothing]
  /\ asked' = [f \in Field |-> IF ~TakesFile THEN asked[f]
                               ELSE IF f \in DOMAIN fields THEN fields[f]
                               ELSE IF f \in DOMAIN PendingImport THEN Nothing
                               ELSE asked[f]]
  /\ UNCHANGED <<configReply, runner>>

-----------------------------------------------------------------------------
(* The runner *)

\* POST heartbeat: what the runner holds is recorded, the reply says what it
\* should.  A runner sends the next heartbeat after the reply to this one.
ConfigHeartbeat ==
  /\ configReply = Nothing
  /\ configRow' = [configRow EXCEPT !.applied = runner.applied, !.error = runner.refused]
  /\ configReply' = PendingConfig'
  /\ UNCHANGED <<runner, asked>>

ReplyLost ==
  /\ configReply # Nothing
  /\ configReply' = Nothing
  /\ UNCHANGED <<configRow, runner, asked>>

\* The reply reaches the runner: it writes a revision it has not seen to its
\* file, or refuses it.
TakeConfig ==
  /\ configReply # Nothing
  /\ configReply' = Nothing
  /\ UNCHANGED configRow
  /\ \/ /\ configReply.revision <= runner.applied
        /\ UNCHANGED <<runner, asked>>
     \/ /\ configReply.revision > runner.applied
        /\ runner' = [runner EXCEPT
             !.applied = configReply.revision, !.refused = FALSE,
             !.restarting = TRUE, !.section = configReply.section,
             !.fields = IF runner.old THEN @ ELSE Over(configReply.fields, @)]
        /\ UNCHANGED asked
     \/ /\ configReply.revision > runner.applied
        /\ runner' = [runner EXCEPT !.applied = configReply.revision, !.refused = TRUE]
        /\ asked' = [f \in Field |-> IF f \in DOMAIN configReply.fields
                                     THEN Nothing ELSE asked[f]]

\* Somebody edits the file by hand.
EditFile ==
  /\ \/ \E s \in Section :
          /\ runner' = [runner EXCEPT !.section = s, !.restarting = TRUE]
          /\ UNCHANGED asked
     \/ \E f \in Field, v \in Value :
          /\ runner' = [runner EXCEPT !.fields[f] = v, !.restarting = TRUE]
          /\ asked' = [asked EXCEPT ![f] = Nothing]
  /\ UNCHANGED <<configRow, configReply>>

\* Mutant of Reported: the labels set on the dashboard stay.
ReportedKeepingLive(old) ==
  configRow' = [configRow EXCEPT
    !.section = runner.section,
    !.file = IF old THEN @ ELSE runner.fields]

\* registerAuto, or config-report from a runner without a joinKey, which
\* leaves labels and groups of the row as they are.
Reported(old) ==
  configRow' = [configRow EXCEPT
    !.section = runner.section,
    !.file = IF old THEN @ ELSE runner.fields,
    !.live = IF runner.joins THEN runner.fields ELSE @]

\* The runner starts again, perhaps as the version that applies whole files.
\* A reply on its way is lost with the old process.
StartRunner ==
  /\ \E old \in {runner.old, FALSE} :
       /\ Reported(old)
       /\ runner' = [runner EXCEPT !.old = old, !.restarting = FALSE]
  /\ configReply' = Nothing
  /\ UNCHANGED asked

ConfigInit ==
  /\ \E s \in Section, v \in Value, joins, old \in BOOLEAN :
       LET fields == [f \in Field |-> v]
       IN /\ configRow = [desired |-> Nothing, revision |-> 0, applied |-> 0,
                          error |-> FALSE, import |-> Nothing, section |-> s,
                          file |-> IF old THEN Nothing ELSE fields, live |-> fields]
          /\ runner = [section |-> s, fields |-> fields, applied |-> 0,
                       refused |-> FALSE, old |-> old, joins |-> joins,
                       restarting |-> FALSE]
  /\ configReply = Nothing
  /\ asked = [f \in Field |-> Nothing]

ConfigNext ==
  \/ \E s \in Section : SaveSection(s)
  \/ \E f \in Field, v \in Value : SaveField(f, v)
  \/ \E s \in Section \cup {Nothing}, fields \in Fields : ImportFile(s, fields)
  \/ ConfigHeartbeat \/ ReplyLost \/ TakeConfig
  \/ EditFile \/ StartRunner

\* A runner keeps sending heartbeats and replies are not lost for ever.
ConfigFairness ==
  /\ WF_configVars(ConfigHeartbeat)
  /\ SF_configVars(TakeConfig /\ configReply.revision > runner.applied)

ConfigSpec == ConfigInit /\ [][ConfigNext]_configVars /\ ConfigFairness

-----------------------------------------------------------------------------
(* Properties *)

\* The revisions implement Delivery: whatever heartbeat, reply and start
\* overlap or get lost, the runner never goes back to an older revision, ends
\* with the last one saved, and the Coordinator learns that it did.
D == INSTANCE Delivery WITH saved <- configRow.revision,
                            held  <- runner.applied,
                            known <- configRow.applied
RevisionsAreDelivered == D!DeliverySpec

\* A label or group saved on its tab is in the runner's file once every
\* revision is reported as applied, unless it was overwritten since (by an
\* edit on the host, by an import replacing what was on its way) or refused.
FieldsReachTheRunner ==
  configRow.applied = configRow.revision =>
    \A f \in Field : asked[f] \in {Nothing, runner.fields[f]}

\* Export gives the file the runner will have once it has taken what is
\* saved for it (registry.js, exportClientConfig), unless it is about to
\* report a changed file itself.
ExportIsWhatWillRun ==
  /\ configRow.applied = runner.applied
  /\ ~runner.restarting
  /\ runner.joins \/ TakesFile
  => Exported = LET pending == PendingConfig
                IN IF pending = Nothing
                   THEN [fields |-> runner.fields, section |-> runner.section]
                   ELSE [fields |-> Over(pending.fields, runner.fields),
                         section |-> pending.section]

\* The labels and groups jobs are matched against are those in the runner's
\* file, once it runs that file and has refused nothing.
MatchedAsConfigured ==
  /\ configRow.applied = configRow.revision
  /\ runner.joins /\ ~runner.restarting /\ ~runner.refused
  /\ configRow.applied = runner.applied
  => configRow.live = runner.fields

\* Saving labels or groups, with no other revision on its way, sends the
\* runner the devices it has, also those changed on its host since they were
\* saved last ("sending it would undo what changed there since", registry.js,
\* above currentSection).  Until the runner has started again with a changed
\* file nobody has told the Coordinator of it, and this fails.
FieldSaveKeepsDevices ==
  [][\A f \in Field, v \in Value :
       /\ SaveField(f, v)
       /\ configRow.applied = configRow.revision
       /\ ~runner.restarting
       => configRow'.desired = runner.section]_configVars
=============================================================================
