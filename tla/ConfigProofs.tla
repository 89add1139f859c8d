---------------------------- MODULE ConfigProofs ----------------------------
(* Proofs about RunnerConfig, for any sections, fields, values and number   *)
(* of revisions.                                                            *)
(*                                                                          *)
(* A value saved on a tab is either on its way (OnItsWay), in an import the *)
(* runner has not taken, or it is in the file (InTheFile), and no import    *)
(* that may be sent again says otherwise.                                   *)
EXTENDS RunnerConfig, TLAPS

RowType == [desired  : Section \cup {Nothing},
            revision : Revisions,
            applied  : Revisions,
            error    : BOOLEAN,
            import   : Import \cup {Nothing},
            section  : Section,
            file     : [Field -> Value] \cup {Nothing},
            live     : [Field -> Value]]
RunnerType == [section    : Section,
               fields     : [Field -> Value],
               applied    : Revisions,
               refused    : BOOLEAN,
               old        : BOOLEAN,
               joins      : BOOLEAN,
               restarting : BOOLEAN]

\* A value that is in the fields still to be sent.
OnItsWay(f) == /\ configRow.import # Nothing
               /\ configRow.import.revision > runner.applied
               /\ f \in DOMAIN configRow.import.fields
               /\ configRow.import.fields[f] = asked[f]

\* A value that has arrived, and that nothing sent again would change.
InTheFile(f) == /\ runner.fields[f] = asked[f]
                /\ f \in DOMAIN PendingImport => PendingImport[f] = asked[f]

\* Revisions go from the row to a reply to the runner and back to the row.
RevisionsInv ==
  /\ configRow.applied <= runner.applied /\ runner.applied <= configRow.revision
  /\ configRow.import # Nothing => configRow.import.revision <= configRow.revision
  /\ configReply # Nothing => /\ configRow.applied = runner.applied
                              /\ runner.applied < configReply.revision
                              /\ configReply.revision <= configRow.revision

\* Only a runner that reports its file is asked for other fields.
FileInv == /\ TakesFile => ~runner.old
           /\ ~TakesFile => configRow.import = Nothing /\ \A f \in Field : asked[f] = Nothing

ReplyInv ==
  configReply # Nothing =>
    \A f \in Field : asked[f] # Nothing =>
      /\ f \in DOMAIN configReply.fields => OnItsWay(f)
      /\ OnItsWay(f) /\ configRow.import.revision <= configReply.revision =>
           f \in DOMAIN configReply.fields /\ configReply.fields[f] = asked[f]

FieldsInv == \A f \in Field : asked[f] # Nothing => OnItsWay(f) \/ InTheFile(f)

\* What a runner that runs its file has reported of it.
StartedInv ==
  ~runner.restarting =>
    /\ configRow.section = runner.section
    /\ TakesFile => configRow.file = runner.fields
    /\ runner.joins /\ ~TakesFile => configRow.live = runner.fields
    /\ runner.joins /\ ~runner.refused /\ configRow.revision = runner.applied =>
         configRow.live = runner.fields

\* The inductive invariant.
ConfigInv == ConfigTypeOK /\ RevisionsInv /\ FileInv /\ ReplyInv /\ FieldsInv /\ StartedInv

-----------------------------------------------------------------------------

\* The invariant's types.
LEMMA Types ==
  ASSUME ConfigTypeOK
  PROVE  /\ configRow \in RowType /\ runner \in RunnerType
         /\ configReply # Nothing => configReply \in Reply
         /\ asked \in [Field -> Value \cup {Nothing}]
         /\ configRow.desired = Nothing <=> configRow.revision = 0
BY DEF ConfigTypeOK, RowType, Reply, RunnerType

LEMMA TypesNext ==
  ASSUME configRow' \in RowType, runner' \in RunnerType,
         configReply' = Nothing \/ configReply' \in Reply,
         asked' \in [Field -> Value \cup {Nothing}],
         configRow'.desired = Nothing <=> configRow'.revision = 0
  PROVE  ConfigTypeOK'
BY DEF ConfigTypeOK, RowType, Reply, RunnerType

\* Partial files, and one laid over another.
LEMMA FieldsAre ==
  ASSUME NEW x \in Fields
  PROVE  /\ DOMAIN x \subseteq Field /\ \A f \in DOMAIN x : x[f] \in Value
BY DEF Fields

LEMMA OverFields ==
  ASSUME NEW x \in Fields, NEW y \in Fields
  PROVE  /\ Over(x, y) \in Fields
         /\ DOMAIN Over(x, y) = DOMAIN x \cup DOMAIN y
         /\ \A f \in DOMAIN x : Over(x, y)[f] = x[f]
         /\ \A f \in DOMAIN y \ DOMAIN x : Over(x, y)[f] = y[f]
<1> DEFINE F == DOMAIN x \cup DOMAIN y
<1>1. F \subseteq Field /\ Over(x, y) \in [F -> Value]
  BY FieldsAre DEF Over
<1>2. Over(x, y) \in Fields
  BY <1>1 DEF Fields
<1> QED
  BY <1>2 DEF Over

LEMMA OverFile ==
  ASSUME NEW x \in Fields, NEW y \in [Field -> Value]
  PROVE  /\ Over(x, y) \in [Field -> Value]
         /\ \A f \in Field : Over(x, y)[f] = IF f \in DOMAIN x THEN x[f] ELSE y[f]
<1>1. DOMAIN x \subseteq Field /\ \A f \in DOMAIN x : x[f] \in Value
  BY FieldsAre
<1>2. Over(x, y) = [f \in Field |-> IF f \in DOMAIN x THEN x[f] ELSE y[f]]
  BY <1>1 DEF Over
<1> QED
  BY <1>1, <1>2

LEMMA NoFieldsIs == NoFields \in Fields /\ DOMAIN NoFields = {}
<1>1. NoFields \in [{} -> Value] /\ {} \in SUBSET Field /\ DOMAIN NoFields = {}
  BY DEF NoFields
<1> QED
  BY <1>1 DEF Fields

LEMMA OneField ==
  ASSUME NEW f \in Field, NEW v \in Value
  PROVE  [g \in {f} |-> v] \in Fields
<1>1. [g \in {f} |-> v] \in [{f} -> Value] /\ {f} \in SUBSET Field
  OBVIOUS
<1> QED
  BY <1>1 DEF Fields

LEMMA PendingImportIs ==
  ASSUME ConfigTypeOK
  PROVE  /\ PendingImport \in Fields
         /\ IF configRow.import # Nothing /\ configRow.import.revision > configRow.applied
            THEN PendingImport = configRow.import.fields ELSE DOMAIN PendingImport = {}
BY Types, NoFieldsIs DEF PendingImport, RowType, Import

\* What is on its way is sent along with a revision.
LEMMA PendingOnItsWay ==
  ASSUME ConfigTypeOK, RevisionsInv, NEW f \in Field, OnItsWay(f)
  PROVE  f \in DOMAIN PendingImport /\ PendingImport[f] = asked[f]
BY Types, PendingImportIs DEF RevisionsInv, OnItsWay, RowType, RunnerType, Revisions, Import

LEMMA CurrentSectionIs ==
  ASSUME ConfigTypeOK
  PROVE  CurrentSection \in Section
BY Types DEF CurrentSection, RowType

\* ConfigInv holds when the runner is new.
LEMMA ConfigInvInit == ConfigInit => ConfigInv
<1> SUFFICES ASSUME ConfigInit PROVE ConfigInv
  OBVIOUS
<1>1. PICK s \in Section, v \in Value, joins \in BOOLEAN, old \in BOOLEAN :
        LET fields == [f \in Field |-> v]
        IN /\ configRow = [desired |-> Nothing, revision |-> 0, applied |-> 0,
                           error |-> FALSE, import |-> Nothing, section |-> s,
                           file |-> IF old THEN Nothing ELSE fields, live |-> fields]
           /\ runner = [section |-> s, fields |-> fields, applied |-> 0,
                        refused |-> FALSE, old |-> old, joins |-> joins,
                        restarting |-> FALSE]
  BY DEF ConfigInit
<1>2. configReply = Nothing /\ asked = [f \in Field |-> Nothing]
  BY DEF ConfigInit
<1>3. ConfigTypeOK
  BY <1>1, <1>2, ConfigAssumption DEF ConfigTypeOK, Revisions, Import
<1>4. RevisionsInv /\ ReplyInv /\ FieldsInv
  BY <1>1, <1>2 DEF RevisionsInv, ReplyInv, FieldsInv
<1>5. FileInv
  BY <1>1, <1>2 DEF FileInv, TakesFile
<1>6. StartedInv
  BY <1>1 DEF StartedInv, TakesFile
<1> QED
  BY <1>3, <1>4, <1>5, <1>6 DEF ConfigInv

-----------------------------------------------------------------------------
(* The dashboard *)

\* A revision of the section leaves the other fields alone.
LEMMA SaveSectionKeeps ==
  ASSUME ConfigInv, NEW s \in Section, SaveSection(s)
  PROVE  ConfigInv'
<1>1. /\ configRow' = [configRow EXCEPT !.desired = s, !.revision = @ + 1, !.error = FALSE]
      /\ configRow.revision < MaxRevision
      /\ UNCHANGED <<configReply, runner, asked>>
  BY DEF SaveSection
<1>2. ConfigTypeOK
  BY DEF ConfigInv
<1>0. configRow.revision + 1 \in Revisions
  BY <1>1, <1>2, Types, ConfigAssumption DEF RowType, Revisions, Import
<1>3. /\ configRow' \in RowType /\ configRow'.revision = configRow.revision + 1
      /\ configRow'.desired = s /\ configRow'.applied = configRow.applied
      /\ configRow'.import = configRow.import /\ configRow'.section = configRow.section
      /\ configRow'.file = configRow.file /\ configRow'.live = configRow.live
  BY <1>0, <1>1, <1>2, Types DEF RowType
<1>4. configRow.revision \in Nat /\ runner.applied \in Nat /\ s # Nothing
  BY <1>2, Types, ConfigAssumption DEF RowType, RunnerType, Revisions, Import
<1>5. ConfigTypeOK'
  BY <1>1, <1>2, <1>3, <1>4, Types, TypesNext
<1>6. RevisionsInv'
  BY <1>1, <1>3, <1>4, <1>2, Types
     DEF ConfigInv, RevisionsInv, RowType, Reply, Revisions, Import
<1>7. FileInv'
  BY <1>1, <1>3 DEF ConfigInv, FileInv, TakesFile
<1>8. PendingImport' = PendingImport
  BY <1>3 DEF PendingImport
<1>9. ReplyInv' /\ FieldsInv'
  BY <1>1, <1>3, <1>8 DEF ConfigInv, ReplyInv, FieldsInv, OnItsWay, InTheFile
<1>10. StartedInv'
  BY <1>1, <1>3, <1>4 DEF ConfigInv, StartedInv, TakesFile, RevisionsInv
<1> QED
  BY <1>5, <1>6, <1>7, <1>9, <1>10 DEF ConfigInv

\* A revision with other fields replaces those on their way: it carries them
\* along, or nobody asks for them any more.
LEMMA ImportKeeps ==
  ASSUME ConfigInv, TakesFile, NEW fields \in Fields, configRow.revision < MaxRevision,
         UNCHANGED <<configReply, runner>>,
         configRow' \in RowType,
         configRow'.desired # Nothing, configRow'.revision = configRow.revision + 1,
         configRow'.applied = configRow.applied,
         configRow'.import = [revision |-> configRow.revision + 1, fields |-> fields],
         configRow'.section = configRow.section, configRow'.file = configRow.file,
         asked' \in [Field -> Value \cup {Nothing}],
         \A f \in Field :
           IF f \in DOMAIN fields
           THEN asked'[f] \in {fields[f], Nothing}
           ELSE asked'[f] = Nothing \/ (asked'[f] = asked[f] /\ f \notin DOMAIN PendingImport)
  PROVE  ConfigInv'
<1>2. ConfigTypeOK
  BY DEF ConfigInv
<1>4. configRow.revision \in Nat /\ runner.applied \in Nat /\ runner.applied <= configRow.revision
  BY <1>2, Types, ConfigAssumption DEF RowType, RunnerType, Revisions, ConfigInv, RevisionsInv, Import
<1>5. ConfigTypeOK'
  BY <1>2, <1>4, Types, TypesNext
<1>6. RevisionsInv'
  BY <1>4, <1>2, Types DEF ConfigInv, RevisionsInv, RowType, Reply, Revisions, Import
<1>7. FileInv'
  BY DEF ConfigInv, FileInv, TakesFile
<1>8. ASSUME NEW f \in Field, asked'[f] # Nothing, f \in DOMAIN fields
      PROVE  OnItsWay(f)'
  <2>1. configRow.revision + 1 \in Revisions
    BY <1>4, ConfigAssumption DEF Revisions
  <2>2. configRow'.import \in Import
    BY <2>1 DEF Import
  <2>3. /\ configRow'.import # Nothing /\ configRow'.import.revision = configRow.revision + 1
        /\ configRow'.import.fields = fields
    BY <2>2, ConfigAssumption
  <2> QED
    BY <1>4, <1>8, <2>3 DEF OnItsWay
<1>9. ASSUME NEW f \in Field, asked'[f] # Nothing, f \notin DOMAIN fields
      PROVE  asked'[f] = asked[f] /\ ~OnItsWay(f)
  <2>1. asked'[f] = asked[f] /\ f \notin DOMAIN PendingImport
    BY <1>9
  <2> QED
    BY <2>1, <1>2, PendingOnItsWay DEF ConfigInv
<1>10. ReplyInv'
  <2> SUFFICES ASSUME configReply # Nothing, NEW f \in Field, asked'[f] # Nothing
               PROVE  /\ f \in DOMAIN configReply.fields => OnItsWay(f)'
                      /\ ~(configRow'.import.revision <= configReply.revision)
    BY DEF ReplyInv
  <2>1. ~(configRow'.import.revision <= configReply.revision)
    BY <1>2, <1>4, Types DEF ConfigInv, RevisionsInv, Reply, Revisions, Import
  <2>2. CASE f \in DOMAIN fields
    BY <1>8, <2>1, <2>2
  <2>3. CASE f \notin DOMAIN fields
    BY <1>9, <2>1, <2>3 DEF ConfigInv, ReplyInv
  <2> QED
    BY <2>2, <2>3
<1>11. FieldsInv'
  <2> SUFFICES ASSUME NEW f \in Field, asked'[f] # Nothing
               PROVE  OnItsWay(f)' \/ InTheFile(f)'
    BY DEF FieldsInv
  <2>1. CASE f \in DOMAIN fields
    BY <1>8, <2>1
  <2>2. CASE f \notin DOMAIN fields
    <3>1. asked'[f] = asked[f] /\ InTheFile(f)
      BY <1>9, <2>2 DEF ConfigInv, FieldsInv
    <3>2. f \notin DOMAIN PendingImport'
      BY <2>2, NoFieldsIs DEF PendingImport
    <3> QED
      BY <3>1, <3>2 DEF InTheFile
  <2> QED
    BY <2>1, <2>2
<1>12. StartedInv'
  BY <1>4 DEF ConfigInv, StartedInv, TakesFile
<1> QED
  BY <1>5, <1>6, <1>7, <1>10, <1>11, <1>12 DEF ConfigInv

LEMMA SaveFieldKeeps ==
  ASSUME ConfigInv, NEW f \in Field, NEW v \in Value, SaveField(f, v)
  PROVE  ConfigInv'
<1> DEFINE one    == [g \in {f} |-> v]
           fields == Over(one, PendingImport)
<1>1. /\ configRow' = [configRow EXCEPT
           !.desired = CurrentSection, !.revision = @ + 1, !.error = FALSE,
           !.import = [revision |-> configRow.revision + 1, fields |-> fields],
           !.live[f] = v]
      /\ configRow.revision < MaxRevision /\ TakesFile
      /\ asked' = [asked EXCEPT ![f] = v] /\ UNCHANGED <<configReply, runner>>
  BY DEF SaveField
<1>2. ConfigTypeOK
  BY DEF ConfigInv
<1>3. /\ one \in Fields /\ DOMAIN one = {f} /\ one[f] = v
  BY OneField
<1> HIDE DEF one
<1>4. /\ fields \in Fields /\ DOMAIN fields = {f} \cup DOMAIN PendingImport
      /\ fields[f] = v /\ \A g \in DOMAIN PendingImport \ {f} : fields[g] = PendingImport[g]
  <2>1. PendingImport \in Fields
    BY <1>2, PendingImportIs
  <2>2. /\ fields \in Fields /\ DOMAIN fields = DOMAIN one \cup DOMAIN PendingImport
        /\ \A g \in DOMAIN one : fields[g] = one[g]
        /\ \A g \in DOMAIN PendingImport \ DOMAIN one : fields[g] = PendingImport[g]
    BY <1>3, <2>1, OverFields
  <2> QED
    BY <1>3, <2>2
<1> HIDE DEF fields
<1>5. CurrentSection \in Section /\ CurrentSection # Nothing
  BY <1>2, CurrentSectionIs, ConfigAssumption
<1>0. configRow.revision + 1 \in Revisions
  BY <1>1, <1>2, Types, ConfigAssumption DEF RowType, Revisions, Import
<1>6. [revision |-> configRow.revision + 1, fields |-> fields] \in Import
  BY <1>0, <1>4 DEF Import
<1>7. /\ configRow' \in RowType
      /\ configRow'.desired # Nothing /\ configRow'.revision = configRow.revision + 1
      /\ configRow'.applied = configRow.applied
      /\ configRow'.import = [revision |-> configRow.revision + 1, fields |-> fields]
      /\ configRow'.section = configRow.section /\ configRow'.file = configRow.file
  BY <1>0, <1>1, <1>2, <1>5, <1>6, Types DEF RowType
<1>8. asked' \in [Field -> Value \cup {Nothing}]
  BY <1>1, <1>2, Types
<1>9. ASSUME NEW g \in Field
      PROVE  IF g \in DOMAIN fields
             THEN asked'[g] = fields[g] \/ asked'[g] = Nothing
             ELSE asked'[g] = asked[g] /\ g \notin DOMAIN PendingImport
  <2>1. CASE g = f
    BY <1>1, <1>2, <1>4, <2>1, Types
  <2>2. CASE g # f /\ g \in DOMAIN PendingImport /\ asked[g] # Nothing
    <3>1. PendingImport[g] = asked[g]
      BY <1>2, <2>2, PendingOnItsWay DEF ConfigInv, FieldsInv, InTheFile
    <3> QED
      BY <1>1, <1>2, <1>4, <2>2, <3>1, Types
  <2>3. CASE g # f /\ ~(g \in DOMAIN PendingImport /\ asked[g] # Nothing)
    BY <1>1, <1>2, <1>4, <2>3, Types
  <2> QED
    BY <2>1, <2>2, <2>3
<1> QED
  BY <1>1, <1>4, <1>7, <1>8, <1>9, ImportKeeps

LEMMA ImportFileKeeps ==
  ASSUME ConfigInv, NEW s \in Section \cup {Nothing}, NEW fields \in Fields, ImportFile(s, fields)
  PROVE  ConfigInv'
<1> DEFINE desired == IF s = Nothing THEN CurrentSection ELSE s
           import  == IF TakesFile THEN [revision |-> configRow.revision + 1, fields |-> fields]
                                   ELSE Nothing
<1>1. /\ configRow' = [configRow EXCEPT !.desired = desired, !.revision = @ + 1,
                                        !.error = FALSE, !.import = import]
      /\ configRow.revision < MaxRevision /\ UNCHANGED <<configReply, runner>>
      /\ asked' = [f \in Field |-> IF ~TakesFile THEN asked[f]
                                   ELSE IF f \in DOMAIN fields THEN fields[f]
                                   ELSE IF f \in DOMAIN PendingImport THEN Nothing
                                   ELSE asked[f]]
  BY DEF ImportFile
<1>2. ConfigTypeOK
  BY DEF ConfigInv
<1>3. desired \in Section /\ desired # Nothing
  BY <1>2, CurrentSectionIs, ConfigAssumption
<1>4. configRow.revision + 1 \in Revisions /\ configRow.revision \in Nat /\ runner.applied \in Nat
  BY <1>1, <1>2, Types, ConfigAssumption DEF RowType, RunnerType, Revisions, Import
<1>5. import \in Import \cup {Nothing}
  BY <1>4 DEF Import
<1> HIDE DEF desired, import
<1>6. /\ configRow' \in RowType
      /\ configRow'.desired # Nothing /\ configRow'.revision = configRow.revision + 1
      /\ configRow'.applied = configRow.applied /\ configRow'.import = import
      /\ configRow'.section = configRow.section /\ configRow'.file = configRow.file
      /\ configRow'.live = configRow.live
  BY <1>1, <1>2, <1>3, <1>4, <1>5, Types DEF RowType
<1>7. asked' \in [Field -> Value \cup {Nothing}]
  BY <1>1, <1>2, Types, FieldsAre
<1>8. CASE TakesFile
  <2>1. import = [revision |-> configRow.revision + 1, fields |-> fields]
    BY <1>8 DEF import
  <2>2. \A f \in Field : IF f \in DOMAIN fields
                         THEN asked'[f] = fields[f]
                         ELSE \/ asked'[f] = Nothing
                              \/ asked'[f] = asked[f] /\ f \notin DOMAIN PendingImport
    BY <1>1, <1>8
  <2> QED
    BY <1>1, <1>6, <1>7, <1>8, <2>1, <2>2, ImportKeeps
<1>9. CASE ~TakesFile
  <2>1. import = Nothing /\ \A f \in Field : asked'[f] = Nothing
    BY <1>1, <1>9 DEF import, ConfigInv, FileInv
  <2>2. ConfigTypeOK'
    BY <1>1, <1>2, <1>4, <1>6, <1>7, Types, TypesNext
  <2>3. RevisionsInv'
    BY <1>1, <1>2, <1>4, <1>6, <2>1, Types
       DEF ConfigInv, RevisionsInv, RowType, Reply, Revisions, Import
  <2>4. FileInv' /\ ReplyInv' /\ FieldsInv'
    BY <1>1, <1>6, <1>9, <2>1 DEF FileInv, TakesFile, ReplyInv, FieldsInv
  <2>5. StartedInv'
    BY <1>1, <1>4, <1>6, <1>9 DEF ConfigInv, StartedInv, TakesFile, RevisionsInv
  <2> QED
    BY <2>2, <2>3, <2>4, <2>5 DEF ConfigInv
<1> QED
  BY <1>8, <1>9

-----------------------------------------------------------------------------
(* The runner *)

\* The row learns what the runner holds; the reply has the fields on their
\* way.
LEMMA HeartbeatKeeps ==
  ASSUME ConfigInv, ConfigHeartbeat
  PROVE  ConfigInv'
<1>1. /\ configRow' = [configRow EXCEPT !.applied = runner.applied, !.error = runner.refused]
      /\ configReply' = PendingConfig' /\ UNCHANGED <<runner, asked>>
  BY DEF ConfigHeartbeat
<1>2. ConfigTypeOK
  BY DEF ConfigInv
<1>3. /\ configRow' \in RowType /\ configRow'.applied = runner.applied
      /\ configRow'.revision = configRow.revision /\ configRow'.desired = configRow.desired
      /\ configRow'.import = configRow.import /\ configRow'.section = configRow.section
      /\ configRow'.file = configRow.file /\ configRow'.live = configRow.live
  BY <1>1, <1>2, Types DEF RowType, RunnerType
<1>4. /\ configRow.applied \in Nat /\ runner.applied \in Nat /\ configRow.revision \in Nat
      /\ configRow.applied <= runner.applied /\ runner.applied <= configRow.revision
      /\ configRow.import # Nothing => configRow.import.revision \in Nat
  BY <1>2, Types, ConfigAssumption
     DEF RowType, RunnerType, Revisions, ConfigInv, RevisionsInv, Import
<1>5. /\ PendingImport' \in Fields
      /\ IF configRow.import # Nothing /\ configRow.import.revision > runner.applied
         THEN PendingImport' = configRow.import.fields ELSE DOMAIN PendingImport' = {}
  BY <1>2, <1>3, Types, NoFieldsIs DEF PendingImport, RowType, Import
<1>6. \/ configReply' = Nothing
      \/ /\ configReply' = [revision |-> configRow.revision, section |-> configRow.desired,
                            fields |-> PendingImport']
         /\ configRow.desired # Nothing /\ ~(runner.applied >= configRow.revision)
  BY <1>1, <1>3 DEF PendingConfig
<1>7. configReply' # Nothing =>
        /\ configReply' \in Reply /\ configReply'.revision = configRow.revision
        /\ configReply'.fields = PendingImport' /\ runner.applied < configRow.revision
  BY <1>2, <1>4, <1>5, <1>6, Types DEF Reply, RowType
<1>8. ConfigTypeOK'
  BY <1>1, <1>2, <1>3, <1>7, Types, TypesNext
<1>9. RevisionsInv'
  BY <1>1, <1>3, <1>4, <1>7 DEF ConfigInv, RevisionsInv
<1>10. FileInv' /\ StartedInv'
  BY <1>1, <1>3 DEF ConfigInv, FileInv, StartedInv, TakesFile
<1>11. \A f \in Field : OnItsWay(f)' <=> OnItsWay(f)
  BY <1>1, <1>3 DEF OnItsWay
<1>12. ASSUME NEW f \in Field, InTheFile(f)
       PROVE  /\ InTheFile(f)'
              /\ f \in DOMAIN PendingImport' => OnItsWay(f)
  <2>1. f \in DOMAIN PendingImport' =>
          /\ configRow.import # Nothing /\ configRow.import.revision > runner.applied
          /\ PendingImport' = configRow.import.fields
          /\ f \in DOMAIN PendingImport /\ PendingImport = configRow.import.fields
    BY <1>2, <1>4, <1>5, PendingImportIs
  <2> QED
    BY <1>1, <1>12, <2>1 DEF InTheFile, OnItsWay
<1>13. FieldsInv'
  BY <1>1, <1>11, <1>12 DEF ConfigInv, FieldsInv
<1>14. ReplyInv'
  <2> SUFFICES ASSUME configReply' # Nothing, NEW f \in Field, asked[f] # Nothing
               PROVE  /\ f \in DOMAIN PendingImport' => OnItsWay(f)
                      /\ OnItsWay(f) => f \in DOMAIN PendingImport' /\ PendingImport'[f] = asked[f]
    BY <1>1, <1>7, <1>11 DEF ReplyInv
  <2>1. OnItsWay(f) => f \in DOMAIN PendingImport' /\ PendingImport'[f] = asked[f]
    BY <1>5 DEF OnItsWay
  <2>2. f \in DOMAIN PendingImport' => OnItsWay(f)
    BY <1>12 DEF ConfigInv, FieldsInv
  <2> QED
    BY <2>1, <2>2
<1> QED
  BY <1>8, <1>9, <1>10, <1>13, <1>14 DEF ConfigInv

LEMMA ReplyLostKeeps ==
  ASSUME ConfigInv, ReplyLost
  PROVE  ConfigInv'
<1>1. configReply' = Nothing /\ UNCHANGED <<configRow, runner, asked>>
  BY DEF ReplyLost
<1>2. ConfigTypeOK'
  BY <1>1 DEF ConfigInv, ConfigTypeOK
<1>3. RevisionsInv' /\ FileInv' /\ ReplyInv' /\ StartedInv'
  BY <1>1 DEF ConfigInv, RevisionsInv, FileInv, ReplyInv, StartedInv, TakesFile
<1>4. FieldsInv'
  BY <1>1 DEF ConfigInv, FieldsInv, OnItsWay, InTheFile, PendingImport
<1> QED
  BY <1>2, <1>3, <1>4 DEF ConfigInv

\* The runner applies a reply, or refuses it; one it has seen changes nothing.
LEMMA TakeConfigKeeps ==
  ASSUME ConfigInv, TakeConfig
  PROVE  ConfigInv'
<1> DEFINE r == configReply.revision
<1>1. configReply # Nothing /\ configReply' = Nothing /\ UNCHANGED configRow
  BY DEF TakeConfig
<1>2. ConfigTypeOK
  BY DEF ConfigInv
<1>3. /\ r \in Revisions /\ r \in Nat /\ runner.applied < r /\ r <= configRow.revision
      /\ configRow.applied = runner.applied /\ runner.applied \in Nat
      /\ configReply.fields \in Fields /\ configReply.section \in Section
      /\ configRow.import # Nothing => configRow.import.revision \in Nat
      /\ configRow.revision \in Nat
  BY <1>1, <1>2, Types, ConfigAssumption
     DEF ConfigInv, RevisionsInv, Reply, RunnerType, RowType, Revisions, Import
<1>4. PendingImport' = PendingImport /\ TakesFile' = TakesFile
  BY <1>1 DEF PendingImport, TakesFile
<1>5. ASSUME NEW f \in Field, asked[f] # Nothing
      PROVE  /\ f \in DOMAIN configReply.fields => OnItsWay(f)
             /\ OnItsWay(f) /\ configRow.import.revision <= r =>
                  f \in DOMAIN configReply.fields /\ configReply.fields[f] = asked[f]
             /\ OnItsWay(f) \/ InTheFile(f)
             /\ OnItsWay(f) => f \in DOMAIN PendingImport /\ PendingImport[f] = asked[f]
  BY <1>1, <1>2, <1>5, PendingOnItsWay DEF ConfigInv, ReplyInv, FieldsInv
<1>6. CASE /\ runner' = [runner EXCEPT
                !.applied = r, !.refused = FALSE, !.restarting = TRUE,
                !.section = configReply.section,
                !.fields = IF runner.old THEN @ ELSE Over(configReply.fields, @)]
           /\ UNCHANGED asked
  <2> DEFINE file == IF runner.old THEN runner.fields ELSE Over(configReply.fields, runner.fields)
  <2>1. runner.fields \in [Field -> Value]
    BY <1>2, Types DEF RunnerType
  <2>2. /\ file \in [Field -> Value]
        /\ ~runner.old => \A f \in Field : file[f] = IF f \in DOMAIN configReply.fields
                                                     THEN configReply.fields[f]
                                                     ELSE runner.fields[f]
    BY <1>3, <2>1, OverFile
  <2>3. runner' = [runner EXCEPT !.applied = r, !.refused = FALSE, !.restarting = TRUE,
                                 !.section = configReply.section, !.fields = file]
    BY <1>6
  <2> HIDE DEF file, r
  <2>4. /\ runner' \in RunnerType /\ runner'.applied = r /\ runner'.restarting
        /\ runner'.fields = file /\ runner'.old = runner.old
    BY <1>2, <1>3, <2>2, <2>3, Types DEF RunnerType
  <2>5. ConfigTypeOK'
    BY <1>1, <1>2, <1>6, <2>4, Types, TypesNext
  <2>6. RevisionsInv'
    BY <1>1, <1>3, <2>4 DEF ConfigInv, RevisionsInv
  <2>7. FileInv'
    BY <1>1, <1>4, <1>6, <2>4 DEF ConfigInv, FileInv
  <2>8. ASSUME NEW f \in Field, asked[f] # Nothing
        PROVE  OnItsWay(f)' \/ InTheFile(f)'
    <3>1. file[f] = IF f \in DOMAIN configReply.fields THEN configReply.fields[f]
                    ELSE runner.fields[f]
      BY <2>2, <2>8 DEF ConfigInv, FileInv
    <3>2. CASE OnItsWay(f) /\ configRow.import.revision <= r
      BY <1>4, <1>5, <1>6, <2>4, <2>8, <3>1, <3>2 DEF InTheFile, r
    <3>3. CASE OnItsWay(f) /\ ~(configRow.import.revision <= r)
      BY <1>1, <1>3, <1>6, <2>4, <3>3 DEF OnItsWay
    <3>4. CASE ~OnItsWay(f)
      BY <1>4, <1>5, <1>6, <2>4, <2>8, <3>1, <3>4 DEF InTheFile
    <3> QED
      BY <3>2, <3>3, <3>4
  <2>9. FieldsInv' /\ ReplyInv' /\ StartedInv'
    BY <1>1, <1>6, <2>4, <2>8 DEF FieldsInv, ReplyInv, StartedInv
  <2> QED
    BY <2>5, <2>6, <2>7, <2>9 DEF ConfigInv
<1>7. CASE /\ runner' = [runner EXCEPT !.applied = r, !.refused = TRUE]
           /\ asked' = [f \in Field |-> IF f \in DOMAIN configReply.fields
                                        THEN Nothing ELSE asked[f]]
  <2> HIDE DEF r
  <2>1. /\ runner' \in RunnerType /\ runner'.applied = r /\ runner'.refused
        /\ runner'.fields = runner.fields /\ runner'.old = runner.old
        /\ runner'.section = runner.section /\ runner'.joins = runner.joins
        /\ runner'.restarting = runner.restarting
    BY <1>2, <1>3, <1>7, Types DEF RunnerType
  <2>2. ConfigTypeOK'
    <3>1. asked' \in [Field -> Value \cup {Nothing}]
      BY <1>2, <1>7, Types
    <3> QED
      BY <1>1, <1>2, <2>1, <3>1, Types, TypesNext
  <2>3. RevisionsInv'
    BY <1>1, <1>3, <2>1 DEF ConfigInv, RevisionsInv
  <2>4. FileInv'
    BY <1>1, <1>4, <1>7, <2>1 DEF ConfigInv, FileInv
  <2>5. ASSUME NEW f \in Field, asked'[f] # Nothing
        PROVE  OnItsWay(f)' \/ InTheFile(f)'
    <3>1. asked'[f] = asked[f] /\ f \notin DOMAIN configReply.fields
      BY <1>7, <2>5
    <3>2. CASE OnItsWay(f)
      <4>1. ~(configRow.import.revision <= r)
        BY <1>5, <2>5, <3>1, <3>2 DEF r
      <4> QED
        BY <1>1, <1>3, <2>1, <3>1, <3>2, <4>1 DEF OnItsWay
    <3>3. CASE ~OnItsWay(f)
      BY <1>4, <1>5, <2>1, <2>5, <3>1, <3>3 DEF InTheFile
    <3> QED
      BY <3>2, <3>3
  <2>6. FieldsInv' /\ ReplyInv'
    BY <1>1, <2>5 DEF FieldsInv, ReplyInv
  <2>7. StartedInv'
    BY <1>1, <1>4, <2>1 DEF ConfigInv, StartedInv
  <2> QED
    BY <2>2, <2>3, <2>4, <2>6, <2>7 DEF ConfigInv
<1> QED
  BY <1>3, <1>6, <1>7 DEF TakeConfig

\* The file is changed by hand: nobody is owed the value it had.
LEMMA EditFileKeeps ==
  ASSUME ConfigInv, EditFile
  PROVE  ConfigInv'
<1>1. UNCHANGED <<configRow, configReply>>
  BY DEF EditFile
<1>2. ConfigTypeOK
  BY DEF ConfigInv
<1>3. /\ runner' \in RunnerType /\ runner'.restarting /\ runner'.applied = runner.applied
      /\ runner'.old = runner.old
      /\ asked' \in [Field -> Value \cup {Nothing}]
      /\ \A f \in Field : \/ asked'[f] = Nothing
                          \/ asked'[f] = asked[f] /\ runner'.fields[f] = runner.fields[f]
  <2>1. CASE \E s \in Section :
               /\ runner' = [runner EXCEPT !.section = s, !.restarting = TRUE]
               /\ UNCHANGED asked
    BY <1>2, <2>1, Types DEF RunnerType
  <2>2. CASE \E f \in Field, v \in Value :
               /\ runner' = [runner EXCEPT !.fields[f] = v, !.restarting = TRUE]
               /\ asked' = [asked EXCEPT ![f] = Nothing]
    <3> PICK f \in Field, v \in Value :
          /\ runner' = [runner EXCEPT !.fields[f] = v, !.restarting = TRUE]
          /\ asked' = [asked EXCEPT ![f] = Nothing]
      BY <2>2
    <3>1. /\ runner' \in RunnerType /\ runner'.restarting /\ runner'.applied = runner.applied
          /\ runner'.old = runner.old
          /\ \A g \in Field \ {f} : runner'.fields[g] = runner.fields[g]
      BY <1>2, Types DEF RunnerType
    <3>2. /\ asked' \in [Field -> Value \cup {Nothing}] /\ asked'[f] = Nothing
          /\ \A g \in Field \ {f} : asked'[g] = asked[g]
      BY <1>2, Types
    <3> QED
      BY <3>1, <3>2
  <2> QED
    BY <2>1, <2>2 DEF EditFile
<1>4. ConfigTypeOK'
  <2>1. configReply' = Nothing \/ configReply' \in Reply
    BY <1>1, <1>2, Types
  <2> QED
    BY <1>1, <1>2, <1>3, <2>1, Types, TypesNext
<1>5. PendingImport' = PendingImport /\ TakesFile' = TakesFile
  BY <1>1 DEF PendingImport, TakesFile
<1>6. RevisionsInv' /\ StartedInv'
  BY <1>1, <1>3 DEF ConfigInv, RevisionsInv, StartedInv
<1>7. FileInv'
  BY <1>1, <1>3, <1>5 DEF ConfigInv, FileInv
<1>8. \A f \in Field : asked'[f] # Nothing => /\ asked'[f] = asked[f]
                                              /\ OnItsWay(f)' <=> OnItsWay(f)
  BY <1>1, <1>3 DEF OnItsWay
<1>9. ReplyInv' /\ FieldsInv'
  BY <1>1, <1>3, <1>5, <1>8 DEF ConfigInv, ReplyInv, FieldsInv, InTheFile
<1> QED
  BY <1>4, <1>6, <1>7, <1>9 DEF ConfigInv

\* The runner starts and reports its file.
LEMMA StartRunnerKeeps ==
  ASSUME ConfigInv, StartRunner
  PROVE  ConfigInv'
<1>1. PICK old \in {runner.old, FALSE} :
        /\ Reported(old)
        /\ runner' = [runner EXCEPT !.old = old, !.restarting = FALSE]
  BY DEF StartRunner
<1>2. ConfigTypeOK /\ configReply' = Nothing /\ UNCHANGED asked
  BY DEF ConfigInv, StartRunner
<1>3. /\ runner' \in RunnerType /\ runner'.applied = runner.applied /\ runner'.old = old
      /\ runner'.fields = runner.fields /\ runner'.section = runner.section
      /\ runner'.joins = runner.joins
  BY <1>1, <1>2, Types DEF RunnerType
<1>4. /\ configRow' \in RowType /\ configRow'.applied = configRow.applied
      /\ configRow'.revision = configRow.revision /\ configRow'.desired = configRow.desired
      /\ configRow'.import = configRow.import /\ configRow'.section = runner.section
      /\ configRow'.file = IF old THEN configRow.file ELSE runner.fields
      /\ configRow'.live = IF runner.joins THEN runner.fields ELSE configRow.live
  <2>1. configRow' = [configRow EXCEPT
          !.section = runner.section,
          !.file = IF old THEN configRow.file ELSE runner.fields,
          !.live = IF runner.joins THEN runner.fields ELSE configRow.live]
    BY <1>1 DEF Reported
  <2> QED
    BY <1>2, <2>1, Types DEF RowType, RunnerType
<1>5. ConfigTypeOK'
  BY <1>2, <1>3, <1>4, Types, TypesNext
<1>6. RevisionsInv' /\ ReplyInv'
  BY <1>2, <1>3, <1>4 DEF ConfigInv, RevisionsInv, ReplyInv
<1>7. runner.fields # Nothing
  BY <1>2, Types, ConfigAssumption DEF RunnerType
<1>8. TakesFile => ~old
  BY DEF ConfigInv, FileInv
<1>9. FileInv'
  BY <1>2, <1>3, <1>4, <1>7, <1>8 DEF ConfigInv, FileInv, TakesFile
<1>10. PendingImport' = PendingImport
  BY <1>4 DEF PendingImport
<1>11. FieldsInv'
  BY <1>2, <1>3, <1>4, <1>10 DEF ConfigInv, FieldsInv, OnItsWay, InTheFile
<1>12. StartedInv'
  BY <1>3, <1>4, <1>8 DEF StartedInv, TakesFile
<1> QED
  BY <1>5, <1>6, <1>9, <1>11, <1>12 DEF ConfigInv

-----------------------------------------------------------------------------

\* ConfigInv holds in every reachable state.
THEOREM ConfigInvariant == ConfigSpec => []ConfigInv
<1>1. ASSUME ConfigInv, UNCHANGED configVars PROVE ConfigInv'
  <2>1. ConfigTypeOK' /\ RevisionsInv' /\ FileInv' /\ StartedInv'
    BY <1>1 DEF configVars, ConfigInv, ConfigTypeOK, RevisionsInv, FileInv, StartedInv, TakesFile
  <2>2. ReplyInv' /\ FieldsInv'
    BY <1>1 DEF configVars, ConfigInv, ReplyInv, FieldsInv, OnItsWay, InTheFile, PendingImport
  <2> QED
    BY <2>1, <2>2 DEF ConfigInv
<1>2. ASSUME ConfigInv, ConfigNext PROVE ConfigInv'
  BY <1>2, SaveSectionKeeps, SaveFieldKeeps, ImportFileKeeps, HeartbeatKeeps, ReplyLostKeeps,
     TakeConfigKeeps, EditFileKeeps, StartRunnerKeeps DEF ConfigNext
<1> QED
  BY <1>1, <1>2, ConfigInvInit, PTL DEF ConfigSpec

\* Type correctness.
THEOREM ConfigTypeCorrect == ConfigSpec => []ConfigTypeOK
<1>1. ConfigInv => ConfigTypeOK
  BY DEF ConfigInv
<1> QED
  BY <1>1, ConfigInvariant, PTL

\* A label or group saved on its tab reaches the runner's file, whatever is
\* saved, imported, lost or restarted in between.
THEOREM SavedFieldsArrive == ConfigSpec => []FieldsReachTheRunner
<1>1. ConfigInv => FieldsReachTheRunner
  <2> SUFFICES ASSUME ConfigInv, configRow.applied = configRow.revision, NEW f \in Field,
                      asked[f] # Nothing
               PROVE  asked[f] = runner.fields[f]
    BY DEF FieldsReachTheRunner
  <2>1. ConfigTypeOK /\ RevisionsInv /\ (OnItsWay(f) \/ InTheFile(f))
    BY DEF ConfigInv, FieldsInv
  <2>2. ~OnItsWay(f)
    BY <2>1, Types, ConfigAssumption
       DEF RevisionsInv, OnItsWay, RowType, RunnerType, Revisions, Import
  <2> QED
    BY <2>1, <2>2 DEF InTheFile
<1> QED
  BY <1>1, ConfigInvariant, PTL

\* Export gives the file the runner will have.
THEOREM ExportsAreTrue == ConfigSpec => []ExportIsWhatWillRun
<1>1. ConfigInv => ExportIsWhatWillRun
  <2> SUFFICES ASSUME ConfigInv, configRow.applied = runner.applied, ~runner.restarting,
                      runner.joins \/ TakesFile
               PROVE  Exported = LET pending == PendingConfig
                                 IN IF pending = Nothing
                                    THEN [fields |-> runner.fields, section |-> runner.section]
                                    ELSE [fields |-> Over(pending.fields, runner.fields),
                                          section |-> pending.section]
    BY DEF ExportIsWhatWillRun
  <2> DEFINE asSent == [revision |-> configRow.revision, section |-> configRow.desired,
                        fields |-> PendingImport]
             sent   == configRow.desired # Nothing /\ configRow.applied < configRow.revision
  <2>1. ConfigTypeOK /\ RevisionsInv /\ StartedInv
    BY DEF ConfigInv
  <2>2. /\ configRow.applied \in Nat /\ configRow.revision \in Nat
        /\ configRow.applied <= configRow.revision
        /\ configRow.import # Nothing => configRow.import.revision \in Nat
        /\ runner.fields \in [Field -> Value]
    BY <2>1, Types, ConfigAssumption DEF RevisionsInv, RowType, RunnerType, Revisions, Import
  <2>3. Exported = [fields |-> Over(PendingImport, runner.fields), section |-> CurrentSection]
    BY <2>1 DEF Exported, StartedInv
  <2>4. CASE sent
    <3>1. PendingConfig = asSent /\ CurrentSection = configRow.desired
      BY <2>2, <2>4 DEF PendingConfig, CurrentSection
    <3>2. asSent \in Reply
      BY <2>1, <2>4, Types, PendingImportIs DEF Reply, RowType
    <3>3. asSent # Nothing /\ asSent.fields = PendingImport /\ asSent.section = configRow.desired
      BY <3>2, ConfigAssumption
    <3> HIDE DEF asSent
    <3> QED
      BY <2>3, <3>1, <3>3
  <2>5. CASE ~sent
    <3>1. PendingConfig = Nothing /\ CurrentSection = runner.section
      BY <2>1, <2>2, <2>5 DEF PendingConfig, CurrentSection, StartedInv
    <3>2. configRow.revision <= configRow.applied
      BY <2>1, <2>2, <2>5, Types
    <3>3. PendingImport \in Fields /\ DOMAIN PendingImport = {}
      BY <2>1, <2>2, <3>2, PendingImportIs DEF RevisionsInv
    <3>4. Over(PendingImport, runner.fields) = runner.fields
      BY <2>2, <3>3 DEF Over
    <3> QED
      BY <2>3, <3>1, <3>4
  <2> QED
    BY <2>4, <2>5
<1> QED
  BY <1>1, ConfigInvariant, PTL

\* Jobs are matched against the labels and groups in the runner's file.
THEOREM MatchedByTheFile == ConfigSpec => []MatchedAsConfigured
<1>1. ConfigInv => MatchedAsConfigured
  BY DEF ConfigInv, StartedInv, MatchedAsConfigured
<1> QED
  BY <1>1, ConfigInvariant, PTL

\* A revision that only changes labels or groups has the runner's devices.
THEOREM DevicesAreKept == ConfigSpec => FieldSaveKeepsDevices
<1>1. ASSUME ConfigInv, NEW f \in Field, NEW v \in Value, SaveField(f, v),
             configRow.applied = configRow.revision, ~runner.restarting
      PROVE  configRow'.desired = runner.section
  <2>1. configRow.revision \in Nat /\ configRow \in RowType
    BY <1>1, Types, ConfigAssumption DEF ConfigInv, RowType, Revisions
  <2>2. CurrentSection = runner.section
    BY <1>1, <2>1 DEF ConfigInv, StartedInv, CurrentSection
  <2>3. configRow'.desired = CurrentSection
    BY <1>1, <2>1 DEF SaveField, RowType
  <2> QED
    BY <2>2, <2>3
<1>2. ASSUME ConfigInv, [ConfigNext]_configVars
      PROVE  [\A f \in Field, v \in Value :
                /\ SaveField(f, v)
                /\ configRow.applied = configRow.revision
                /\ ~runner.restarting
                => configRow'.desired = runner.section]_configVars
  BY <1>1, <1>2
<1> QED
  BY <1>2, ConfigInvariant, PTL DEF ConfigSpec, FieldSaveKeepsDevices

\* The safety of Delivery: revisions are saved one by one, the runner only
\* moves to a newer one, and the Coordinator learns which.
THEOREM RevisionsInOrder == ConfigSpec => D!DeliveryInit /\ [][D!DeliveryNext]_D!deliveryVars
<1>1. ConfigInit => D!DeliveryInit
  BY DEF ConfigInit, D!DeliveryInit
<1>2. ASSUME ConfigInv, [ConfigNext]_configVars
      PROVE  [D!DeliveryNext]_D!deliveryVars
  <2> DEFINE Same == UNCHANGED <<configRow.revision, runner.applied, configRow.applied>>
  <2>1. ConfigTypeOK /\ configRow \in RowType /\ runner \in RunnerType
    BY <1>2, Types DEF ConfigInv
  <2>2. CASE \/ \E s \in Section : SaveSection(s)
             \/ \E f \in Field, v \in Value : SaveField(f, v)
             \/ \E s \in Section \cup {Nothing}, fields \in Fields : ImportFile(s, fields)
    <3>1. /\ configRow'.revision = configRow.revision + 1
          /\ configRow'.applied = configRow.applied /\ runner' = runner
      BY <2>1, <2>2 DEF SaveSection, SaveField, ImportFile, RowType
    <3> QED
      BY <3>1 DEF D!DeliveryNext, D!Save
  <2>3. CASE ConfigHeartbeat
    <3>1. /\ configRow'.revision = configRow.revision
          /\ configRow'.applied = runner.applied /\ runner' = runner
      BY <2>1, <2>3 DEF ConfigHeartbeat, RowType
    <3> QED
      BY <3>1 DEF D!DeliveryNext, D!Learn, D!deliveryVars
  <2>4. CASE TakeConfig
    <3>1. configReply # Nothing /\ configReply \in Reply /\ UNCHANGED configRow
      BY <2>1, <2>4, Types DEF TakeConfig
    <3>2. /\ runner.applied < configReply.revision /\ configReply.revision <= configRow.revision
          /\ runner.applied \in Nat /\ configReply.revision \in Nat /\ configRow.revision \in Nat
      BY <1>2, <2>1, <3>1, ConfigAssumption
         DEF ConfigInv, RevisionsInv, Reply, RowType, RunnerType, Revisions
    <3> DEFINE r    == configReply.revision
               file == IF runner.old THEN runner.fields
                       ELSE Over(configReply.fields, runner.fields)
    <3>3. \/ runner' = [runner EXCEPT !.applied = r, !.refused = FALSE, !.restarting = TRUE,
                                      !.section = configReply.section, !.fields = file]
          \/ runner' = [runner EXCEPT !.applied = r, !.refused = TRUE]
      BY <2>4, <3>2 DEF TakeConfig
    <3>4. runner'.applied = r
      <4> HIDE DEF r, file
      <4> QED
        BY <2>1, <3>3 DEF RunnerType
    <3> QED
      BY <3>1, <3>2, <3>4 DEF D!DeliveryNext, D!Take
  <2>5. CASE ReplyLost \/ EditFile \/ StartRunner \/ UNCHANGED configVars
    <3>1. /\ configRow'.revision = configRow.revision
          /\ configRow'.applied = configRow.applied
      BY <2>1, <2>5 DEF ReplyLost, EditFile, StartRunner, Reported, configVars, RowType
    <3>2. runner'.applied = runner.applied
      BY <2>1, <2>5 DEF ReplyLost, EditFile, StartRunner, configVars, RunnerType
    <3> QED
      BY <3>1, <3>2 DEF D!deliveryVars
  <2> QED
    BY <1>2, <2>2, <2>3, <2>4, <2>5 DEF ConfigNext
<1> QED
  BY <1>1, <1>2, ConfigInvariant, PTL DEF ConfigSpec
=============================================================================
