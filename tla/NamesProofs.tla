---------------------------- MODULE NamesProofs -----------------------------
(* Proofs about Names, for any rows, runners and names; about a pass of the *)
(* scheduler; and about the parts side by side.                             *)
(*                                                                          *)
(* A row is always called by a name somebody asked for, or by its own stale *)
(* name; with that, freeing the name of an abandoned row cannot collide     *)
(* with anything.                                                           *)
(*                                                                          *)
(* The second part is about SchedulerPass, for any jobs, targets and        *)
(* benches: what was picked is fair to every job that had its turn          *)
(* (FairSoFar), and the rest of the queue comes after all of those.         *)
(*                                                                          *)
(* The last part puts the invariants of the nine parts that MCHolds         *)
(* composes together: a step of the composition is a step of one part, and  *)
(* the invariants of the others only speak of variables it leaves alone.    *)
EXTENDS MCHolds, AccountsProofs, SettingsProofs, OrdersProofs, TLAPS

RowType(r) == [status   : {"absent", "live", "out"},
               client   : Client \cup {NoName},
               name     : Name \cup {NoName, Stale(r)},
               override : Name \cup {NoName},
               reported : Name \cup {NoName}]

IsTable == DOMAIN rows = Row /\ rows = [r \in Row |-> rows[r]]

Named == \A r \in Stored : rows[r].name # NoName

\* The inductive invariant.
NamesInv ==
  /\ IsTable
  /\ \A r \in Row : rows[r] \in RowType(r)
  /\ Named
  /\ NamesAreUnique
  /\ OverrideSticks

\* Stale names of two rows differ.
LEMMA StaleInjective == \A r, s \in Row : Stale(r) = Stale(s) => r = s
BY DEF Stale

\* NamesInv holds of the table a program starts with.
LEMMA NamesInvInit == NamesInit => NamesInv
<1> SUFFICES ASSUME NamesInit PROVE NamesInv
  OBVIOUS
<1>1. CASE rows = [r \in Row |-> NoRow]
  BY <1>1 DEF NamesInv, IsTable, RowType, Named, NamesAreUnique, OverrideSticks, Stored, NoRow
<1>2. CASE \E r \in Row, n \in Name :
             rows = [s \in Row |-> IF s = r THEN [NoRow EXCEPT !.status = "out", !.name = n]
                                            ELSE NoRow]
  <2> PICK r \in Row, n \in Name :
        rows = [s \in Row |-> IF s = r THEN [NoRow EXCEPT !.status = "out", !.name = n]
                                       ELSE NoRow]
    BY <1>2
  <2>1. /\ \A s \in Row : rows[s] \in RowType(s)
        /\ Stored = {r} /\ rows[r].name = n /\ rows[r].override = NoName
    BY DEF RowType, Stored, NoRow
  <2> QED
    BY <2>1, NamesAssumption DEF NamesInv, IsTable, Named, NamesAreUnique, OverrideSticks
<1> QED
  BY <1>1, <1>2 DEF NamesInit

\* One runner has one row, so CHOOSE in Presented finds that row.
LEMMA OneRowEach ==
  ASSUME NamesInv, NEW c \in Client, NEW r \in ByClient(c)
  PROVE  ByClient(c) = {r}
BY NamesAssumption DEF NamesInv, IsTable, NamesAreUnique, ByClient, Stored

\* A known runner is presented under its override, or the name it declares.
LEMMA PresentedName ==
  ASSUME NamesInv, NEW c \in Client, NEW r \in ByClient(c), NEW declared \in Name
  PROVE  /\ Presented(c, declared) \in Name
         /\ rows[r].override # NoName => Presented(c, declared) = rows[r].override
<1>1. ByClient(c) = {r}
  BY OneRowEach
<1>2. (CHOOSE s \in ByClient(c) : TRUE) = r
  BY <1>1
<1>3. r \in Row /\ rows[r].override \in Name \cup {NoName}
  BY DEF NamesInv, IsTable, RowType, ByClient, Stored
<1> QED
  BY <1>1, <1>2, <1>3 DEF Presented

-----------------------------------------------------------------------------
(* Every action changes the row of one runner, and may give other, abandoned *)
(* rows their stale names.                                                   *)

Renamed(s) == [rows[s] EXCEPT !.name = Stale(s)]

\* What such a step owes the invariant.
StepOf(r) ==
  /\ IsTable'
  /\ rows'[r] \in RowType(r)
  /\ rows'[r].status = "absent" => rows'[r].name = NoName
  /\ rows'[r].status # "absent" =>
       /\ rows'[r].name # NoName
       /\ rows'[r].override # NoName => rows'[r].name \in {rows'[r].override, Stale(r)}
       /\ \A s \in Stored \ {r} :
            /\ rows'[s].name # rows'[r].name
            /\ rows[s].client = rows'[r].client => rows[s].client = NoName
  /\ \A s \in Row \ {r} :
       rows'[s] = rows[s] \/ (s \in Stored /\ Abandoned(s) /\ rows'[s] = Renamed(s))
  /\ rows[r].status = "live" /\ rows'[r].status # "absent" =>
       /\ rows[r].client \in {NoName, rows'[r].client}
       /\ rows'[r].name \in Name \cup {rows[r].name}

\* A freed row keeps all but its name.
LEMMA RenamedFields ==
  ASSUME NEW s, rows[s] \in RowType(s)
  PROVE  /\ Renamed(s) \in RowType(s)
         /\ Renamed(s).status = rows[s].status /\ Renamed(s).client = rows[s].client
         /\ Renamed(s).override = rows[s].override /\ Renamed(s).name = Stale(s)
BY DEF RowType, Renamed

\* What a step leaves of the other rows.
LEMMA OtherRows ==
  ASSUME NamesInv, NEW r \in Row, StepOf(r), NEW s \in Row \ {r}
  PROVE  /\ rows'[s] \in RowType(s)
         /\ rows'[s].status = rows[s].status /\ rows'[s].client = rows[s].client
         /\ rows'[s].override = rows[s].override
         /\ \/ rows'[s].name = rows[s].name
            \/ s \in Stored /\ Abandoned(s) /\ rows'[s].name = Stale(s)
<1>1. rows[s] \in RowType(s)
  BY DEF NamesInv, IsTable
<1>2. rows'[s] = rows[s] \/ (s \in Stored /\ Abandoned(s) /\ rows'[s] = Renamed(s))
  BY DEF StepOf
<1> QED
  BY <1>1, <1>2, RenamedFields

\* Such a step keeps the invariant.
LEMMA RowStepKeepsInv ==
  ASSUME NamesInv, NEW r \in Row, StepOf(r)
  PROVE  NamesInv'
<1>1. \A s \in Row : rows'[s] \in RowType(s)
  BY OtherRows DEF StepOf
<1>2. Stored' \ {r} = Stored \ {r} /\ Stored' \subseteq Row /\ Stored \subseteq Row
  BY OtherRows DEF Stored
<1>3. r \in Stored' => rows'[r].status # "absent"
  BY DEF Stored
<1>4. Named'
  <2> SUFFICES ASSUME NEW s \in Stored' PROVE rows'[s].name # NoName
    BY DEF Named
  <2>1. CASE s = r
    BY <2>1, <1>3 DEF StepOf
  <2>2. CASE s # r
    BY <2>2, <1>2, OtherRows, NamesAssumption DEF NamesInv, IsTable, Named
  <2> QED
    BY <2>1, <2>2
<1>5. NamesAreUnique'
  <2> SUFFICES ASSUME NEW p \in Stored', NEW q \in Stored', p # q
               PROVE  /\ rows'[p].name # rows'[q].name
                      /\ rows'[p].client = rows'[q].client => rows'[p].client = NoName
    BY DEF NamesAreUnique
  <2>1. CASE p = r
    BY <2>1, <1>2, <1>3, OtherRows DEF StepOf
  <2>2. CASE q = r
    BY <2>2, <1>2, <1>3, OtherRows DEF StepOf
  <2>3. CASE p # r /\ q # r
    <3>1. /\ p \in Stored \ {r} /\ q \in Stored \ {r}
      BY <2>3, <1>2
    <3>2. /\ rows[p].name # rows[q].name
          /\ rows[p].client = rows[q].client => rows[p].client = NoName
      BY <3>1 DEF NamesInv, IsTable, NamesAreUnique
    <3>3. /\ rows[p].name \in Name \cup {NoName, Stale(p)}
          /\ rows[q].name \in Name \cup {NoName, Stale(q)}
      BY <3>1, <1>2 DEF NamesInv, IsTable, RowType
    <3>4. /\ Stale(p) # Stale(q)
          /\ Stale(p) \notin Name \cup {NoName} /\ Stale(q) \notin Name \cup {NoName}
      BY <3>1, <1>2, StaleInjective, NamesAssumption
    <3>5. /\ rows'[p].name \in {rows[p].name, Stale(p)} /\ rows'[p].client = rows[p].client
          /\ rows'[q].name \in {rows[q].name, Stale(q)} /\ rows'[q].client = rows[q].client
      BY <3>1, <1>2, OtherRows
    <3> QED
      BY <3>2, <3>3, <3>4, <3>5
  <2> QED
    BY <2>1, <2>2, <2>3
<1>6. OverrideSticks'
  <2> SUFFICES ASSUME NEW s \in Stored', rows'[s].override # NoName
               PROVE  rows'[s].name \in {rows'[s].override, Stale(s)}
    BY DEF OverrideSticks
  <2>1. CASE s = r
    BY <2>1, <1>3 DEF StepOf
  <2>2. CASE s # r
    BY <2>2, <1>2, OtherRows DEF NamesInv, IsTable, OverrideSticks
  <2> QED
    BY <2>1, <2>2
<1> QED
  BY <1>1, <1>4, <1>5, <1>6 DEF NamesInv, IsTable, StepOf

\* What LiveRowsKeepTheirs says of one row.
KeepsTheirs(r) ==
  rows[r].status = "live" /\ rows'[r].status # "absent" =>
    /\ rows[r].client \in {NoName, rows'[r].client}
    /\ rows'[r].name \in Name \cup {rows[r].name}
    /\ \A s \in Stored \ {r} : rows'[s].name # rows[r].name

\* Such a step leaves every live row its runner and its name.
LEMMA StepKeepsLive ==
  ASSUME NamesInv, NEW r \in Row, StepOf(r), NEW l \in Row
  PROVE  KeepsTheirs(l)
<1> SUFFICES ASSUME rows[l].status = "live", rows'[l].status # "absent"
             PROVE  /\ rows[l].client \in {NoName, rows'[l].client}
                    /\ rows'[l].name \in Name \cup {rows[l].name}
                    /\ \A s \in Stored \ {l} : rows'[s].name # rows[l].name
  BY DEF KeepsTheirs
<1>1. /\ l \in Stored /\ ~Abandoned(l) /\ rows[l].name # NoName
      /\ rows[l].name \in Name \cup {Stale(l)}
  BY DEF Stored, Abandoned, NamesInv, IsTable, Named, RowType
<1>2. l # r => rows'[l].name = rows[l].name /\ rows'[l].client = rows[l].client
  BY <1>1, OtherRows
<1>3. ASSUME NEW s \in Stored \ {l} PROVE rows'[s].name # rows[l].name
  <2>1. s \in Row /\ rows[s].name # rows[l].name /\ Stale(s) # rows[l].name
    BY <1>1, StaleInjective, NamesAssumption DEF Stored, NamesInv, IsTable, NamesAreUnique
  <2>2. CASE s # r
    BY <2>1, <2>2, OtherRows
  <2>3. CASE s = r
    BY <2>3, <1>1, <1>2 DEF StepOf
  <2> QED
    BY <2>2, <2>3
<1> QED
  BY <1>2, <1>3 DEF StepOf

-----------------------------------------------------------------------------

\* What a registration leaves in the row.
LEMMA RegisteredFields ==
  ASSUME NEW r, rows[r] \in RowType(r), NEW c \in Client, NEW name \in Name, NEW declared \in Name
  PROVE  /\ Registered(r, c, name, declared) \in RowType(r)
         /\ Registered(r, c, name, declared).status = "live"
         /\ Registered(r, c, name, declared).client = c
         /\ Registered(r, c, name, declared).name = name
         /\ Registered(r, c, name, declared).override = rows[r].override
BY DEF RowType, Registered

\* A runner with a row registers: the abandoned owner of its name gets a
\* stale name nobody else can have.
LEMMA KnownRegistersStep ==
  ASSUME NamesInv, NEW c \in Client, NEW declared \in Name, KnownRegisters(c, declared)
  PROVE  \E r \in Row : StepOf(r)
<1> DEFINE name      == Presented(c, declared)
           owners(r) == ByName(name) \ {r}
<1>1. PICK r \in ByClient(c) :
        /\ \A owner \in owners(r) : Abandoned(owner)
        /\ rows' = [s \in Row |-> IF s = r THEN Registered(r, c, name, declared)
                                  ELSE IF s \in owners(r) THEN Renamed(s) ELSE rows[s]]
  BY DEF KnownRegisters, Renamed
<1>2. /\ name \in Name
      /\ rows[r].override # NoName => name = rows[r].override
  BY PresentedName
<1>3. r \in Row /\ r \in Stored /\ rows[r].client = c /\ rows[r] \in RowType(r)
  BY DEF ByClient, Stored, NamesInv, IsTable
<1> HIDE DEF name
<1>4. /\ rows'[r] \in RowType(r)
      /\ rows'[r].status = "live" /\ rows'[r].client = c /\ rows'[r].name = name
      /\ rows'[r].override = rows[r].override
  BY <1>1, <1>2, <1>3, RegisteredFields
<1>5. \A s \in Row \ {r} :
        /\ s \in owners(r) => s \in Stored /\ Abandoned(s) /\ rows'[s] = Renamed(s)
        /\ s \notin owners(r) => rows'[s] = rows[s]
  BY <1>1 DEF ByName
<1>6. ASSUME NEW s \in Stored \ {r}
      PROVE  /\ rows'[s].name # name
             /\ rows[s].client = c => rows[s].client = NoName
  <2>1. s \in Row /\ rows[s] \in RowType(s) /\ Stale(s) \notin Name
    BY NamesAssumption DEF Stored, NamesInv, IsTable
  <2>2. s \notin owners(r) => rows[s].name # name
    BY DEF ByName
  <2>3. rows'[s].name # name
    BY <2>1, <2>2, <1>2, <1>5, RenamedFields
  <2> QED
    BY <2>3, <1>3 DEF NamesInv, IsTable, NamesAreUnique
<1>7. IsTable'
  BY <1>1 DEF IsTable
<1> QED
  BY <1>2, <1>3, <1>4, <1>5, <1>6, <1>7, NamesAssumption DEF StepOf

\* A new runner takes over a row nobody uses, or gets a new one.
LEMMA NewcomerStep ==
  ASSUME NamesInv, NEW c \in Client, NEW declared \in Name, NewcomerRegisters(c, declared)
  PROVE  \E r \in Row : StepOf(r)
<1>1. ByClient(c) = {}
  BY DEF NewcomerRegisters
<1>2. CASE \E r \in ByName(declared) :
             /\ Adoptable(r, c)
             /\ rows' = [rows EXCEPT ![r] = Registered(r, c, declared, declared)]
  <2> PICK r \in ByName(declared) :
        /\ Adoptable(r, c)
        /\ rows' = [rows EXCEPT ![r] = Registered(r, c, declared, declared)]
    BY <1>2
  <2>1. /\ r \in Row /\ r \in Stored /\ rows[r].name = declared /\ rows[r] \in RowType(r)
    BY DEF ByName, Stored, NamesInv, IsTable
  <2>2. IsTable'
    BY DEF NamesInv, IsTable
  <2>3. rows'[r] = Registered(r, c, declared, declared) /\ \A s \in Row \ {r} : rows'[s] = rows[s]
    BY <2>1 DEF NamesInv, IsTable
  <2>4. /\ rows'[r] \in RowType(r)
        /\ rows'[r].status = "live" /\ rows'[r].client = c /\ rows'[r].name = declared
        /\ rows'[r].override = rows[r].override
    BY <2>1, <2>3, RegisteredFields
  <2>5. \A s \in Stored \ {r} : rows'[s].name # declared /\ rows[s].client # c
    BY <1>1, <2>1, <2>3 DEF NamesInv, IsTable, NamesAreUnique, Stored, ByClient
  <2>6. rows[r].override # NoName => declared = rows[r].override
    BY <2>1, NamesAssumption DEF NamesInv, IsTable, OverrideSticks
  <2>7. rows[r].status = "live" => rows[r].client = NoName
    BY <2>1 DEF Adoptable, Abandoned
  <2> QED
    BY <2>1, <2>2, <2>3, <2>4, <2>5, <2>6, <2>7, NamesAssumption DEF StepOf
<1>3. CASE /\ ByName(declared) = {}
           /\ \E r \in Row \ Stored :
                rows' = [rows EXCEPT ![r] = [status |-> "live", client |-> c, name |-> declared,
                                             override |-> NoName, reported |-> declared]]
  <2> PICK r \in Row \ Stored :
        rows' = [rows EXCEPT ![r] = [status |-> "live", client |-> c, name |-> declared,
                                     override |-> NoName, reported |-> declared]]
    BY <1>3
  <2>1. IsTable'
    BY DEF NamesInv, IsTable
  <2>2. rows'[r] = [status |-> "live", client |-> c, name |-> declared,
                    override |-> NoName, reported |-> declared]
    BY DEF NamesInv, IsTable
  <2>3. \A s \in Row \ {r} : rows'[s] = rows[s]
    BY DEF NamesInv, IsTable
  <2>4. /\ rows'[r] \in RowType(r)
        /\ rows'[r].status = "live" /\ rows'[r].client = c /\ rows'[r].name = declared
        /\ rows'[r].override = NoName
    BY <2>2 DEF RowType
  <2>5. \A s \in Stored \ {r} : rows'[s].name # declared /\ rows[s].client # c
    BY <1>1, <1>3, <2>3 DEF Stored, ByClient, ByName
  <2>6. rows[r].status = "absent"
    BY DEF Stored
  <2> QED
    BY <2>1, <2>3, <2>4, <2>5, <2>6, NamesAssumption DEF StepOf
<1> QED
  BY <1>2, <1>3 DEF NewcomerRegisters

\* A rename on the dashboard, to a name no other row has.
LEMMA RenameStep ==
  ASSUME NamesInv, NEW r \in Row, NEW chosen \in Name \cup {NoName}, Rename(r, chosen)
  PROVE  StepOf(r)
<1>1. PICK name \in Name :
        /\ ByName(name) \subseteq {r}
        /\ rows' = [rows EXCEPT ![r].name = name,
                                ![r].override = IF name = rows[r].reported THEN NoName ELSE name]
  BY DEF Rename
<1>2. /\ r \in Stored /\ rows[r] \in RowType(r) /\ rows[r].status # "absent"
  BY DEF Rename, Stored, NamesInv, IsTable
<1>3. IsTable'
  BY <1>1 DEF NamesInv, IsTable
<1>4. \A s \in Row \ {r} : rows'[s] = rows[s]
  BY <1>1 DEF NamesInv, IsTable
<1>5. rows'[r] = [rows[r] EXCEPT !.name = name,
                                 !.override = IF name = rows[r].reported THEN NoName ELSE name]
  BY <1>1 DEF NamesInv, IsTable
<1>6. /\ rows'[r] \in RowType(r)
      /\ rows'[r].status = rows[r].status /\ rows'[r].client = rows[r].client
      /\ rows'[r].name = name /\ rows'[r].override \in {NoName, name}
  BY <1>2, <1>5 DEF RowType
<1>7. \A s \in Stored \ {r} : /\ rows'[s].name # name
                              /\ rows[s].client = rows[r].client => rows[s].client = NoName
  BY <1>1, <1>2, <1>4 DEF Stored, ByName, NamesInv, IsTable, NamesAreUnique
<1> QED
  BY <1>2, <1>3, <1>4, <1>6, <1>7, NamesAssumption DEF StepOf

\* A runner falls silent or is heard of again: only the status changes.
LEMMA StatusStep ==
  ASSUME NamesInv, NEW r \in Row, Silent(r) \/ Heard(r)
  PROVE  StepOf(r)
<1>1. PICK status \in {"live", "out"} : rows' = [rows EXCEPT ![r].status = status]
  BY DEF Silent, Heard
<1>2. /\ r \in Stored /\ rows[r] \in RowType(r) /\ rows[r].status # "absent"
  BY DEF Silent, Heard, Stored, NamesInv, IsTable
<1>3. IsTable'
  BY <1>1 DEF NamesInv, IsTable
<1>4. \A s \in Row \ {r} : rows'[s] = rows[s]
  BY <1>1 DEF NamesInv, IsTable
<1>5. rows'[r] = [rows[r] EXCEPT !.status = status]
  BY <1>1 DEF NamesInv, IsTable
<1>6. /\ rows'[r] \in RowType(r)
      /\ rows'[r].status = status /\ rows'[r].client = rows[r].client
      /\ rows'[r].name = rows[r].name /\ rows'[r].override = rows[r].override
  BY <1>2, <1>5 DEF RowType
<1>7. \A s \in Stored \ {r} : /\ rows'[s].name # rows[r].name
                              /\ rows[s].client = rows[r].client => rows[s].client = NoName
  BY <1>2, <1>4 DEF Stored, NamesInv, IsTable, NamesAreUnique
<1>8. /\ rows[r].name # NoName
      /\ rows[r].override # NoName => rows[r].name \in {rows[r].override, Stale(r)}
  BY <1>2 DEF NamesInv, IsTable, Named, OverrideSticks
<1> QED
  BY <1>2, <1>3, <1>4, <1>6, <1>7, <1>8 DEF StepOf

\* A row is removed.
LEMMA RemovedStep ==
  ASSUME NamesInv, NEW r \in Row, Removed(r)
  PROVE  StepOf(r)
<1>1. IsTable'
  BY DEF Removed, NamesInv, IsTable
<1>2. rows'[r] = NoRow /\ \A s \in Row \ {r} : rows'[s] = rows[s]
  BY DEF Removed, NamesInv, IsTable
<1>3. NoRow \in RowType(r) /\ NoRow.status = "absent" /\ NoRow.name = NoName
  BY DEF NoRow, RowType
<1> QED
  BY <1>1, <1>2, <1>3 DEF StepOf

\* Every step of the specification is a step of one row.
LEMMA NamesStep ==
  ASSUME NamesInv, NamesNext
  PROVE  \E r \in Row : StepOf(r)
BY KnownRegistersStep, NewcomerStep, RenameStep, StatusStep, RemovedStep DEF NamesNext

-----------------------------------------------------------------------------

LEMMA NamesInvStep == ASSUME NamesInv, [NamesNext]_rows PROVE NamesInv'
<1>1. CASE UNCHANGED rows
  BY <1>1 DEF NamesInv, IsTable, RowType, Named, NamesAreUnique, OverrideSticks, Stored
<1>2. CASE NamesNext
  BY <1>2, NamesStep, RowStepKeepsInv
<1> QED
  BY <1>1, <1>2

\* NamesInv holds in every reachable state.
THEOREM NamesInvariant == NamesSpec => []NamesInv
BY NamesInvInit, NamesInvStep, PTL DEF NamesSpec

LEMMA NamesTypes == NamesInv => NamesTypeOK
<1> SUFFICES ASSUME NamesInv, NEW r \in Row
             PROVE  RowType(r) \subseteq
                      [status   : {"absent", "live", "out"},
                       client   : Client \cup {NoName},
                       name     : Name \cup {NoName} \cup {Stale(s) : s \in Row},
                       override : Name \cup {NoName},
                       reported : Name \cup {NoName}]
  BY DEF NamesInv, IsTable, NamesTypeOK
<1> QED
  BY DEF RowType

\* Type correctness.
THEOREM NamesTypeCorrect == NamesSpec => []NamesTypeOK
BY NamesTypes, NamesInvariant, PTL

\* No two rows ever have the same name, no runner two rows: registrations
\* and renames never run into the UNIQUE constraint.
THEOREM UniqueNames == NamesSpec => []NamesAreUnique
<1>1. NamesInv => NamesAreUnique
  BY DEF NamesInv, IsTable
<1> QED
  BY <1>1, NamesInvariant, PTL

\* A name given on the dashboard survives every registration.
THEOREM OverridesStick == NamesSpec => []OverrideSticks
<1>1. NamesInv => OverrideSticks
  BY DEF NamesInv, IsTable
<1> QED
  BY <1>1, NamesInvariant, PTL

\* A live row stays with its runner, and keeps its name for itself.
THEOREM LiveRowsAreSafe == NamesSpec => LiveRowsKeepTheirs
<1>1. NamesInv /\ NamesNext => \A r \in Row : KeepsTheirs(r)
  BY NamesStep, StepKeepsLive
<1>2. NamesInv /\ [NamesNext]_rows => [\A r \in Row : KeepsTheirs(r)]_rows
  BY <1>1
<1>3. LiveRowsKeepTheirs <=> [][\A r \in Row : KeepsTheirs(r)]_rows
  BY PTL DEF LiveRowsKeepTheirs, KeepsTheirs
<1> QED
  BY <1>2, <1>3, NamesInvariant, PTL DEF NamesSpec

-----------------------------------------------------------------------------
(* SchedulerPass *)

\* What is picked so far, of the jobs that had their turn, is fair to them.
FairSoFar(pick, todo) ==
  /\ pick \in [QueuedJob -> free \cup {NoBench}]
  /\ \A j \in todo : pick[j] = NoBench
  /\ \A j \in QueuedJob \ todo, k \in todo : Ahead(j, k)
  /\ \A j \in QueuedJob : pick[j] # NoBench => Suits(j, pick[j])
  /\ \A j, k \in QueuedJob : pick[j] # NoBench /\ pick[j] = pick[k] => j = k
  /\ \A j \in QueuedJob \ todo, r \in free :
       /\ Suits(j, r)
       /\ pick[j] = NoBench \/ Preferred(r, pick[j])
       => \E k \in QueuedJob : Ahead(k, j) /\ pick[k] = r

\* The transaction sees what it did to the table, and nobody else does.
TxInv ==
  /\ ~committed => assigned = Nobody
  /\ tx.open => /\ ~committed
                  /\ tx.claimed = {r \in free : \E j \in QueuedJob : tx.picked[j] = r}
                  /\ tx.free = free \ tx.claimed
                  /\ FairSoFar(tx.picked, tx.todo)

PassInv == PassTypeOK /\ TxInv

LEMMA PassInvInit == PassInit => PassInv
<1>1. NoTx \in Tx /\ ~NoTx.open /\ Nobody \in [QueuedJob -> Bench \cup {NoBench}]
  BY DEF Tx, NoTx, Nobody
<1> QED
  BY <1>1 DEF PassInit, PassInv, PassTypeOK, TxInv

\* The queue is in a linear order.
LEMMA AheadIsTotal ==
  ASSUME PassTypeOK, NEW j \in QueuedJob, NEW k \in QueuedJob, j # k, ~Ahead(k, j)
  PROVE  Ahead(j, k)
<1>1. /\ queued[j].priority \in Nat /\ queued[k].priority \in Nat /\ j \in Nat /\ k \in Nat
  BY PassAssumption DEF PassTypeOK
<1> QED
  BY <1>1 DEF Ahead

\* After a turn, the others in the queue come after everybody who had one.
LEMMA TurnsAreInOrder ==
  ASSUME PassInv, NEW j \in QueuedJob, Turn(j)
  PROVE  /\ j \in tx.todo
         /\ \A k \in QueuedJob \ tx.todo : Ahead(k, j)
         /\ \A i \in QueuedJob \ (tx.todo \ {j}), k \in tx.todo \ {j} : Ahead(i, k)
<1>1. /\ j \in tx.todo /\ tx.todo \subseteq QueuedJob
      /\ \A k \in tx.todo : ~Ahead(k, j)
      /\ \A i \in QueuedJob \ tx.todo, k \in tx.todo : Ahead(i, k)
  BY DEF Turn, PassInv, PassTypeOK, Tx, TxInv, FairSoFar
<1>2. \A k \in tx.todo \ {j} : Ahead(j, k)
  BY <1>1, AheadIsTotal DEF PassInv
<1> QED
  BY <1>1, <1>2

\* A bench that would have suited but was no candidate was picked before.
LEMMA TakenBefore ==
  ASSUME PassInv, NEW j \in QueuedJob, Turn(j), NEW r \in free,
         Suits(j, r), r \notin Candidates(j)
  PROVE  \E k \in QueuedJob : k # j /\ Ahead(k, j) /\ tx.picked[k] = r
<1>1. /\ free \subseteq Bench /\ tx.open
      /\ tx.claimed = {q \in free : \E i \in QueuedJob : tx.picked[i] = q}
      /\ tx.free = free \ tx.claimed
      /\ \A k \in tx.todo : tx.picked[k] = NoBench
  BY DEF PassInv, TxInv, FairSoFar, PassTypeOK, Turn
<1>2. r \in tx.claimed
  BY <1>1 DEF Candidates
<1>3. PICK k \in QueuedJob : tx.picked[k] = r
  BY <1>1, <1>2
<1>4. k \notin tx.todo /\ j \in tx.todo
  BY <1>1, <1>3, PassAssumption, TurnsAreInOrder
<1> QED
  BY <1>3, <1>4, TurnsAreInOrder

LEMMA SkipKeepsInv == ASSUME PassInv, NEW j \in QueuedJob, Skip(j) PROVE PassInv'
<1>1. /\ PassTypeOK /\ tx.open /\ ~committed /\ tx \in Tx
      /\ tx.claimed = {r \in free : \E k \in QueuedJob : tx.picked[k] = r}
      /\ tx.free = free \ tx.claimed
      /\ FairSoFar(tx.picked, tx.todo)
  BY DEF PassInv, TxInv, PassTypeOK, Skip, Turn
<1>2. /\ Turn(j) /\ Candidates(j) = {}
      /\ tx' = [tx EXCEPT !.todo = @ \ {j}]
      /\ UNCHANGED <<queued, finished, free, assigned, committed>>
  BY DEF Skip
<1>3. /\ tx' \in Tx /\ tx'.open /\ tx'.todo = tx.todo \ {j} /\ tx'.free = tx.free
      /\ tx'.claimed = tx.claimed /\ tx'.picked = tx.picked
  BY <1>1, <1>2 DEF Tx
<1>4. FairSoFar(tx.picked, tx.todo \ {j})
  <2>1. /\ tx.picked \in [QueuedJob -> free \cup {NoBench}]
        /\ \A k \in tx.todo \ {j} : tx.picked[k] = NoBench
        /\ \A k \in QueuedJob : tx.picked[k] # NoBench => Suits(k, tx.picked[k])
        /\ \A i, k \in QueuedJob : tx.picked[i] # NoBench /\ tx.picked[i] = tx.picked[k] => i = k
    BY <1>1 DEF FairSoFar
  <2>2. \A i \in QueuedJob \ (tx.todo \ {j}), k \in tx.todo \ {j} : Ahead(i, k)
    BY <1>2, TurnsAreInOrder
  <2>3. ASSUME NEW i \in QueuedJob \ (tx.todo \ {j}), NEW r \in free, Suits(i, r),
               tx.picked[i] = NoBench \/ Preferred(r, tx.picked[i])
        PROVE  \E k \in QueuedJob : Ahead(k, i) /\ tx.picked[k] = r
    <3>1. CASE i = j
      BY <1>2, <2>3, <3>1, TakenBefore
    <3>2. CASE i # j
      BY <1>1, <2>3, <3>2 DEF FairSoFar
    <3> QED
      BY <3>1, <3>2
  <2> QED
    BY <2>1, <2>2, <2>3 DEF FairSoFar
<1> QED
  BY <1>1, <1>2, <1>3, <1>4 DEF PassInv, TxInv, PassTypeOK, FairSoFar, Ahead, Suits, Preferred, Reserved

LEMMA AssignKeepsInv ==
  ASSUME PassInv, NEW j \in QueuedJob, NEW b \in Bench, Assign(j, b) PROVE PassInv'
<1> DEFINE pick == [tx.picked EXCEPT ![j] = b]
<1>1. /\ PassTypeOK /\ tx.open /\ ~committed /\ tx \in Tx /\ free \subseteq Bench
      /\ tx.claimed = {r \in free : \E k \in QueuedJob : tx.picked[k] = r}
      /\ tx.free = free \ tx.claimed
      /\ FairSoFar(tx.picked, tx.todo)
  BY DEF PassInv, TxInv, PassTypeOK, Assign, Turn
<1>2. /\ Turn(j) /\ b \in Candidates(j) /\ \A q \in Candidates(j) : ~Preferred(q, b)
      /\ tx' = [open |-> TRUE, todo |-> tx.todo \ {j}, free |-> tx.free \ {b},
                claimed |-> tx.claimed \cup {b}, picked |-> pick]
      /\ UNCHANGED <<queued, finished, free, assigned, committed>>
  BY DEF Assign, Best
<1>3. b \in free /\ b \notin tx.claimed /\ Suits(j, b) /\ b # NoBench /\ j \in tx.todo
  BY <1>1, <1>2, PassAssumption DEF Candidates, Turn
<1>4. /\ tx.picked \in [QueuedJob -> free \cup {NoBench}] /\ tx.picked[j] = NoBench
      /\ pick \in [QueuedJob -> free \cup {NoBench}] /\ pick[j] = b
      /\ \A k \in QueuedJob \ {j} : pick[k] = tx.picked[k] /\ pick[k] # b
  BY <1>1, <1>3 DEF FairSoFar
<1>5. tx' \in Tx
  BY <1>1, <1>2, <1>4 DEF Tx
<1>6. tx.claimed \cup {b} = {r \in free : \E k \in QueuedJob : pick[k] = r}
  BY <1>1, <1>3, <1>4, PassAssumption
<1>7. FairSoFar(pick, tx.todo \ {j})
  <2>1. \A k \in tx.todo \ {j} : pick[k] = NoBench
    BY <1>1, <1>4 DEF FairSoFar, Tx
  <2>2. \A k \in QueuedJob : pick[k] # NoBench => Suits(k, pick[k])
    BY <1>1, <1>3, <1>4 DEF FairSoFar
  <2>3. \A i, k \in QueuedJob : pick[i] # NoBench /\ pick[i] = pick[k] => i = k
    BY <1>1, <1>4 DEF FairSoFar
  <2>4. \A i \in QueuedJob \ (tx.todo \ {j}), k \in tx.todo \ {j} : Ahead(i, k)
    BY <1>2, TurnsAreInOrder
  <2>5. ASSUME NEW i \in QueuedJob \ (tx.todo \ {j}), NEW r \in free, Suits(i, r),
               pick[i] = NoBench \/ Preferred(r, pick[i])
        PROVE  \E k \in QueuedJob : Ahead(k, i) /\ pick[k] = r
    <3>1. CASE i = j
      <4>1. r \notin Candidates(j)
        BY <1>2, <1>3, <1>4, <2>5, <3>1
      <4>2. PICK k \in QueuedJob : k # j /\ Ahead(k, j) /\ tx.picked[k] = r
        BY <1>2, <2>5, <3>1, <4>1, TakenBefore
      <4> QED
        BY <1>4, <3>1, <4>2
    <3>2. CASE i # j
      <4>1. PICK k \in QueuedJob : Ahead(k, i) /\ tx.picked[k] = r
        BY <1>1, <1>4, <2>5, <3>2 DEF FairSoFar
      <4>2. k # j
        BY <1>1, <1>4, <4>1, PassAssumption
      <4> QED
        BY <1>4, <4>1, <4>2
    <3> QED
      BY <3>1, <3>2
  <2> QED
    BY <1>4, <2>1, <2>2, <2>3, <2>4, <2>5 DEF FairSoFar
<1>8. tx'.claimed = tx.claimed \cup {b} /\ tx'.free = free \ tx'.claimed
  BY <1>1, <1>2
<1> HIDE DEF pick
<1> QED
  BY <1>1, <1>2, <1>5, <1>6, <1>7, <1>8
     DEF PassInv, TxInv, PassTypeOK, FairSoFar, Ahead, Suits, Preferred, Reserved

LEMMA PassStep == ASSUME PassInv, [PassNext]_passVars PROVE PassInv'
<1>1. CASE StartPass
  <2>1. tx' \in Tx /\ tx'.open /\ tx'.todo = QueuedJob /\ tx'.claimed = {} /\ tx'.free = free
        /\ tx'.picked = Nobody /\ ~committed
        /\ UNCHANGED <<queued, finished, free, assigned, committed>>
    BY <1>1 DEF StartPass, Tx, Nobody, PassInv, PassTypeOK
  <2>2. free \subseteq Bench /\ NoBench \notin Bench
    BY PassAssumption DEF PassInv, PassTypeOK
  <2> QED
    BY <2>1, <2>2 DEF PassInv, PassTypeOK, TxInv, FairSoFar, Nobody
<1>2. CASE CommitPass
  BY <1>2 DEF CommitPass, PassInv, PassTypeOK, TxInv, Tx, NoTx, Nobody
<1>3. CASE Rollback
  BY <1>3 DEF Rollback, PassInv, PassTypeOK, TxInv, Tx, NoTx, Nobody
<1>4. CASE UNCHANGED passVars
  BY <1>4
     DEF passVars, PassInv, PassTypeOK, TxInv, FairSoFar, Ahead, Suits, Preferred, Reserved
<1> QED
  BY <1>1, <1>2, <1>3, <1>4, SkipKeepsInv, AssignKeepsInv DEF PassNext

THEOREM PassInvariant == PassSpec => []PassInv
BY PassInvInit, PassStep, PTL DEF PassSpec

\* Type correctness.
THEOREM PassTypeCorrect == PassSpec => []PassTypeOK
BY PassInvariant, PTL DEF PassInv

\* What a commit makes visible was fair to every job that was queued.
THEOREM NobodyIsOvertaken == PassSpec => NobodyOvertaken
<1>1. ASSUME PassInv, [PassNext]_passVars
      PROVE  [<<free', assigned', committed'>> # <<free, assigned, committed>> =>
                /\ ~committed /\ committed'
                /\ assigned' \in HandOuts
                /\ free' = free \ {assigned'[j] : j \in QueuedJob}]_passVars
  <2>1. CASE CommitPass
    <3>1. /\ ~committed /\ committed' /\ tx.todo = {} /\ FairSoFar(tx.picked, {})
          /\ tx.claimed = {r \in free : \E j \in QueuedJob : tx.picked[j] = r}
          /\ free' = free \ tx.claimed /\ assigned' = tx.picked
      BY <1>1, <2>1 DEF CommitPass, PassInv, TxInv
    <3>2. tx.picked \in HandOuts
      BY <3>1 DEF FairSoFar, HandOuts
    <3>3. free' = free \ {assigned'[j] : j \in QueuedJob}
      BY <3>1
    <3> QED
      BY <3>1, <3>2, <3>3
  <2>2. CASE ~CommitPass
    BY <1>1, <2>2 DEF PassNext, StartPass, Rollback, Skip, Assign, passVars
  <2> QED
    BY <2>1, <2>2
<1> QED
  BY <1>1, PassInvariant, PTL DEF PassSpec, NobodyOvertaken

\* The commit of a pass is the scheduler's step of Coordinator.
LEMMA CommitIsRunPass ==
  ASSUME PassInv, Alike, CommitPass PROVE Core!RunPass
<1>1. /\ ~committed /\ tx.todo = {} /\ FairSoFar(tx.picked, {})
      /\ tx.claimed = {r \in free : \E j \in QueuedJob : tx.picked[j] = r}
      /\ free' = free \ tx.claimed /\ assigned' = tx.picked
      /\ UNCHANGED <<queued, finished>> /\ free \subseteq Bench
  BY DEF CommitPass, PassInv, TxInv, PassTypeOK
<1>2. assigned = Nobody /\ NoBench \notin Bench
  BY <1>1, PassAssumption DEF PassInv, TxInv
<1>3. /\ Core!InState({"QUEUED"}) = QueuedJob
      /\ Core!Free = free
      /\ \A j \in QueuedJob, r \in Bench : Core!Fits(j, r) <=> Suits(j, r)
  BY <1>1, <1>2 DEF Core!InState, Core!Free, Core!Fits, Suits, Alike, Rows, Benches, Nobody
<1>4. tx.picked \in Core!Matchings
  <2>1. /\ tx.picked \in [QueuedJob -> free \cup {NoBench}]
        /\ \A j \in QueuedJob : tx.picked[j] # NoBench => Suits(j, tx.picked[j])
        /\ \A j, k \in QueuedJob :
             tx.picked[j] # NoBench /\ tx.picked[j] = tx.picked[k] => j = k
        /\ \A j \in QueuedJob, r \in free :
             tx.picked[j] = NoBench /\ Suits(j, r) => \E k \in QueuedJob : tx.picked[k] = r
    BY <1>1 DEF FairSoFar
  <2> QED
    BY <1>1, <1>3, <2>1 DEF Core!Matchings
<1>5. Rows' = [j \in QueuedJob |->
                 IF j \in DOMAIN tx.picked /\ tx.picked[j] # NoBench
                 THEN [Rows[j] EXCEPT !.state = "ASSIGNED", !.resource = tx.picked[j]]
                 ELSE Rows[j]]
  BY <1>1, <1>2 DEF Rows, Nobody, FairSoFar
<1>6. Benches' = [r \in Bench |->
                    IF \E j \in DOMAIN tx.picked : tx.picked[j] = r
                    THEN [Benches[r] EXCEPT !.status = "BUSY", !.busySource = "job"]
                    ELSE Benches[r]]
  BY <1>1, <1>2 DEF Benches, FairSoFar
<1> QED
  BY <1>4, <1>5, <1>6 DEF Core!RunPass, NoCommands, NoRetries

\* To the rest of the system a pass is one step of Coordinator, or none.
THEOREM PassImplementsRunPass == PassSpec => PassIsRunPass
<1>1. ASSUME PassInv, [PassNext]_passVars
      PROVE  [Alike => Core!RunPass]_<<Rows, Benches>>
  <2>1. CASE CommitPass
    BY <1>1, <2>1, CommitIsRunPass
  <2>2. CASE ~CommitPass
    <3>1. UNCHANGED <<queued, free, assigned>>
      BY <1>1, <2>2 DEF PassNext, StartPass, Rollback, Skip, Assign, passVars
    <3> QED
      BY <3>1 DEF Rows, Benches
  <2> QED
    BY <2>1, <2>2
<1> QED
  BY <1>1, PassInvariant, PTL DEF PassSpec, PassIsRunPass

-----------------------------------------------------------------------------
(* The parts side by side, as MCHolds composes them *)

\* Every part keeps its own invariant, also while another one is running.
HoldsInv == /\ part \in {"names", "settings", "grace", "accounts", "sessions", "guard",
                         "rate", "orders", "pass"}
            /\ NamesInv /\ SettingsInv /\ GraceInv /\ AccountsInv
            /\ SessionsInv /\ GuardInv /\ RateInv /\ OrdersInv /\ PassInv

LEMMA HoldsInvInit == Init => HoldsInv
BY NamesInvInit, SettingsInvInit, GraceInvInit, AccountsInvInit, SessionsInvInit, GuardInvInit,
   RateInvInit, OrdersInvInit, PassInvInit DEF Init, HoldsInv

\* A step is one of one part, and leaves the others alone.
LEMMA HoldsStep == ASSUME HoldsInv, [Next]_vars PROVE HoldsInv'
<1>1. /\ [NamesNext]_rows /\ [SettingsNext]_settingVars /\ [GraceNext]_graceVars
      /\ [AccountsNext]_accountVars /\ [SessionsNext]_sessionVars /\ [GuardNext]_guardVars
      /\ [RateNext]_rateVars /\ [OrdersNext]_orderVars /\ [PassNext]_passVars /\ UNCHANGED part
  BY DEF Next, vars
<1> QED
  BY <1>1, NamesInvStep, SettingsStep, GraceStep, AccountsInvStep, SessionsStep, GuardStep,
     RateStep, OrdersStep, PassStep DEF HoldsInv

\* All parts together keep their types, and each of them its invariant, in
\* the specification that is model-checked.
THEOREM HoldsInvariant == Spec => []HoldsInv
BY HoldsInvInit, HoldsStep, PTL DEF Spec

\* Type correctness of the parts side by side.
THEOREM HoldsTypeCorrect == Spec => []HoldsTypeOK
<1>1. NamesInv => NamesTypeOK
  BY NamesTypes
<1>2. HoldsInv => HoldsTypeOK
  BY <1>1
     DEF HoldsInv, HoldsTypeOK, SettingsInv, GraceInv, AccountsInv, SessionsInv, GuardInv,
         RateInv, OrdersInv, PassInv
<1> QED
  BY <1>2, HoldsInvariant, PTL
=============================================================================
