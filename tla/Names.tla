-------------------------------- MODULE Names -------------------------------
(* Who holds which name: registry.js matches a registering runner by its    *)
(* clientId, adopts or reclaims a row by name, frees a name an abandoned    *)
(* row holds, and keeps a dashboard rename (name_override) across            *)
(* registrations.                                                           *)
EXTENDS FiniteSets

CONSTANTS
  Row,       \* ids of rows in table resources
  Client,    \* clientIds
  Name,      \* names a runner or the dashboard may ask for
  NoName     \* null

VARIABLE rows

Stale(r) == <<"stale", r>>    \* `${name}__stale-${id}`

ASSUME NamesAssumption == /\ NoName \notin Client \cup Name
                          /\ \A r \in Row : Stale(r) \notin Name \cup {NoName}

NoRow == [status |-> "absent", client |-> NoName, name |-> NoName,
          override |-> NoName, reported |-> NoName]

NamesTypeOK ==
  rows \in [Row -> [status   : {"absent", "live", "out"},  \* out: OUT_OF_SERVICE
                    client   : Client \cup {NoName},
                    name     : Name \cup {NoName} \cup {Stale(r) : r \in Row},
                    override : Name \cup {NoName},
                    reported : Name \cup {NoName}]]

Stored       == {r \in Row : rows[r].status # "absent"}
ByClient(c)  == {r \in Stored : rows[r].client = c}
ByName(n)    == {r \in Stored : rows[r].name = n}
Abandoned(r) == rows[r].status = "out"

-----------------------------------------------------------------------------

\* Mutant of Presented: the dashboard rename is forgotten.
PresentedAsDeclared(c, declared) == declared

\* The name a registration is processed under.
Presented(c, declared) ==
  IF \E r \in ByClient(c) : rows[r].override # NoName
  THEN rows[CHOOSE r \in ByClient(c) : TRUE].override
  ELSE declared

Registered(r, c, name, declared) ==
  [rows[r] EXCEPT !.status = "live", !.client = c, !.name = name, !.reported = declared]

\* Mutant of KnownRegisters: the abandoned owner keeps the name, too.
KnownRegistersOverAbandoned(c, declared) ==
  \E r \in ByClient(c) :
    LET name == Presented(c, declared) IN
      /\ \A owner \in ByName(name) \ {r} : Abandoned(owner)
      /\ rows' = [rows EXCEPT ![r] = Registered(r, c, name, declared)]

\* A runner with a row registers.  An abandoned row that holds the name gets
\* another one; a live one refuses the registration (409).
KnownRegisters(c, declared) ==
  \E r \in ByClient(c) :
    LET name   == Presented(c, declared)
        owners == ByName(name) \ {r}
    IN /\ \A owner \in owners : Abandoned(owner)
       /\ rows' = [s \in Row |->
            IF s = r THEN Registered(r, c, name, declared)
            ELSE IF s \in owners THEN [rows[s] EXCEPT !.name = Stale(s)]
            ELSE rows[s]]

\* Mutant of Adoptable: the owner's status does not matter.
AdoptableAlways(r, c) == TRUE

\* A row from before clientIds, or an abandoned one.
Adoptable(r, c) == rows[r].client = NoName \/ Abandoned(r)

\* An unknown runner takes over the row of its name, or gets a new one.
NewcomerRegisters(c, declared) ==
  /\ ByClient(c) = {}
  /\ \/ \E r \in ByName(declared) :
          /\ Adoptable(r, c)
          /\ rows' = [rows EXCEPT ![r] = Registered(r, c, declared, declared)]
     \/ /\ ByName(declared) = {}
        /\ \E r \in Row \ Stored :
             rows' = [rows EXCEPT ![r] = [status |-> "live", client |-> c, name |-> declared,
                                          override |-> NoName, reported |-> declared]]

\* POST /runners/:id/rename; an empty name goes back to the runner's own.
Rename(r, wanted) ==
  /\ r \in Stored
  /\ LET own  == IF rows[r].reported # NoName THEN rows[r].reported ELSE rows[r].name
         name == IF wanted = NoName THEN own ELSE wanted
     IN /\ ByName(name) \subseteq {r}
        /\ name \in Name
        /\ rows' = [rows EXCEPT ![r].name = name,
                                ![r].override = IF name = rows[r].reported THEN NoName
                                                                          ELSE name]

Silent(r) == r \in Stored /\ rows' = [rows EXCEPT ![r].status = "out"]
Heard(r)  == r \in Stored /\ rows' = [rows EXCEPT ![r].status = "live"]
Removed(r) == r \in Stored /\ rows' = [rows EXCEPT ![r] = NoRow]

\* The table is empty, or holds one row from before clientIds.
NamesInit ==
  \/ rows = [r \in Row |-> NoRow]
  \/ \E r \in Row, n \in Name :
       rows = [s \in Row |-> IF s = r THEN [NoRow EXCEPT !.status = "out", !.name = n]
                                      ELSE NoRow]

NamesNext ==
  \/ \E c \in Client, n \in Name : KnownRegisters(c, n) \/ NewcomerRegisters(c, n)
  \/ \E r \in Row : \/ \E n \in Name \cup {NoName} : Rename(r, n)
                    \/ Silent(r) \/ Heard(r) \/ Removed(r)

NamesSpec == NamesInit /\ [][NamesNext]_rows

-----------------------------------------------------------------------------

\* No registration or rename runs into the UNIQUE constraint of
\* resources.name, and no runner ends up with two rows, whatever is
\* reclaimed, freed and overridden in between.
NamesAreUnique ==
  \A r, s \in Stored : r # s =>
    /\ rows[r].name # rows[s].name
    /\ rows[r].client = rows[s].client => rows[r].client = NoName

\* A row that is not abandoned is never handed to another runner, nor is its
\* name taken from it to be used by another row.
LiveRowsKeepTheirs ==
  [][\A r \in Row :
       rows[r].status = "live" /\ rows'[r].status # "absent" =>
         /\ rows[r].client \in {NoName, rows'[r].client}
         /\ rows'[r].name \in Name \cup {rows[r].name}
         /\ \A s \in Stored \ {r} : rows'[s].name # rows[r].name]_rows

\* A name given on the dashboard survives every registration: the row is
\* called so, or has lost the name to another runner while abandoned.
OverrideSticks ==
  \A r \in Stored : rows[r].override # NoName => rows[r].name \in {rows[r].override, Stale(r)}
=============================================================================
