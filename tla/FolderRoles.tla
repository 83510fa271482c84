----------------------------- MODULE FolderRoles -----------------------------
(***************************************************************************)
(* The role map of one account's folders                                   *)
(* (packages/accounts/src/service.ts): discovery imports, assignments and  *)
(* removals from the settings screen, each in a transaction that locks the *)
(* account row first.  A transaction reads committed rows, and its writes  *)
(* appear when it commits; the unique index on account and role refuses a  *)
(* commit that gives a role to a second folder.                            *)
(***************************************************************************)
EXTENDS Naturals, FiniteSets, Sequences, SequencesExt

CONSTANTS Process,     \* requests that may run at once
          Name,        \* spellings of folder names
          KeyOf,       \* [Name -> key]: spellings of the inbox share one key
          AllRoles,    \* sequence of roles, in the order an import tries them
          Runs         \* discovery runs: sets of [name, roles], one per key

VARIABLES folder,      \* role of each stored folder, by the name it is stored under
          locked,      \* holder of the account row
          roleRequest,     \* what each process asks and has read
          report,      \* what each finished import answered
          undone,      \* history: a commit that hit the unique index
          moved        \* history: an import that took a role from a folder

vars == <<folder, locked, roleRequest, report, undone, moved>>

None == "none"
NoFolder == "no folder"
Role == {AllRoles[i] : i \in DOMAIN AllRoles}
Idle == [at |-> "idle", kind |-> None, run |-> {}, name |-> NoFolder, role |-> None,
         saw |-> [n \in {} |-> None]]

Init ==
  /\ folder = [n \in {} |-> None] /\ locked = None
  /\ roleRequest = [p \in Process |-> Idle]
  /\ report = [p \in Process |-> [n \in {} |-> None]]
  /\ undone = FALSE /\ moved = FALSE

Stored == DOMAIN folder

-----------------------------------------------------------------------------
(* Requests of the add-mailbox card and of the account settings.           *)

Ask(p, what) ==
  /\ roleRequest[p] = Idle
  /\ roleRequest' = [roleRequest EXCEPT ![p] = what]
  /\ UNCHANGED <<folder, locked, report, undone, moved>>

AskImport(p, run) == Ask(p, [Idle EXCEPT !.at = "asked", !.kind = "import", !.run = run])
AskRole(p, name, role) ==
  /\ name \in Stored
  /\ Ask(p, [Idle EXCEPT !.at = "asked", !.kind = IF role = None THEN "clear" ELSE "assign",
                         !.name = name, !.role = role])

-----------------------------------------------------------------------------
(* What an import decides on the rows it read.                             *)

\* A spelling whose key is stored maps onto the stored row.
StoredAs(rows, name) ==
  IF \E n \in DOMAIN rows : KeyOf[n] = KeyOf[name]
  THEN CHOOSE n \in DOMAIN rows : KeyOf[n] = KeyOf[name] ELSE name

Discovered(rows, run) == {[name |-> StoredAs(rows, f.name), roles |-> f.roles] : f \in run}
WithFresh(rows, run) ==
  [n \in DOMAIN rows \cup {f.name : f \in Discovered(rows, run)} |->
     IF n \in DOMAIN rows THEN rows[n] ELSE None]

Holder(rows, role) == {n \in DOMAIN rows : rows[n] = role}
AnyHinted(rows, found, role) == {f.name : f \in {x \in found : role \in x.roles}}
Hinted(rows, found, role) ==
  {n \in {f.name : f \in {x \in found : role \in x.roles}} : rows[n] \in {None, role}}

\* One role: one candidate fills an empty role; several are ambiguous, and a
\* held role is left where it is.
FillOne(found, done, role) ==
  LET some == Hinted(done.rows, found, role)
  IN  IF Cardinality(some) = 1 /\ Holder(done.rows, role) = {}
      THEN LET n == CHOOSE n \in some : TRUE
           IN  [rows |-> [done.rows EXCEPT ![n] = role],
                assigned |-> [r \in DOMAIN done.assigned \cup {role} |->
                                IF r = role THEN n ELSE done.assigned[r]]]
      ELSE done

FillRoles(rows, run) ==
  LET found == Discovered(rows, run)
  IN  FoldLeft(LAMBDA done, role : FillOne(found, done, role),
               [rows |-> WithFresh(rows, run), assigned |-> [r \in {} |-> NoFolder]], AllRoles)

\* An explicit choice replaces the folder that held the role.
Assigned(rows, name, role) ==
  [n \in DOMAIN rows |-> IF n = name THEN role ELSE IF rows[n] = role THEN None ELSE rows[n]]

Outcome(r) ==
  CASE r.kind = "import" -> FillRoles(r.saw, r.run).rows
    [] r.kind = "assign" -> Assigned(r.saw, r.name, r.role)
    [] r.kind = "clear" -> [r.saw EXCEPT ![r.name] = None]

-----------------------------------------------------------------------------
(* The transaction.                                                        *)

NoLock(p) == UNCHANGED locked
LockAccountRow(p) == locked = None /\ locked' = p

Begin(p) ==
  /\ roleRequest[p].at = "asked"
  /\ LockAccountRow(p)
  /\ roleRequest' = [roleRequest EXCEPT ![p].at = "read", ![p].saw = folder]
  /\ UNCHANGED <<folder, report, undone, moved>>

\* Only the rows a transaction changed are written over the committed ones.
Written(saw, mine) ==
  [n \in Stored \cup DOMAIN mine |->
     IF n \in DOMAIN mine /\ (n \notin DOMAIN saw \/ mine[n] # saw[n]) THEN mine[n]
     ELSE folder[n]]
Unique(rows) == \A n, o \in DOMAIN rows : rows[n] = rows[o] /\ rows[n] # None => n = o

Commit(p) ==
  LET r == roleRequest[p]
      rows == Written(r.saw, Outcome(r))
  IN  /\ r.at = "read"
      /\ roleRequest' = [roleRequest EXCEPT ![p] = Idle]
      /\ locked' = IF locked = p THEN None ELSE locked
      /\ IF Unique(rows)
         THEN /\ folder' = rows
              /\ report' = [report EXCEPT ![p] = IF r.kind = "import"
                                                 THEN FillRoles(r.saw, r.run).assigned
                                                 ELSE [n \in {} |-> None]]
              /\ moved' = (moved \/ (r.kind = "import" /\
                             \E n \in DOMAIN r.saw : r.saw[n] # None /\ rows[n] # r.saw[n]))
              /\ UNCHANGED undone
         ELSE undone' = TRUE /\ UNCHANGED <<folder, report, moved>>

Owner(p) ==
  \/ \E run \in Runs : AskImport(p, run)
  \/ \E name \in Stored, role \in Role \cup {None} : AskRole(p, name, role)

Next == \E p \in Process : Owner(p) \/ Begin(p) \/ Commit(p)
Spec == Init /\ [][Next]_vars

-----------------------------------------------------------------------------
TypeOK ==
  /\ Stored \subseteq Name /\ \A n \in Stored : folder[n] \in Role \cup {None}
  /\ \A p \in Process : roleRequest[p].at \in {"idle", "asked", "read"}
  /\ locked \in Process \cup {None}

(* One mailbox has one row and one role one folder; no request that races  *)
(* another fails on the index, and no import moves a role that a folder    *)
(* holds (importFolders, lockAccountRow, folderKey).                       *)
RolesAreStable ==
  /\ ~undone /\ ~moved
  /\ \A n, o \in Stored : KeyOf[n] = KeyOf[o] => n = o

(* An import reports a role as assigned only to the folder that then holds *)
(* it, also when one folder hints at two roles (importFolders).            *)
KeepsReports ==
  \A p \in Process : roleRequest[p].kind = "import" /\ roleRequest'[p] = Idle /\ undone' = undone =>
    \A role \in DOMAIN report'[p] : folder'[report'[p][role]] = role
=============================================================================
