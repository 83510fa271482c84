----------------------------- MODULE Originals -----------------------------
(***************************************************************************)
(* The originals of fetched mail: the body fetch that streams a message    *)
(* into durable storage and commits the row that refers to it              *)
(* (packages/sync/src/bodies.ts, packages/ingestion/src/service.ts), the   *)
(* durable store (packages/database/src/storage/fs-object-store.ts), the   *)
(* collection of unreferenced objects (gc.ts), the nightly backup and the  *)
(* restore (deploy/backup.sh, deploy/restore.sh).  A message and its row   *)
(* and the key of its original share a name.  The files and the database   *)
(* have no common transaction; a power failure drops what no directory     *)
(* sync has reached.                                                       *)
(***************************************************************************)
EXTENDS Naturals, FiniteSets

CONSTANTS Message,      \* rows imported from headers, one occurrence each
          Fetcher,      \* body fetches that may run at once
          Bytes,        \* contents, standing for their SHA-256 too
          First,        \* [Message -> Bytes]: what each UID holds at first
          Other,        \* what every UID holds once the mailbox is renumbered
          Unparsable,   \* contents the parser rejects
          MaxBackups,   \* bound on complete bundles, 0 or 1
          MaxReads,     \* bound on readers at once, 0 or 1
          MaxFaults     \* bound on power failures and restores

VARIABLES mail,         \* message rows
          holder,       \* the row each occurrence points to
          file,         \* durable objects, as seen and as on disk
          fetcher,      \* body fetches
          rebuild,      \* a reader that rebuilds a body or an attachment
          sweep,        \* the collection pass
          marker,       \* gc-pause
          backupRun,    \* the backup under way
          kept,         \* the last complete bundle, if any
          mailbox,      \* the mailbox generation: 1, then 2
          raced,        \* keys hit by one of the two races named below
          faults

vars == <<mail, holder, file, fetcher, rebuild, sweep, marker, backupRun, kept,
          mailbox, raced, faults>>

None == "none"

Mail == [state : {"pending", "fetched", "failed", "skipped", "merged"},
         digest : Bytes \cup {None},        \* originalSha256
         body : Bytes \cup {None},          \* what the bodies row derives from
         cached : Bytes \cup {None}]        \* what its attachment copy derives from

Object == [seen : Bytes \cup {None}, disk : Bytes \cup {None}, old : BOOLEAN]

Fetch == [at : {"idle", "listed", "selected", "visible", "synced", "checked",
                "parsed", "looked"},
          msg : Message, staged : Bytes \cup {None},
          into : Message \cup {None}, tried : BOOLEAN]

Idle(m) == [at |-> "idle", msg |-> m, staged |-> None, into |-> None, tried |-> FALSE]
Rest == [at |-> "idle", refs |-> {}, todo |-> {}, key |-> None]
Asleep == [at |-> "idle", kind |-> "body", msg |-> None, from |-> None]
NoBundle == [at |-> "idle", todo |-> {}]
Absent == [seen |-> None, disk |-> None, old |-> FALSE]
Provisional == [state |-> "pending", digest |-> None, body |-> None, cached |-> None]
SomeMessage == CHOOSE m \in Message : TRUE

Init ==
  /\ mail = [m \in Message |-> Provisional]
  /\ holder = [m \in Message |-> m]
  /\ file = [m \in Message |-> Absent]
  /\ fetcher = [p \in Fetcher |-> Idle(SomeMessage)]
  /\ rebuild = Asleep /\ sweep = Rest /\ backupRun = NoBundle
  /\ marker = "none" /\ kept = NoBundle
  /\ mailbox = 1 /\ raced = {} /\ faults = 0

-----------------------------------------------------------------------------
(* The fetch of one body.                                                  *)

At(p, step) == fetcher[p].at = step
Goes(p, step) == fetcher' = [fetcher EXCEPT ![p].at = step]
Stops(p) == fetcher' = [fetcher EXCEPT ![p] = Idle(@.msg)]
Held(m) == mail[m].state = "fetched"
OnServer(m) == IF mailbox = 1 THEN First[m] ELSE Other
Elsewhere == <<rebuild, sweep, marker, backupRun, kept, mailbox, faults>>

\* The row is a body job: not fetched, not failed, of an accepted size.
Pending(p, m) ==
  /\ At(p, "idle") /\ mail[m].state = "pending"
  /\ fetcher' = [fetcher EXCEPT ![p] = [Idle(m) EXCEPT !.at = "listed"]]
  /\ UNCHANGED <<mail, holder, file, raced, Elsewhere>>

\* The occurrence must still point to the row and the row lack its body.
LoadTarget(m) == holder[m] = m /\ ~Held(m)

SameGeneration == mailbox = 1

\* loadTarget and select: a renumbered mailbox ends the fetch.
Select(p) ==
  /\ At(p, "listed")
  /\ IF LoadTarget(fetcher[p].msg) /\ SameGeneration THEN Goes(p, "selected") ELSE Stops(p)
  /\ UNCHANGED <<mail, holder, file, raced, Elsewhere>>

\* Race 1: two fetches of one message stage different bytes under its key.
Overwrites(p, m) ==
  \/ Held(m) /\ mail[m].digest # OnServer(m)
  \/ \E q \in Fetcher \ {p} : /\ fetcher[q].msg = m
                              /\ fetcher[q].staged \notin {None, OnServer(m)}

\* The bytes become visible by a rename; the directory is not synced yet.
Stage(p) ==
  LET m == fetcher[p].msg
  IN  /\ At(p, "selected")
      /\ fetcher' = [fetcher EXCEPT ![p].at = "visible", ![p].staged = OnServer(m)]
      /\ file' = [file EXCEPT ![m].seen = OnServer(m), ![m].old = FALSE]
      /\ raced' = IF Overwrites(p, m) THEN raced \cup {m} ELSE raced
      /\ UNCHANGED <<mail, holder, Elsewhere>>

\* The stream crosses the size bound: nothing is renamed, the row leaves the jobs.
SkipOversized(p) ==
  LET m == fetcher[p].msg
  IN  /\ At(p, "selected") /\ Stops(p)
      /\ mail' = IF mail[m].state = "pending"
                 THEN [mail EXCEPT ![m].state = "skipped"] ELSE mail
      /\ UNCHANGED <<holder, file, raced, Elsewhere>>

\* The message is gone, the stream breaks, or the volume is too full.
GiveUp(p) ==
  /\ At(p, "selected") /\ Stops(p)
  /\ UNCHANGED <<mail, holder, file, raced, Elsewhere>>

\* The sidecar is written and the directory synced: what is seen will survive.
NotSynced(m) == file
Synced(m) == [file EXCEPT ![m].disk = file[m].seen]

SyncDirectory(p) ==
  /\ At(p, "visible") /\ Goes(p, "synced")
  /\ file' = Synced(fetcher[p].msg)
  /\ UNCHANGED <<mail, holder, raced, Elsewhere>>

Unchecked == TRUE
StillSame == SameGeneration

\* The generation must have held, or the staged object stays unreferenced.
Revalidate(p) ==
  /\ At(p, "synced")
  /\ IF StillSame THEN Goes(p, "checked") ELSE Stops(p)
  /\ UNCHANGED <<mail, holder, file, raced, Elsewhere>>

\* The stored bytes are read back, compared with what was staged, and parsed.
ApplyStaged(p) ==
  LET m == fetcher[p].msg
      good == file[m].seen = fetcher[p].staged
  IN  /\ At(p, "checked")
      /\ IF good /\ fetcher[p].staged \notin Unparsable THEN Goes(p, "parsed") ELSE Stops(p)
      /\ mail' = IF good /\ fetcher[p].staged \in Unparsable /\ mail[m].state = "pending"
                 THEN [mail EXCEPT ![m].state = "failed"] ELSE mail
      /\ UNCHANGED <<holder, file, raced, Elsewhere>>

Twins(m, digest) == {d \in Message \ {m} : Held(d) /\ mail[d].digest = digest}

\* The transaction locks the row and looks for a row with the same bytes.
LookForTwin(p) ==
  LET m == fetcher[p].msg
      twins == Twins(m, fetcher[p].staged)
  IN  /\ At(p, "parsed")
      /\ \A q \in Fetcher : fetcher[q].msg = m => ~At(q, "looked")
      /\ IF mail[m].state = "merged" THEN Stops(p)
         ELSE \E d \in IF twins = {} THEN {None} ELSE twins :
                fetcher' = [fetcher EXCEPT ![p].at = "looked", ![p].into = d]
      /\ UNCHANGED <<mail, holder, file, raced, Elsewhere>>

\* Occurrences move to the survivor and the provisional row disappears.
Moved(m, survivor) == [n \in Message |-> IF holder[n] = m THEN survivor ELSE holder[n]]

MergeDuplicate(p) ==
  LET m == fetcher[p].msg
  IN  /\ At(p, "looked") /\ fetcher[p].into # None /\ Stops(p)
      /\ holder' = Moved(m, fetcher[p].into)
      /\ mail' = [mail EXCEPT ![m] = [Provisional EXCEPT !.state = "merged"]]
      /\ UNCHANGED <<file, raced, Elsewhere>>

ApplyIngested(p) ==
  LET m == fetcher[p].msg
      digest == fetcher[p].staged
  IN  /\ At(p, "looked") /\ fetcher[p].into = None
      /\ Twins(m, digest) = {} /\ Stops(p)
      /\ mail' = [mail EXCEPT ![m].state = "fetched", ![m].digest = digest, ![m].body = digest]
      /\ UNCHANGED <<holder, file, raced, Elsewhere>>

\* The unique (account, hash) index refuses the loser, who looks once more.
UniqueViolation(p) ==
  /\ At(p, "looked") /\ fetcher[p].into = None
  /\ Twins(fetcher[p].msg, fetcher[p].staged) # {}
  /\ IF fetcher[p].tried THEN Stops(p)
     ELSE fetcher' = [fetcher EXCEPT ![p].at = "parsed", ![p].tried = TRUE]
  /\ UNCHANGED <<mail, holder, file, raced, Elsewhere>>

FetchBody(p) ==
  \/ \E m \in Message : Pending(p, m)
  \/ Select(p) \/ Stage(p) \/ SkipOversized(p) \/ GiveUp(p) \/ SyncDirectory(p)
  \/ Revalidate(p) \/ ApplyStaged(p) \/ LookForTwin(p) \/ MergeDuplicate(p)
  \/ ApplyIngested(p) \/ UniqueViolation(p)

-----------------------------------------------------------------------------
(* Copies rebuilt from the original when someone reads the message.        *)

Aside == <<holder, file, fetcher, sweep, marker, backupRun, kept, mailbox, raced, faults>>

\* Only an original that still has the recorded digest is parsed.
Verified(m) == file[m].seen = mail[m].digest

ReadOriginal(kind, m) ==
  /\ rebuild.at = "idle" /\ MaxReads = 1 /\ Held(m) /\ Verified(m)
  /\ rebuild' = [at |-> "read", kind |-> kind, msg |-> m, from |-> file[m].seen]
  /\ UNCHANGED <<mail, Aside>>

RefreshSanitizedBody ==
  /\ rebuild.at = "read" /\ rebuild.kind = "body"
  /\ mail' = IF Held(rebuild.msg)
             THEN [mail EXCEPT ![rebuild.msg].body = rebuild.from] ELSE mail
  /\ rebuild' = Asleep /\ UNCHANGED Aside

RegenerateAttachment ==
  /\ rebuild.at = "read" /\ rebuild.kind = "attachment"
  /\ mail' = IF Held(rebuild.msg)
             THEN [mail EXCEPT ![rebuild.msg].cached = rebuild.from] ELSE mail
  /\ rebuild' = Asleep /\ UNCHANGED Aside

Rebuild ==
  \/ \E kind \in {"body", "attachment"}, m \in Message : ReadOriginal(kind, m)
  \/ RefreshSanitizedBody \/ RegenerateAttachment

-----------------------------------------------------------------------------
(* Collection of the objects no row refers to.                             *)

Apart == <<mail, holder, fetcher, rebuild, backupRun, kept, mailbox, faults>>

\* The marker is read once, before anything else.
StartCollection ==
  /\ sweep.at = "idle" /\ marker = "none"
  /\ sweep' = [sweep EXCEPT !.at = "started"]
  /\ UNCHANGED <<file, marker, raced, Apart>>

ReferencedKeys ==
  /\ sweep.at = "started"
  /\ sweep' = [sweep EXCEPT !.at = "listing", !.refs = {m \in Message : Held(m)},
                            !.todo = Message]
  /\ UNCHANGED <<file, marker, raced, Apart>>

PastGrace(k) == file[k].seen # None /\ file[k].old

\* A key is examined once; an unreferenced one past the grace period goes next.
ExamineKey(k) ==
  /\ sweep.at = "listing" /\ sweep.key = None /\ k \in sweep.todo
  /\ sweep' = [sweep EXCEPT !.todo = @ \ {k},
                            !.key = IF k \notin sweep.refs /\ PastGrace(k) THEN k ELSE None]
  /\ UNCHANGED <<file, marker, raced, Apart>>

\* Race 2: the key was staged again between its examination and its removal.
RemoveObject(k) ==
  /\ sweep.key = k
  /\ file' = [file EXCEPT ![k] = Absent]
  /\ sweep' = [sweep EXCEPT !.key = None]
  /\ raced' = IF file[k].seen # None /\ ~file[k].old THEN raced \cup {k} ELSE raced
  /\ UNCHANGED <<marker, Apart>>

EndCollection ==
  /\ sweep.at # "idle" /\ sweep' = Rest
  /\ UNCHANGED <<file, marker, raced, Apart>>

Collect ==
  \/ StartCollection \/ ReferencedKeys \/ EndCollection
  \/ \E k \in Message : ExamineKey(k) \/ RemoveObject(k)

-----------------------------------------------------------------------------
(* Backup and restore.                                                     *)

Live == <<mail, holder, file, fetcher, rebuild, sweep, mailbox, raced, faults>>
Snapshot == [mail |-> mail, holder |-> holder]

\* mkdir claims the marker; one a killed run left behind is taken over.
ClaimMarker ==
  /\ backupRun.at = "idle" /\ kept = NoBundle /\ MaxBackups = 1 /\ marker \in {"none", "left"}
  /\ marker' = "held"
  /\ backupRun' = [at |-> "claimed", todo |-> {}]
  /\ UNCHANGED <<kept, Live>>

\* pg_dump: one snapshot of the rows, before the first object is copied.
DumpRows ==
  /\ backupRun.at = "claimed"
  /\ backupRun' = [at |-> "copying", todo |-> Message, rows |-> Snapshot,
                files |-> [m \in Message |-> Absent]]
  /\ UNCHANGED <<marker, kept, Live>>

\* cp -a keeps the modification time, so an old object stays old.
CopyObject(k) ==
  /\ backupRun.at = "copying" /\ k \in backupRun.todo
  /\ backupRun' = [backupRun EXCEPT !.todo = @ \ {k}, !.files[k] = [file[k] EXCEPT !.disk = file[k].seen]]
  /\ UNCHANGED <<marker, kept, Live>>

RowsAtTheEnd == Snapshot
RowsDumped == backupRun.rows

\* The manifest is written and checked; the marker goes when the run ends.
FinishBackup ==
  /\ backupRun.at = "copying" /\ backupRun.todo = {}
  /\ kept' = [at |-> "complete", rows |-> RowsDumped, files |-> backupRun.files]
  /\ backupRun' = NoBundle /\ marker' = "none"
  /\ UNCHANGED Live

\* A failing step removes the bundle and the marker; a kill leaves the marker.
FailBackup ==
  /\ backupRun.at # "idle"
  /\ backupRun' = NoBundle /\ marker' \in {"none", "left"}
  /\ UNCHANGED <<kept, Live>>

\* The processes are stopped; the rows are replaced, the objects added to
\* what is there, the cache deleted.
RestoredFile(k) == IF kept.files[k].seen # None THEN kept.files[k] ELSE file[k]

Restore ==
  /\ kept # NoBundle /\ backupRun.at = "idle" /\ faults < MaxFaults
  /\ mail' = [m \in Message |-> [kept.rows.mail[m] EXCEPT !.cached = None]]
  /\ holder' = kept.rows.holder
  /\ file' = [k \in Message |-> RestoredFile(k)]
  /\ fetcher' = [p \in Fetcher |-> Idle(SomeMessage)]
  /\ rebuild' = Asleep /\ sweep' = Rest /\ faults' = faults + 1
  /\ UNCHANGED <<marker, backupRun, kept, mailbox, raced>>

Backup ==
  \/ ClaimMarker \/ DumpRows \/ FinishBackup \/ FailBackup \/ Restore
  \/ \E k \in Message : CopyObject(k)

-----------------------------------------------------------------------------
(* The surroundings.                                                       *)

\* Power goes: what no directory sync reached is gone, the database stays.
PowerFailure ==
  /\ faults < MaxFaults /\ faults' = faults + 1
  /\ file' = [k \in Message |-> [file[k] EXCEPT !.seen = file[k].disk]]
  /\ fetcher' = [p \in Fetcher |-> Idle(SomeMessage)]
  /\ rebuild' = Asleep /\ sweep' = Rest
  /\ IF backupRun.at = "idle" THEN UNCHANGED <<backupRun, marker>>
     ELSE backupRun' = NoBundle /\ marker' = "left"
  /\ UNCHANGED <<mail, holder, kept, mailbox, raced>>

\* A week passes: no fetch, pass or backup runs that long.
Age(k) ==
  /\ file[k].seen # None /\ ~file[k].old
  /\ sweep.at = "idle" /\ backupRun.at = "idle"
  /\ \A p \in Fetcher : ~At(p, "idle") => fetcher[p].msg # k
  /\ file' = [file EXCEPT ![k].old = TRUE]
  /\ UNCHANGED <<mail, holder, fetcher, rebuild, sweep, marker, backupRun, kept,
                 mailbox, raced, faults>>

\* The server gives the mailbox a new UIDVALIDITY and other messages.
Renumber ==
  /\ mailbox = 1 /\ mailbox' = 2
  /\ UNCHANGED <<mail, holder, file, fetcher, rebuild, sweep, marker, backupRun,
                 kept, raced, faults>>

Next ==
  \/ \E p \in Fetcher : FetchBody(p)
  \/ Rebuild \/ Collect \/ Backup
  \/ PowerFailure \/ Renumber \/ \E k \in Message : Age(k)

Spec == Init /\ [][Next]_vars

-----------------------------------------------------------------------------
TypeOK ==
  /\ mail \in [Message -> Mail] /\ holder \in [Message -> Message]
  /\ file \in [Message -> Object] /\ fetcher \in [Fetcher -> Fetch]
  /\ sweep.key \in Message \cup {None} /\ marker \in {"none", "held", "left"}
  /\ (backupRun.at # "idle") = (marker = "held")
  /\ mailbox \in 1..2 /\ raced \subseteq Message /\ faults \in 0..MaxFaults

(* A row that says its body was fetched has its original, with the digest  *)
(* it recorded, through power failures, merges, collection and a restore   *)
(* (writeObject syncs before the commit; gc.ts removes only unreferenced   *)
(* objects), but for the two races named at Stage and RemoveObject.        *)
OriginalsAreIntact ==
  \A m \in Message \ raced : Held(m) => file[m].seen = mail[m].digest

(* Every occurrence points to a living row, a fetched row holds what its   *)
(* UIDs held when they were listed, its body and copies come from those    *)
(* bytes, and no two rows hold the same (commitParsed, mergeDuplicate,     *)
(* revalidate).                                                            *)
RightOriginal ==
  /\ \A n \in Message :
       LET row == mail[holder[n]]
       IN  /\ row.state # "merged"
           /\ Held(holder[n]) => row.digest = First[n]
  /\ \A m \in Message : /\ mail[m].body \in {None, mail[m].digest}
                        /\ mail[m].cached \in {None, mail[m].digest}
                        /\ Held(m) => Twins(m, mail[m].digest) = {}

(* A complete bundle holds every original its own rows refer to, whatever  *)
(* was fetched, merged or collected while it was taken (backup.sh).        *)
BundleIsComplete ==
  kept # NoBundle =>
    \A m \in Message \ raced :
      kept.rows.mail[m].state = "fetched" =>
        kept.files[m].seen = kept.rows.mail[m].digest
=============================================================================
