---------------------------- MODULE FetchedMail ----------------------------
(***************************************************************************)
(* What becomes of fetched mail on the server, from four sides: its        *)
(* original in durable storage (Originals), the conversation it joins      *)
(* (Threads), the sweep that classifies it (Classification), and what the  *)
(* owner saves about it (HomeWork).  They share no state here: a step of   *)
(* the whole is a step of one of them.                                     *)
(***************************************************************************)
EXTENDS Integers, FiniteSets, Sequences

CONSTANTS
    Message,
    Fetcher, Bytes, First, Other, Unparsable, MaxBackups, MaxReaders,
    MaxFaults,                                        \* of Originals
    Sender, SenderOf, Ruled, Class, Labels, Backfill, Cap, BatchLimit,
    Threshold, Window, Cooldown, MaxTime, MaxChanges, \* of Classification
    Device, Kind, Target, Choices, SavedWork, MaxVersion, MaxGen, \* of HomeWork
    Pass, MessageRow, HeaderParse, FullParse, Content, Windows    \* of Threads

VARIABLES
    mail, holder, file, fetcher, rebuild, sweep, marker, backupRun, kept,
    mailbox, raced, faults,
    stored, recent, enabled, lastSession, answer, override, placed,
    decided, failures, clock, cycle, evaluated, routing, choice, early,
    changes,
    generation, storedMail, work, dismissed, prioritized, bundle, screen,
    change, version, blind,
    messages, mergedAway, threads, threadPass

originalsVars == <<mail, holder, file, fetcher, rebuild, sweep, marker,
                  backupRun, kept, mailbox, raced, faults>>
classificationVars == <<stored, recent, enabled, lastSession, answer,
                       override, placed, decided, failures, clock, cycle,
                       evaluated, routing, choice, early, changes>>
homeWorkVars == <<generation, storedMail, work, dismissed, prioritized,
                 bundle, screen, change, version, blind>>
threadsVars == <<messages, mergedAway, threads, threadPass>>
fetchedVars == <<originalsVars, classificationVars, homeWorkVars, threadsVars>>

\* Fetches, the collection, backups, power failures and restores.
Storage == INSTANCE Originals WITH MaxReads <- MaxReaders

\* The sweep beside the corrections of the owner.
Sweeping == INSTANCE Classification

\* Reply-later work and reminders, on several devices.
Saved == INSTANCE HomeWork WITH Work <- SavedWork

\* Imports, merges and reconciliation passes of one account.
Threading == INSTANCE Threads WITH
    Header <- HeaderParse, Full <- FullParse, Bytes <- Content

\* A row or a digest is never the absent one; failures are counted in whole
\* numbers of the same clock that measures the window and the cooldown.
ASSUME FetchedAssumption ==
    /\ Storage!None \notin Message /\ Storage!None \notin Bytes
    /\ First \in [Message -> Bytes] /\ Other \in Bytes
    /\ Cap \in Nat /\ Threshold \in Nat /\ Window \in Nat /\ Cooldown \in Nat
    /\ IsFiniteSet(MessageRow) /\ Threading!None \notin MessageRow
    /\ Windows \subseteq SUBSET MessageRow

\* Copies of one message parse alike, and the identifier a header block
\* yields is not what the body's parse finds the message to refer to.
CopiesAgree ==
    \A r, s \in MessageRow :
        Content[r] = Content[s] => HeaderParse[r] = HeaderParse[s] /\ FullParse[r] = FullParse[s]
ParsesAgree ==
    \A r \in MessageRow :
        HeaderParse[r].id = FullParse[r].ref => HeaderParse[r].id = FullParse[r].id

FetchedInit == Storage!Init /\ Sweeping!Init /\ Saved!Init /\ Threading!Init

StorageMoves ==
    Storage!Next /\ UNCHANGED <<classificationVars, homeWorkVars, threadsVars>>
SweepMoves ==
    Sweeping!Next /\ UNCHANGED <<originalsVars, homeWorkVars, threadsVars>>
SavedMoves ==
    Saved!Next /\ UNCHANGED <<originalsVars, classificationVars, threadsVars>>
ThreadingMoves ==
    Threading!Next /\ UNCHANGED <<originalsVars, classificationVars, homeWorkVars>>

FetchedNext == StorageMoves \/ SweepMoves \/ SavedMoves \/ ThreadingMoves

FetchedSpec == FetchedInit /\ [][FetchedNext]_fetchedVars

-----------------------------------------------------------------------------
(* A fetched row has its original, the right one, through power failures,  *)
(* collection and restore, and a bundle is complete (bodies.ts,            *)
(* fs-object-store.ts, gc.ts, backup.sh).                                  *)
OriginalsAreIntact ==
    /\ Storage!OriginalsAreIntact
    /\ Storage!RightOriginal
    /\ Storage!BundleIsComplete

(* No call is made while a burst of failures lies inside the cooldown, and *)
(* calls stay within the monthly ceiling (assessCircuit, classifyRow).     *)
SpendingIsBounded == Sweeping!BreakerHolds /\ Sweeping!SpendsWithinCap

(* Every parent cycle is marked to be broken, settled links follow the     *)
(* headers, and with no job left a conversation is one thread and a thread *)
(* one conversation (decideLink, markThreadJobsDirty, reconcileRow).       *)
ThreadsFollowLinks == Threading!LinksAreSound /\ Threading!ThreadsFollowLinks

=============================================================================
