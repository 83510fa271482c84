---------------------------- MODULE ScriptedImap ----------------------------
(***************************************************************************)
(* The scripted mailbox every synchronization, send and action suite runs  *)
(* against (packages/harness/src/mailbox-store.ts, imap-server.ts): one    *)
(* store of folders shared by several connections, each with its own view  *)
(* of the selected folder, and a queue of faultQueue.  What the suites conclude*)
(* about conditional writes and sequence numbers is only as good as this   *)
(* server.                                                                 *)
(*                                                                         *)
(* Commands act by UID, on one message or on all.  A delayed answer is a   *)
(* command that arrives later; a search, a listing and a status change     *)
(* nothing and are left out.                                               *)
(***************************************************************************)
EXTENDS Naturals, FiniteSets, Sequences, SequencesExt, FiniteSetsExt

CONSTANTS Connection, Folder, MaxMessages, MaxModseq, MaxBoxes, MaxGeneration, MaxFaults

VARIABLES boxes,    \* every folder object made, also those a folder replaced
          paths,  \* the object behind each path
          connections,  \* what the server keeps per connection
          heard,    \* what the client of a connection was told
          faultQueue,   \* scripted faultQueue, one consumed per command
          minted    \* messages stored so far

vars == <<boxes, paths, connections, heard, faultQueue, minted>>

Flag == {"seen", "deleted"}
FaultKind == {"drop", "no", "lost-append"}

EmptyBox(generation) == [generation |-> generation, messages |-> <<>>, next |-> 1, highest |-> 1]
Unselected == 0
Nowhere == "none"
NoSession == [open |-> FALSE, authenticated |-> FALSE, condstore |-> FALSE,
              selected |-> Unselected, view |-> <<>>, literal |-> Nowhere]
\* The numbered list and the flags a client holds; `own` marks its own append
\* to the folder it has selected, after which the numbers are not checked.
NothingHeard == [list |-> <<>>, read |-> <<>>, mark |-> 0, own |-> FALSE]

Init ==
  /\ LET order == SetToSeq(Folder)
     IN  /\ boxes = [i \in DOMAIN order |-> EmptyBox(1)]
         /\ paths = [f \in Folder |-> CHOOSE i \in DOMAIN order : order[i] = f]
  /\ connections = [c \in Connection |-> NoSession] /\ heard = [c \in Connection |-> NothingHeard]
  /\ faultQueue = <<>> /\ minted = 0

uidsAscending(box) == SetToSortSeq(DOMAIN box.messages, LAMBDA a, b : a < b)

\* A message enters a box under its next UID and a fresh modification sequence.
Place(box, id, flags) ==
  [box EXCEPT !.next = @ + 1, !.highest = @ + 1,
     !.messages = [u \in DOMAIN @ \cup {box.next} |->
                     IF u = box.next THEN [id |-> id, flags |-> flags, modseq |-> box.highest + 1]
                     ELSE @[u]]]

Without(box, U) == [box EXCEPT !.messages = [u \in DOMAIN @ \ U |-> @[u]]]

StampedBefore(box, uid) ==
  [box EXCEPT !.highest = @ + 1, !.messages[uid].modseq = box.highest]
StampedAlone(box, uid) == [box EXCEPT !.messages[uid].modseq = box.highest + 1]
bumpModseq(box, uid) ==
  [box EXCEPT !.highest = @ + 1, !.messages[uid].modseq = box.highest + 1]

-----------------------------------------------------------------------------
(* The tests' hand on the store.                                           *)

Unseen == UNCHANGED <<connections, heard, faultQueue>>

addMessage(f, flags) ==
  LET b == paths[f]
  IN  /\ minted < MaxMessages /\ boxes[b].highest < MaxModseq /\ Unseen
      /\ minted' = minted + 1
      /\ boxes' = [boxes EXCEPT ![b] = Place(@, minted + 1, flags)]
      /\ UNCHANGED paths

expunge(f, u) ==
  LET b == paths[f]
  IN  /\ u \in DOMAIN boxes[b].messages /\ Unseen
      /\ boxes' = [boxes EXCEPT ![b] = Without(@, {u})]
      /\ UNCHANGED <<paths, minted>>

resetUidValidity(f) ==
  LET b == paths[f]
  IN  /\ boxes[b].generation < MaxGeneration /\ Unseen
      /\ boxes' = [boxes EXCEPT ![b].generation = @ + 1]
      /\ UNCHANGED <<paths, minted>>

\* A new object takes the path; a connection that selected the old one keeps it.
replaceFolder(f) ==
  LET old == boxes[paths[f]]
  IN  /\ Len(boxes) < MaxBoxes /\ old.generation < MaxGeneration /\ minted < MaxMessages /\ Unseen
      /\ boxes' = Append(boxes, Place(EmptyBox(old.generation + 1), minted + 1, {}))
      /\ paths' = [paths EXCEPT ![f] = Len(boxes) + 1]
      /\ minted' = minted + 1

Script(kind) ==
  /\ Len(faultQueue) < MaxFaults /\ faultQueue' = Append(faultQueue, kind)
  /\ UNCHANGED <<boxes, paths, connections, heard, minted>>

-----------------------------------------------------------------------------
(* Connections.                                                            *)

Same == UNCHANGED <<boxes, paths, minted>>

onConnection(c) ==
  /\ ~connections[c].open /\ Same /\ UNCHANGED <<heard, faultQueue>>
  /\ connections' = [connections EXCEPT ![c].open = TRUE]

Hangs(c) ==
  /\ connections' = [connections EXCEPT ![c] = NoSession]
  /\ heard' = [heard EXCEPT ![c] = NothingHeard]

dropConnection(c) == connections[c].open /\ Hangs(c) /\ Same /\ UNCHANGED faultQueue

\* A command runs unless a fault is due; the lost append waits for an append.
Bends == {"drop", "no"}
Faulted(c) ==
  /\ connections[c].open /\ faultQueue # <<>> /\ Head(faultQueue) \in Bends
  /\ faultQueue' = Tail(faultQueue) /\ Same
  /\ IF Head(faultQueue) = "drop" THEN Hangs(c)
     ELSE /\ connections' = [connections EXCEPT ![c].literal = Nowhere] /\ UNCHANGED heard

Runs(c) == connections[c].open /\ (faultQueue # <<>> => Head(faultQueue) \notin Bends)
Works(c) == Runs(c) /\ connections[c].authenticated /\ connections[c].literal = Nowhere
Selected(c) == Works(c) /\ connections[c].selected # Unselected

Login(c) ==
  /\ Runs(c) /\ ~connections[c].authenticated /\ Same /\ UNCHANGED <<heard, faultQueue>>
  /\ connections' = [connections EXCEPT ![c].authenticated = TRUE]

Enable(c) ==
  /\ Works(c) /\ ~connections[c].condstore /\ Same /\ UNCHANGED <<heard, faultQueue>>
  /\ connections' = [connections EXCEPT ![c].condstore = TRUE]

handleSelect(c, f) ==
  LET view == uidsAscending(boxes[paths[f]])
  IN  /\ Works(c) /\ Same /\ UNCHANGED faultQueue
      /\ connections' = [connections EXCEPT ![c].selected = paths[f], ![c].view = view]
      /\ heard' = [heard EXCEPT ![c] = [NothingHeard EXCEPT !.list = view]]

Unselect(c) ==
  /\ Selected(c) /\ Same /\ UNCHANGED faultQueue
  /\ connections' = [connections EXCEPT ![c].selected = Unselected, ![c].view = <<>>]
  /\ heard' = [heard EXCEPT ![c] = NothingHeard]

\* Untagged answers: EXPUNGE by number, one after the other, then EXISTS.
Gone(view, box) == {i \in DOMAIN view : view[i] \notin DOMAIN box.messages}
AllAtOnce(view, G) == [k \in 1..Cardinality(G) |-> SetToSortSeq(G, LAMBDA a, b : a < b)[k]]
Numbers(view, G) == [k \in 1..Cardinality(G) |-> SetToSortSeq(G, LAMBDA a, b : a < b)[k] - (k - 1)]
ApplyExpunges(list, numbers) ==
  FoldLeft(LAMBDA l, n : IF n \in DOMAIN l THEN RemoveAt(l, n) ELSE l, list, numbers)
flushView(c, box, list) ==
  LET view  == connections[c].view
      left  == SelectSeq(view, LAMBDA u : u \in DOMAIN box.messages)
      now   == uidsAscending(box)
      after == ApplyExpunges(list, Numbers(view, Gone(view, box)))
  IN  [view |-> now, list |-> after \o SubSeq(now, Len(left) + 1, Len(now))]

\* What a command leaves behind: the box, the flushed view, the answers read.
Read(c, box, U) ==
  [u \in DOMAIN heard[c].read \cup U |->
     IF u \in U THEN [flags |-> box.messages[u].flags, modseq |-> box.messages[u].modseq]
     ELSE heard[c].read[u]]

Answers(c, box, read, mark) ==
  LET told == flushView(c, box, heard[c].list)
  IN  /\ connections' = [connections EXCEPT ![c].view = told.view]
      /\ heard' = [heard EXCEPT ![c].list = told.list, ![c].read = read, ![c].mark = mark]

Noop(c) ==
  /\ Selected(c) /\ Same /\ UNCHANGED faultQueue
  /\ Answers(c, boxes[connections[c].selected], heard[c].read, heard[c].mark)

\* Modification sequences are told only to a session that enabled them.
handleFetch(c, since) ==
  LET box     == boxes[connections[c].selected]
      visible == {u \in DOMAIN box.messages : box.messages[u].modseq > since}
  IN  /\ Selected(c) /\ Same /\ UNCHANGED faultQueue
      /\ IF connections[c].condstore
           THEN Answers(c, box, Read(c, box, visible),
                        Max({heard[c].mark} \cup {box.messages[u].modseq : u \in visible}))
           ELSE Answers(c, box, heard[c].read, heard[c].mark)

\* A conditional store leaves alone what changed since.
Current(box, u, unchangedSince) == box.messages[u].modseq <= unchangedSince
Touch(box, U, flags) ==
  FoldLeft(LAMBDA b, u : [bumpModseq(b, u) EXCEPT !.messages[u].flags = flags],
           box, SetToSortSeq(U, LAMBDA a, b : a < b))

handleStore(c, U, flags, unchangedSince, silent) ==
  LET b       == connections[c].selected
      written == {u \in U : Current(boxes[b], u, unchangedSince)}
      box     == Touch(boxes[b], written, flags)
      told    == IF silent \/ ~connections[c].condstore THEN {} ELSE written
  IN  /\ Selected(c) /\ U \subseteq DOMAIN boxes[b].messages /\ box.highest <= MaxModseq
      /\ boxes' = [boxes EXCEPT ![b] = box]
      /\ Answers(c, box, Read(c, box, told), heard[c].mark)
      /\ UNCHANGED <<paths, faultQueue, minted>>

\* EXPUNGE tells its own removals and nothing else.
handleExpunge(c) ==
  LET b      == connections[c].selected
      doomed == {u \in DOMAIN boxes[b].messages : "deleted" \in boxes[b].messages[u].flags}
      seen   == {i \in DOMAIN connections[c].view : connections[c].view[i] \in doomed}
  IN  /\ Selected(c) /\ doomed # {}
      /\ boxes' = [boxes EXCEPT ![b] = Without(@, doomed)]
      /\ connections' = [connections EXCEPT ![c].view = SelectSeq(@, LAMBDA u : u \notin doomed)]
      /\ heard' = [heard EXCEPT ![c].list = ApplyExpunges(@, Numbers(connections[c].view, seen))]
      /\ UNCHANGED <<paths, faultQueue, minted>>

\* Copies get UIDs of the destination; a move removes the sources after them.
CopyInto(box, from, U) ==
  FoldLeft(LAMBDA b, u : Place(b, from.messages[u].id, from.messages[u].flags),
           box, SetToSortSeq(U, LAMBDA a, b : a < b))

handleCopyMove(c, U, f, isMove) ==
  LET from   == connections[c].selected
      to     == paths[f]
      copied == [boxes EXCEPT ![to] = CopyInto(@, boxes[from], U)]
      left   == IF isMove THEN [copied EXCEPT ![from] = Without(@, U)] ELSE copied
  IN  /\ Selected(c) /\ U # {} /\ U \subseteq DOMAIN boxes[from].messages
      /\ copied[to].highest <= MaxModseq
      /\ boxes' = left
      /\ Answers(c, left[from], heard[c].read, heard[c].mark)
      /\ UNCHANGED <<paths, faultQueue, minted>>

\* The literal of an append is asked for, then sent.
Announce(c, f) ==
  /\ Works(c) /\ minted < MaxMessages /\ Same /\ UNCHANGED <<heard, faultQueue>>
  /\ connections' = [connections EXCEPT ![c].literal = f]

handleAppend(c) ==
  LET b    == paths[connections[c].literal]
      box  == Place(boxes[b], minted + 1, {})
      mine == connections[c].selected = b
      lost == faultQueue # <<>> /\ Head(faultQueue) = "lost-append"
  IN  /\ Runs(c) /\ connections[c].literal # Nowhere /\ box.highest <= MaxModseq
      /\ minted < MaxMessages /\ minted' = minted + 1
      /\ boxes' = [boxes EXCEPT ![b] = box]
      /\ faultQueue' = IF lost THEN Tail(faultQueue) ELSE faultQueue
      /\ IF lost THEN Hangs(c)
         ELSE /\ connections' = [connections EXCEPT ![c].literal = Nowhere,
                                           ![c].view = IF mine THEN uidsAscending(box) ELSE @]
              /\ heard' = [heard EXCEPT ![c].own = mine \/ @]
      /\ UNCHANGED paths

-----------------------------------------------------------------------------
Next ==
  \/ \E f \in Folder : \/ \E flags \in {{}, {"seen"}} : addMessage(f, flags)
                       \/ \E u \in 1..MaxMessages : expunge(f, u)
                       \/ resetUidValidity(f) \/ replaceFolder(f)
  \/ \E kind \in FaultKind : Script(kind)
  \/ \E c \in Connection :
       \/ onConnection(c) \/ dropConnection(c) \/ Faulted(c) \/ Login(c) \/ Enable(c)
       \/ Unselect(c) \/ Noop(c) \/ handleExpunge(c) \/ handleAppend(c)
       \/ \E f \in Folder : handleSelect(c, f) \/ Announce(c, f)
       \/ \E since \in {0, heard[c].mark} : handleFetch(c, since)
       \/ \E u \in DOMAIN heard[c].read, flags \in SUBSET Flag, silent \in BOOLEAN :
            handleStore(c, {u}, flags, heard[c].read[u].modseq, silent)
       \/ /\ connections[c].selected # Unselected
          /\ LET all == DOMAIN boxes[connections[c].selected].messages
             IN  \/ \E flags \in {{"seen"}, {"deleted"}} : handleStore(c, all, flags, MaxModseq, TRUE)
                 \/ \E f \in Folder, isMove \in BOOLEAN :
                      \E U \in {all} \cup {{u} : u \in all} : handleCopyMove(c, U, f, isMove)

Spec == Init /\ [][Next]_vars

-----------------------------------------------------------------------------
TypeOK ==
  /\ \A i \in DOMAIN boxes :
       /\ boxes[i].generation \in 1..MaxGeneration
       /\ \A u \in DOMAIN boxes[i].messages :
            /\ u < boxes[i].next /\ boxes[i].messages[u].modseq <= boxes[i].highest
            /\ boxes[i].messages[u].flags \subseteq Flag
  /\ \A f \in Folder : paths[f] \in DOMAIN boxes
  /\ \A c \in Connection : connections[c].selected \in {Unselected} \cup DOMAIN boxes
  /\ faultQueue \in Seq(FaultKind) /\ minted \in 0..MaxMessages

\* A modification sequence a client holds is proof that nothing changed since:
\* a message not past what the client read still has the flags it read, and a
\* fetch of the changes since its mark would miss none (mailbox-store.ts
\* bumpModseq, handleStore, handleFetch: a conditional write that is accepted
\* overwrites nothing unseen).
ModseqIsProof ==
  \A c \in Connection : connections[c].selected # Unselected =>
    LET messages == boxes[connections[c].selected].messages
        read == heard[c].read
    IN  \A u \in DOMAIN messages :
          /\ u \in DOMAIN read /\ messages[u].modseq <= read[u].modseq
               => messages[u].flags = read[u].flags
          /\ messages[u].modseq <= heard[c].mark
               => u \in DOMAIN read /\ read[u].flags = messages[u].flags

\* The numbers a client counts by name the messages the server means, whatever
\* other connections removed meanwhile (flushView, handleExpunge).
NumbersAgree ==
  \A c \in Connection : connections[c].selected # Unselected /\ ~heard[c].own
    => heard[c].list = connections[c].view
=============================================================================
