---------------------------- MODULE MCMailbox -----------------------------
(***************************************************************************)
(* Values for Mailbox: two overlapping cycles and a renumbering, and three *)
(* settings of the management actions.                                     *)
(***************************************************************************)
EXTENDS Mailbox, TLC

CONSTANTS
    w1, w2

\* Two moves of two messages in two folders; a crash, a renumbering, a refusal.
TwoMoves ==
    [action |-> {1, 2}, message |-> {1, 2}, folder |-> {"inbox", "archive"},
     folderOf |-> [m \in {1, 2} |-> IF m = 1 THEN "inbox" ELSE "archive"],
     kinds |-> {"move"}, run |-> {w1}, limit |-> 1, condstore |-> FALSE,
     maxChanges |-> 0, maxCrashes |-> 1, outside |-> {"reset", "refusal"},
     noFolder |-> "none"]

\* One move of two messages under two passes, and a recovery.
TwoPasses ==
    [TwoMoves EXCEPT !.action = {1}, !.folderOf = [m \in {1, 2} |-> "inbox"],
                     !.run = {w1, w2}, !.limit = 2, !.maxCrashes = 0,
                     !.outside = {"reset", "recovery"}]

\* A flag set and cleared in one folder, with changes by other clients.
TwoFlags ==
    [TwoMoves EXCEPT !.message = {1}, !.folder = {"inbox"},
                     !.folderOf = [m \in {1} |-> "inbox"],
                     !.kinds = {"set", "clear"}, !.limit = 2, !.condstore = TRUE,
                     !.maxChanges = 2, !.outside = {"removal", "vanish", "refusal"}]

ThreeSettings == [moves |-> TwoMoves, overlap |-> TwoPasses, flags |-> TwoFlags]

\* What the theorems about the actions ask of the constants.
ASSUME SettingValues == Moves!Sized /\ Overlap!Sized /\ Flags!Sized

MCSymmetry == Permutations({w1, w2}) \cup Permutations(Cycle)

=============================================================================
