----------------------------- MODULE MCDevice -----------------------------
(***************************************************************************)
(* The three sides of a draft, one at a time: the scenario says which of   *)
(* them moves; the others rest in their initial state, so the state spaces *)
(* add up instead of multiplying.                                          *)
(***************************************************************************)
EXTENDS DraftClients, TLC

VARIABLE scenario

DeviceInit == scenario \in {"drafts", "editors", "offline"} /\ ClientsInit

DeviceNext ==
    /\ UNCHANGED scenario
    /\ \/ scenario = "drafts" /\ DraftsMove
       \/ scenario = "editors" /\ EditorsMove
       \/ scenario = "offline" /\ OfflineMoves

allVars == <<scenario, clientsVars>>

DeviceSpec == DeviceInit /\ [][DeviceNext]_allVars

MCSymmetry == Permutations(Request) \cup Permutations(Upload)

-----------------------------------------------------------------------------
(* The state of the editors and of the queue keeps its type.               *)
PartsTypeOK ==
    /\ scenario = "editors" => Editors!TypeOK
    /\ scenario = "offline" => Offline!TypeOK
=============================================================================
