----------------------------- MODULE AtomicFile ------------------------------
(***************************************************************************)
(* What gostui-config/src/atomic.rs promises of the file it replaces: a    *)
(* reader sees one whole text or another, a power cut leaves one of them,  *)
(* and nobody ever sees a part.                                            *)
(***************************************************************************)
CONSTANTS Contents,  \* the texts a save may write
          NoFile     \* no file by that name

VARIABLES value,  \* what a reader finds now
          saved   \* what a power cut would leave

Init == value \in Contents \cup {NoFile} /\ saved = value

Replace == value' \in Contents /\ UNCHANGED saved

Persist == saved' = value /\ UNCHANGED value

PowerCut == value' = saved /\ UNCHANGED saved

Next == Replace \/ Persist \/ PowerCut

Spec == Init /\ [][Next]_<<value, saved>>
=============================================================================
