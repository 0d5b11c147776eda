--------------------------- MODULE MCBackupStore  ---------------------------
(* Values of the constants of BackupStore for model checking. *)
EXTENDS BackupStore, TLC

CONSTANTS c1, c2

MCSizeOf == [c \in Contents |-> IF c = c1 THEN 1 ELSE 2]
MCUniformSize == [c \in Contents |-> 1]
MCSymmetry == Permutations(Guids) \cup Permutations(Contents)
MCNoExclusion == {{}}
MCOneExclusion == {{}, {1}}
MCBothModes == {TRUE, FALSE}
MCLiveOnly == {FALSE}
MCSnapshotOnly == {TRUE}
=============================================================================
