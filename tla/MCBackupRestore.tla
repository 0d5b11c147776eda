--------------------------- MODULE MCBackupRestore ---------------------------
(* Values of the constants of BackupRestore for model checking. *)
EXTENDS BackupRestore, TLC

MCUniformSize == [c \in Contents |-> 1]
MCSymmetry == Permutations(Guids) \cup Permutations(Contents)
MCNoExclusion == {{}}
MCBothModes == {TRUE, FALSE}
MCLiveOnly == {FALSE}
=============================================================================
