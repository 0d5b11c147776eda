---------------------------- MODULE VersionStore ----------------------------
(***************************************************************************)
(* What a target location promises its user: a list of numbered versions,  *)
(* each a copy of the source directory as it was when the version was      *)
(* made.  It knows nothing of streams, hashes or references between        *)
(* versions.                                                               *)
(***************************************************************************)
EXTENDS Integers

CONSTANTS Paths, Contents, Versions, None

VARIABLES
  source,    \* content of each path, None where there is no file
  excluded,  \* the paths the user leaves out
  versions   \* for each version what can be restored from it, None if nothing

Copy == [Paths -> Contents \cup {None}]

Kept == {v \in Versions : versions[v] # None}

Init ==
  /\ source \in Copy /\ excluded \in SUBSET Paths
  /\ versions = [v \in Versions |-> None]

\* Between versions files change, and so may what the user excludes.
ChangeSource ==
  /\ source' \in Copy /\ excluded' \in SUBSET Paths
  /\ UNCHANGED versions

\* A backup adds a version newer than all others: the source, less the paths
\* the user excludes.
Commit(v) ==
  /\ \A w \in Kept : w < v
  /\ versions' = [versions EXCEPT ![v] =
                    [p \in Paths |-> IF p \in excluded THEN None ELSE source[p]]]
  /\ UNCHANGED <<source, excluded>>

\* Deleting the file of a version loses it, and with it any newer versions
\* that refer to it; what the others hold stays as it was.
Remove(v) ==
  /\ \E lost \in SUBSET {w \in Versions : w > v} :
       versions' = [w \in Versions |->
                      IF w = v \/ w \in lost THEN None ELSE versions[w]]
  /\ UNCHANGED <<source, excluded>>

Next ==
  \/ ChangeSource
  \/ \E v \in Versions : Commit(v)
  \/ \E v \in Versions : Remove(v)

Spec == Init /\ [][Next]_<<source, excluded, versions>>
=============================================================================
