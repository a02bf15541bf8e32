---------------------------- MODULE AutosaveStore ----------------------------
(***************************************************************************)
(* What an autosave promises to the editor: each file holds exactly one of *)
(* the saves requested for it, or what it held at the start; a save is put *)
(* in place at once, at most once, or is dropped; and only the loss of     *)
(* power brings an earlier content of that same file back.                 *)
(***************************************************************************)
EXTENDS Integers

CONSTANTS Paths, NoPath, MaxRequests

VARIABLES
    requests,  \* number of saves requested so far
    named,     \* the file each of them names
    kept,      \* the saves that have been put in place
    file       \* file[p]: the save that p holds, 0 for its first content

vars == <<requests, named, kept, file>>

Init ==
    /\ requests = 0
    /\ named = [n \in 1..MaxRequests |-> NoPath]
    /\ kept = {}
    /\ file = [p \in Paths |-> 0]

Request(p) ==
    /\ requests < MaxRequests
    /\ requests' = requests + 1
    /\ named' = [named EXCEPT ![requests + 1] = p]
    /\ UNCHANGED <<kept, file>>

Put(n) ==
    /\ n \in 1..requests
    /\ n \notin kept
    /\ kept' = kept \cup {n}
    /\ file' = [file EXCEPT ![named[n]] = n]
    /\ UNCHANGED <<requests, named>>

\* Power loss: every file holds some content it has had.
Rollback ==
    /\ file' \in [Paths -> kept \cup {0}]
    /\ \A p \in Paths : file'[p] # 0 => named[file'[p]] = p
    /\ UNCHANGED <<requests, named, kept>>

Next ==
    \/ \E p \in Paths : Request(p)
    \/ \E n \in 1..MaxRequests : Put(n)
    \/ Rollback

Spec == Init /\ [][Next]_vars
=============================================================================
