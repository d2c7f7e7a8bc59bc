------------------------------ MODULE MCTarjan ------------------------------
(***************************************************************************)
(* Model-checking instance of Tarjan.  The import lists are all the lists  *)
(* without repetition (getFileImports() drops a second import of the same  *)
(* file) of at most MaxImports files.                                      *)
(***************************************************************************)
EXTENDS Tarjan, TLC

CONSTANTS MaxImports,    \* bound on the imports of one file
          SelfImports    \* may a file import itself?

Lists ==
    {list \in UNION {[1..n -> Files] : n \in 0..MaxImports} :
        \A i, j \in DOMAIN list : i # j => list[i] # list[j]}

MCImportLists ==
    {lists \in [Files -> Lists] :
        SelfImports \/ \A f \in Files : f \notin ToFiles(lists[f])}
=============================================================================
