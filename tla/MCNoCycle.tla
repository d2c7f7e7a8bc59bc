------------------------------ MODULE MCNoCycle ------------------------------
(***************************************************************************)
(* Model-checking instances of NoCycle.  A program gives every file a list *)
(* of at most MaxStatements statements over the kinds of the run; an edit  *)
(* leaves at most one statement, over kinds and targets of its own.        *)
(***************************************************************************)
EXTENDS NoCycle, TLC

CONSTANTS StatementKinds,   \* the kinds of statement of the initial texts
          MaxStatements,    \* bound on the statements of one file
          OneStatementEach, \* at most one statement per target?
          EditedKinds,      \* the kinds of statement of the edited texts
          EditedTargets     \* their targets; NoFile is one that resolves to null

Texts ==
    LET Statements == [kind : StatementKinds, target : Files]
    IN  {t \in UNION {[1..n -> Statements] : n \in 0..MaxStatements} :
           OneStatementEach => \A i, j \in DOMAIN t : i # j => t[i].target # t[j].target}

\* Initially no file imports itself, and a missing file says nothing.
MCPrograms ==
    {[f \in Files |-> IF f \in Missing THEN <<>> ELSE program[f]] :
        program \in {p \in [Files \ Missing -> Texts] :
            \A f \in DOMAIN p : \A i \in DOMAIN p[f] : p[f][i].target # f}}

MCEditedTexts ==
    {<<>>} \cup {<<s>> : s \in [kind : EditedKinds, target : EditedTargets]}

Symmetry == Permutations(Files \ Missing)
=============================================================================
