---------------------------- MODULE ImportSyntax ----------------------------
(***************************************************************************)
(* What a source file says about other files, as the statements that name  *)
(* another file, in textual order; and the two readings of it that must    *)
(* agree: what getFileImports() extracts with its regular expressions, and *)
(* what the statements mean at run time.                                   *)
(*                                                                         *)
(* A statement is [kind |-> k, target |-> t].  The kinds are               *)
(*   "import"      import ... from t                                       *)
(*   "importType"  import type ... from t                                  *)
(*   "export"      export { ... } from t                                   *)
(*   "exportType"  export type { ... } from t                              *)
(*   "exportAll"   export * from t                                         *)
(*   "dynamic"     import(t)                                               *)
(* A target outside Files is one that resolveImportPath() maps to null: a  *)
(* package, or a path nothing resolves.                                    *)
(***************************************************************************)
EXTENDS Naturals, Sequences

Kinds == {"import", "importType", "export", "exportType", "exportAll", "dynamic"}

(***************************************************************************)
(* getFileImports() runs IMPORT_REGEX, which also matches "import type",   *)
(* then EXPORT_FROM_REGEX, which needs a brace after "export" and so does  *)
(* not match "export type" and "export *", then DYNAMIC_IMPORT_REGEX.      *)
(* pushImport() keeps only the first match of every target.                *)
(***************************************************************************)
Matches(text, g) ==
    LET Static(s)  == s.target = g /\ s.kind \in {"import", "importType"}
        Export(s)  == s.target = g /\ s.kind = "export"
        Dynamic(s) == s.target = g /\ s.kind = "dynamic"
    IN  SelectSeq(text, Static) \o SelectSeq(text, Export) \o SelectSeq(text, Dynamic)

\* The files that remain edges once the callers drop the entries flagged
\* dynamic or typeOnly.
ParsedImports(text, files) ==
    {g \in files : /\ Matches(text, g) # <<>>
                   /\ Head(Matches(text, g)).kind \in {"import", "export"}}

\* The files whose evaluation this file waits for at run time.
RuntimeImports(text, files) ==
    {g \in files : \E i \in DOMAIN text :
        text[i].target = g /\ text[i].kind \in {"import", "export", "exportAll"}}

\* The run-time import graph of the files on disk.
RuntimeGraph(disk, readable) ==
    [f \in DOMAIN disk |->
        IF f \in readable THEN RuntimeImports(disk[f].text, readable) ELSE {}]
=============================================================================
