---------------------------- MODULE StoreChanges ----------------------------
(***************************************************************************)
(* What each writing operation of the embedded store (local-adapter.ts)    *)
(* makes of one collection's file, as functions of the file's content.     *)
(*                                                                         *)
(* Abstracted: a document is a body and a few metadata fields; embeddings, *)
(* collection names and the encoding of values are left out.               *)
(***************************************************************************)
EXTENDS Naturals

CONSTANTS Doc, Body, Field, Val,
          Absent,      \* no such document, or no such key
          NoFile,      \* no such collection
          Keep,        \* a key that a patch does not name
          Asked        \* the changes asked for

ASSUME StoreAssumption ==
  /\ Absent \notin Val /\ Keep \notin Val \cup {Absent}
  /\ Absent \notin [body : Body, meta : [Field -> Val \cup {Absent}]]
  /\ NoFile \notin [Doc -> [body : Body, meta : [Field -> Val \cup {Absent}]] \cup {Absent}]

Meta == [Field -> Val \cup {Absent}]
Document == [body : Body, meta : Meta]
Docs == [Doc -> Document \cup {Absent}]
File == Docs \cup {NoFile}

Empty == [d \in Doc |-> Absent]

\* What callers ask for: new documents (one or a batch), new metadata (of one
\* that must exist, or of those of a batch that do), patches of metadata, a
\* delete, an empty collection, and the end of the collection.
Change ==
       [op : {"add"}, docs : Docs]
  \cup [op : {"update"}, doc : Doc, meta : Meta]
  \cup [op : {"updateBatch"}, metas : [Doc -> Meta \cup {Keep}]]
  \cup [op : {"patch"}, patches : [Doc -> [Field -> Val \cup {Absent, Keep}]]]
  \cup [op : {"delete"}, doc : Doc]
  \cup [op : {"create"}]
  \cup [op : {"drop"}]

\* Documents that are added replace those of the same ids.
Added(cur, docs) ==
  [d \in Doc |-> IF docs[d] # Absent THEN docs[d]
                 ELSE IF cur = NoFile THEN Absent ELSE cur[d]]

Updated(cur, metas) ==
  [d \in Doc |-> IF cur[d] = Absent \/ metas[d] = Keep THEN cur[d]
                 ELSE [cur[d] EXCEPT !.meta = metas[d]]]

\* A patch names the keys it sets and, with null, those it removes.
Patched(cur, patches) ==
  [d \in Doc |-> IF cur[d] = Absent THEN Absent
                 ELSE [cur[d] EXCEPT !.meta =
                         [f \in Field |-> IF patches[d][f] = Keep THEN @[f]
                                          ELSE patches[d][f]]]]

\* The file after a change; the file itself where the operation writes nothing
\* (nothing to change, or an error is thrown).
Outcome(c, cur) ==
  IF cur = NoFile
  THEN CASE c.op = "add"    -> Added(cur, c.docs)
         [] c.op = "create" -> Empty
         [] OTHER           -> NoFile
  ELSE CASE c.op = "add"    -> Added(cur, c.docs)
         [] c.op = "create" -> cur
         [] c.op = "drop"   -> NoFile
         [] c.op = "update" -> Updated(cur, [d \in Doc |-> IF d = c.doc THEN c.meta ELSE Keep])
         [] c.op = "updateBatch" -> Updated(cur, c.metas)
         [] c.op = "patch"  -> Patched(cur, c.patches)
         [] c.op = "delete" -> [cur EXCEPT ![c.doc] = Absent]

\* The operation rewrites the file.
Writes(c, cur) ==
  IF cur = NoFile
  THEN c.op \in {"add", "create"}
  ELSE CASE c.op = "add" -> TRUE
         [] c.op \in {"create", "drop"} -> FALSE
         [] c.op = "updateBatch" -> \E d \in Doc : cur[d] # Absent /\ c.metas[d] # Keep
         [] c.op = "patch" ->
              \E d \in Doc : cur[d] # Absent /\ \E f \in Field : c.patches[d][f] # Keep
         [] c.op \in {"update", "delete"} -> cur[c.doc] # Absent

\* The operation throws: the document, or the collection, is not there.
Throws(c, cur) ==
  \/ c.op = "update" /\ (IF cur = NoFile THEN TRUE ELSE cur[c.doc] = Absent)
  \/ c.op = "updateBatch" /\ cur = NoFile

ASSUME AskedAssumption == Asked \subseteq Change
=============================================================================
