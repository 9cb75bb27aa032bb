----------------------------- MODULE SharedStore -----------------------------
(***************************************************************************)
(* The embedded store as its callers mean it: one collection, and every    *)
(* operation of every process changes it in one step, whatever the others  *)
(* do (the promise of local-adapter.ts:16-20).                             *)
(***************************************************************************)
EXTENDS StoreChanges

VARIABLE docs

Init == docs = NoFile
Next == \E c \in Asked : docs' = Outcome(c, docs)
Spec == Init /\ [][Next]_docs
=============================================================================
