----------------------------- MODULE SwiftIndex -----------------------------
(***************************************************************************)
(* searchlight's Swift notification handlers (swift_notification_handler  *)
(* .py): account, container and object notifications update a search      *)
(* index.  Swift emits a notification for every change, stamped with the  *)
(* time of the change; the notifications reach the handlers in any order  *)
(* and may be delivered twice.  Every index call passes the notification  *)
(* time as an external version: the index applies a save or a delete     *)
(* only when its version is above the one it holds for the document, and *)
(* a delete leaves a tombstone carrying its version.  A failed index call *)
(* is logged and dropped by the handler.                                  *)
(***************************************************************************)
EXTENDS Integers, FiniteSets

CONSTANTS
    Account,      \* the account
    Containers,   \* its containers
    Objects,      \* their objects
    ParentOf,     \* ParentOf[o]: the container of object o
    MaxTime,      \* bound on the number of changes in Swift
    MaxFaults     \* bound on the number of failed index calls

Docs == {Account} \cup Containers \cup Objects

Parent(d) == IF d \in Objects THEN ParentOf[d]
             ELSE IF d \in Containers THEN Account ELSE d

VARIABLES
    swift,     \* swift[d]: the document d exists in Swift
    now,       \* the time stamp of the last change in Swift
    pending,   \* notifications emitted and not yet consumed
    index,     \* index[d]: the index entry of d (document, tombstone, none)
    nFaults

vars == <<swift, now, pending, index, nFaults>>

Notification == [doc : Docs, event : {"save", "delete"}, ts : 1..MaxTime]
Entry == [st : {"none", "doc", "tomb"}, ver : 0..MaxTime]

(***************************************************************************)
(* Swift: the changes that emit notifications.                            *)
(***************************************************************************)
Emit(d, e) ==
    /\ now < MaxTime
    /\ now' = now + 1
    /\ pending' = pending \cup {[doc |-> d, event |-> e, ts |-> now + 1]}

\* account.create, container.create, object.create and the .metadata
\* updates: a PUT or POST, which needs the parent to exist.
SwiftPut(d) ==
    /\ swift[Parent(d)] \/ d = Account
    /\ swift' = [swift EXCEPT ![d] = TRUE]
    /\ Emit(d, "save")
    /\ UNCHANGED <<index, nFaults>>

\* account.delete, container.delete, object.delete: Swift refuses to
\* delete a container or an account that still holds anything.
SwiftDelete(d) ==
    /\ swift[d]
    /\ \A c \in Docs \ {d} : Parent(c) = d => ~swift[c]
    /\ swift' = [swift EXCEPT ![d] = FALSE]
    /\ Emit(d, "delete")
    /\ UNCHANGED <<index, nFaults>>

(***************************************************************************)
(* The index calls: each applies if its version is newer, and raises a    *)
(* version conflict otherwise.                                             *)
(***************************************************************************)
\* A mutant of Newer: the external version is not compared.
NewerIgnoringVersion(d, v) == TRUE

\* The version check of an external-versioned index call.
Newer(d, v) == index[d].st = "none" \/ v > index[d].ver

\* index_helper.save_document(payload, version=v)
SaveDocument(ix, d, v) ==
    IF Newer(d, v) THEN [ix EXCEPT ![d] = [st |-> "doc", ver |-> v]] ELSE ix

\* index_helper.delete_document({'_id': d, '_version': v, ...})
DeleteDocument(ix, d, v) ==
    IF Newer(d, v) THEN [ix EXCEPT ![d] = [st |-> "tomb", ver |-> v]] ELSE ix

\* object_helper.delete_documents_with_parent(c, version=v): every object
\* document under c is deleted with version v.
DeleteDocumentsWithParent(ix, c, v) ==
    [d \in Docs |-> IF d \in Objects /\ ParentOf[d] = c /\ ix[d].st = "doc"
                                  /\ ix[d].ver < v
                    THEN [st |-> "tomb", ver |-> v] ELSE ix[d]]

(***************************************************************************)
(* The handlers.  A call raises (consuming a fault) or runs; the handler  *)
(* logs an exception and goes on.  A consumed notification may be         *)
(* delivered again.                                                        *)
(***************************************************************************)
\* Index calls that may fail: a set of n calls, failing ones are skipped.
Calls(n) == {f \in SUBSET (1..n) : nFaults + Cardinality(f) <= MaxFaults}

Consume(m) ==
    \E again \in BOOLEAN : pending' = IF again THEN pending ELSE pending \ {m}

\* create_or_update saves the document, delete deletes it, each in one
\* try block: the body shared by SwiftAccountHandler and SwiftObjectHandler.
HandleDoc(m) ==
    /\ m \in pending
    /\ \E failed \in Calls(1) :
         /\ index' = IF 1 \in failed THEN index
                     ELSE IF m.event = "save" THEN SaveDocument(index, m.doc, m.ts)
                     ELSE DeleteDocument(index, m.doc, m.ts)
         /\ nFaults' = nFaults + Cardinality(failed)
    /\ Consume(m)
    /\ UNCHANGED <<swift, now>>

\* SwiftAccountHandler: account.create, account.metadata, account.delete.
HandleAccount(m) == m.doc = Account /\ HandleDoc(m)

\* SwiftObjectHandler: object.create, object.metadata, object.delete.
HandleObject(m) == m.doc \in Objects /\ HandleDoc(m)

\* SwiftContainerHandler: create_or_update saves the document; delete
\* first deletes the container's object documents, then the container's
\* document, in two try blocks, so either may fail alone.
HandleContainer(m) ==
    /\ m \in pending /\ m.doc \in Containers
    /\ IF m.event = "save"
       THEN \E failed \in Calls(1) :
              /\ index' = IF 1 \in failed THEN index
                          ELSE SaveDocument(index, m.doc, m.ts)
              /\ nFaults' = nFaults + Cardinality(failed)
       ELSE \E failed \in Calls(2) :
              LET ix == IF 1 \in failed THEN index
                        ELSE DeleteDocumentsWithParent(index, m.doc, m.ts)
              IN /\ index' = IF 2 \in failed THEN ix ELSE DeleteDocument(ix, m.doc, m.ts)
                 /\ nFaults' = nFaults + Cardinality(failed)
    /\ Consume(m)
    /\ UNCHANGED <<swift, now>>

Init ==
    /\ swift = [d \in Docs |-> FALSE]
    /\ now = 0
    /\ pending = {}
    /\ index = [d \in Docs |-> [st |-> "none", ver |-> 0]]
    /\ nFaults = 0

Next ==
    \/ \E d \in Docs : SwiftPut(d) \/ SwiftDelete(d)
    \/ \E m \in pending : HandleAccount(m) \/ HandleContainer(m) \/ HandleObject(m)

Spec == Init /\ [][Next]_vars

-----------------------------------------------------------------------------
TypeOK ==
    /\ swift \in [Docs -> BOOLEAN]
    /\ now \in 0..MaxTime
    /\ pending \subseteq Notification
    /\ index \in [Docs -> Entry]
    /\ nFaults \in 0..MaxFaults

(* The index converges on Swift: once every notification is consumed, in *)
(* whatever order and however often they were delivered, exactly the     *)
(* accounts, containers and objects that exist in Swift have a document  *)
(* in the index; in particular no object document outlives its deleted   *)
(* container.                                                             *)
IndexConverges ==
    pending = {} => \A d \in Docs : (index[d].st = "doc") <=> swift[d]
=============================================================================
