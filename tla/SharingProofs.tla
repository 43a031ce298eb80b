---------------------------- MODULE SharingProofs ----------------------------
(***************************************************************************)
(* Proofs about Sharing, for any documents, people, quota and page size.   *)
(*                                                                         *)
(* The argument: a document whose upload is under way has no row, and one  *)
(* that lost its row has a deletion that began (StoreInv); so a tuple that *)
(* a pass judges orphaned is nobody's grant, or that of a document whose   *)
(* deletion began (GrantInv).                                              *)
(***************************************************************************)
EXTENDS Sharing, FiniteSetTheorems, TLAPS

USE DocsAssumption, PeopleAssumption, QuotaAssumption, PageAssumption, BoundAssumption

-------------------------------------------------------------------------------
\* What a request that is under way knows of its document.
StoreInv ==
  \A d \in Docs :
    /\ d \in rows \cup begun => upload[d] = "over"
    /\ removal[d].step # "idle" => d \in begun
    /\ \A t \in removal[d].found : t[1] = d
    /\ upload[d] \in {"stored", "written"} => d \in objects
    /\ d \in rows \ begun => d \in objects

AclInv ==
  \A p \in People :
    acl[p].step # "idle" => /\ acl[p].doc \in Docs /\ acl[p].doc \in rows \cup begun
                            /\ acl[p].op \in {"grant", "revoke"}

Inv == TypeOK /\ StoreInv /\ AclInv

LEMMA InitInv == Init => Inv
BY DEF Init, Inv, TypeOK, StoreInv, AclInv, NoRemoval, NoRequest, NoPass

LEMMA UploadKeepsInv ==
  ASSUME Inv, NEW d \in Docs, Upload(d)
  PROVE  Inv'
<1>. USE DEF Inv, TypeOK, StoreInv, AclInv, Steps, Fault, Perhaps, Holders, storeVars, history
<1>1. CASE Admit(d)
  BY <1>1 DEF Admit
<1>2. CASE StoreObject(d)
  BY <1>2 DEF StoreObject
<1>3. CASE WriteTuples(d)
  BY <1>3 DEF WriteTuples, Structure
<1>4. CASE UploadFails(d)
  BY <1>4 DEF UploadFails, Structure
<1>5. CASE CommitUpload(d)
  BY <1>5 DEF CommitUpload
<1>6. CASE HangUp(d)
  BY <1>6 DEF HangUp, Uploading
<1>. QED
  BY <1>1, <1>2, <1>3, <1>4, <1>5, <1>6 DEF Upload

LEMMA DeleteKeepsInv ==
  ASSUME Inv, NEW d \in Docs, Delete(d)
  PROVE  Inv'
<1>. USE DEF Inv, TypeOK, StoreInv, AclInv, Goes, Fault, Perhaps, NoRemoval, storeVars, history
<1>1. CASE LoadDocument(d)
  BY <1>1 DEF LoadDocument
<1>2. CASE ReadPage(d)
  BY <1>2 DEF ReadPage, TuplesOf
<1>3. CASE DropTuples(d)
  <2>1. /\ tuples' \subseteq tuples /\ faults' \in 0..MaxFaults
        /\ \/ removal' = [removal EXCEPT ![d].step = "untupled"]
           \/ removal' = [removal EXCEPT ![d] = NoRemoval]
    BY <1>3 DEF DropTuples
  <2>2. removal[d].step = "read" /\ UNCHANGED <<rows, objects, upload, acl, pass, history>>
    BY <1>3 DEF DropTuples
  <2>3. removal' \in [Docs -> [step : {"idle", "loaded", "read", "untupled", "removed"},
                               found : SUBSET (Docs \X Holders)]]
    BY <2>1
  <2>4. tuples' \subseteq Docs \X Holders
    BY <2>1
  <2>5. TypeOK' /\ AclInv'
    BY <2>1, <2>2, <2>3, <2>4
  <2>6. StoreInv'
    BY <2>1, <2>2
  <2>. QED
    BY <2>5, <2>6
<1>4. CASE DropObject(d)
  BY <1>4 DEF DropObject
<1>5. CASE CommitDelete(d)
  BY <1>5 DEF CommitDelete
<1>6. CASE HangUpDelete(d)
  BY <1>6 DEF HangUpDelete
<1>. QED
  BY <1>1, <1>2, <1>3, <1>4, <1>5, <1>6 DEF Delete

LEMMA AclKeepsInv ==
  ASSUME Inv, NEW p \in People,
         \/ \E d \in Docs, o \in {"grant", "revoke"} : Ask(p, d, o)
         \/ WriteGrant(p) \/ AnswerGrant(p)
  PROVE  Inv'
<1>. USE DEF Inv, TypeOK, StoreInv, AclInv, Fault, Perhaps, NoRequest, Holders, storeVars, history
<1>1. ASSUME NEW d \in Docs, NEW o \in {"grant", "revoke"}, Ask(p, d, o) PROVE Inv'
  BY <1>1 DEF Ask, Exists
<1>2. CASE WriteGrant(p)
  BY <1>2 DEF WriteGrant, Changed
<1>3. CASE AnswerGrant(p)
  BY <1>3 DEF AnswerGrant
<1>. QED
  BY <1>1, <1>2, <1>3

LEMMA PassKeepsInv ==
  ASSUME Inv, PassSteps \/ PassFails
  PROVE  Inv'
<1>. USE DEF Inv, TypeOK, StoreInv, AclInv, Fault, NoPass, storeVars, history
<1>1. CASE PassExpected
  <2>1. Expected \subseteq Docs \X Holders
    BY DEF Expected, Structure, Holders
  <2>. QED
    BY <1>1, <2>1 DEF PassExpected
<1>2. CASE PassRead
  BY <1>2 DEF PassRead
<1>3. CASE PassJudge
  BY <1>3 DEF PassJudge
<1>4. CASE PassWrite
  BY <1>4 DEF PassWrite
<1>5. CASE PassDelete
  BY <1>5 DEF PassDelete
<1>6. CASE PassFails
  BY <1>6 DEF PassFails
<1>. QED
  BY <1>1, <1>2, <1>3, <1>4, <1>5, <1>6 DEF PassSteps

LEMMA StepInv == Inv /\ [Next]_vars => Inv'
<1>. SUFFICES ASSUME Inv, [Next]_vars PROVE Inv'
  OBVIOUS
<1>1. CASE UNCHANGED vars
  BY <1>1 DEF vars, storeVars, history, Inv, TypeOK, StoreInv, AclInv
<1>. QED
  BY <1>1, UploadKeepsInv, DeleteKeepsInv, AclKeepsInv, PassKeepsInv DEF Next

LEMMA InvHolds == Spec => []Inv
BY InitInv, StepInv, PTL DEF Spec

\* Every variable keeps its type (routes/documents.rs, routes/acl.rs, reconcile/openfga.rs).
THEOREM TypeCorrect == Spec => []TypeOK
BY InvHolds, PTL DEF Inv

\* Whatever fails, a document whose deletion has not begun has its object
\* (documents.rs:305-307, 377-404).
THEOREM WholeDocuments == Spec => []DocumentsAreWhole
<1>1. Inv => DocumentsAreWhole
  BY DEF Inv, TypeOK, StoreInv, DocumentsAreWhole
<1>. QED
  BY <1>1, InvHolds, PTL

-------------------------------------------------------------------------------
(***************************************************************************)
(* The quota.  An upload that is admitted finds a row less than the quota  *)
(* and an upload less than there may be; from there to its commit the two  *)
(* numbers can only trade places.                                          *)
(***************************************************************************)
LEMMA SetsFinite ==
  TypeOK => /\ IsFiniteSet(rows) /\ Cardinality(rows) \in Nat
            /\ IsFiniteSet(Uploading) /\ Cardinality(Uploading) \in Nat
BY FS_Subset, FS_CardinalityType DEF TypeOK, Uploading

LEMMA OneMore ==
  ASSUME NEW S, NEW x, IsFiniteSet(S)
  PROVE  Cardinality(S \cup {x}) <= Cardinality(S) + 1 /\ Cardinality(S \cup {x}) \in Nat
<1>1. Cardinality(S) \in Nat
  BY FS_CardinalityType
<1>2. Cardinality(S \cup {x}) = IF x \in S THEN Cardinality(S) ELSE Cardinality(S) + 1
  BY FS_AddElement
<1>. QED
  BY <1>1, <1>2

\* Neither set gains an element.
LEMMA Shrinks ==
  ASSUME TypeOK, QuotaOvershootBounded, rows' \subseteq rows, Uploading' \subseteq Uploading
  PROVE  QuotaOvershootBounded'
<1>1. Cardinality(rows') <= Cardinality(rows) /\ Cardinality(rows') \in Nat
  BY SetsFinite, FS_Subset, FS_CardinalityType
<1>2. Cardinality(Uploading') <= Cardinality(Uploading) /\ Cardinality(Uploading') \in Nat
  BY SetsFinite, FS_Subset, FS_CardinalityType
<1>. QED
  BY <1>1, <1>2, SetsFinite DEF QuotaOvershootBounded

LEMMA UploadKeepsQuota ==
  ASSUME Inv, QuotaOvershootBounded, NEW d \in Docs, Upload(d)
  PROVE  QuotaOvershootBounded'
<1>. USE DEF Inv
<1>1. CASE Admit(d)
  <2>1. Uploading' = Uploading \cup {d} /\ rows' = rows
    BY <1>1 DEF Admit, Uploading, storeVars, Steps, TypeOK
  <2>2. Cardinality(Uploading') <= Cardinality(Uploading) + 1 /\ Cardinality(Uploading') \in Nat
    BY <2>1, SetsFinite, OneMore DEF Inv
  <2>. QED
    BY <1>1, <2>1, <2>2, SetsFinite DEF Admit, QuotaOvershootBounded
<1>2. CASE CommitUpload(d)
  <2>1. Uploading' = Uploading \ {d} /\ d \in Uploading
    BY <1>2 DEF CommitUpload, Uploading, Steps, TypeOK
  <2>2. Cardinality(Uploading') = Cardinality(Uploading) - 1
    BY <2>1, SetsFinite, FS_RemoveElement
  <2>3. rows' = rows \/ rows' = rows \cup {d}
    BY <1>2 DEF CommitUpload, Perhaps
  <2>4. Cardinality(rows') <= Cardinality(rows) + 1 /\ Cardinality(rows') \in Nat
    <3>1. IsFiniteSet(rows) /\ Cardinality(rows) \in Nat
      BY SetsFinite
    <3>2. Cardinality(rows \cup {d}) <= Cardinality(rows) + 1 /\ Cardinality(rows \cup {d}) \in Nat
      BY <3>1, OneMore
    <3>3. CASE rows' = rows
      <4>1. Cardinality(rows') = Cardinality(rows)
        BY <3>3
      <4>. QED
        BY <3>1, <4>1
    <3>4. CASE rows' = rows \cup {d}
      <4>1. Cardinality(rows') = Cardinality(rows \cup {d})
        BY <3>4
      <4>. QED
        BY <3>2, <4>1
    <3>. QED
      BY <2>3, <3>3, <3>4
  <2>. QED
    BY <2>2, <2>4, SetsFinite DEF QuotaOvershootBounded
<1>3. CASE StoreObject(d) \/ WriteTuples(d) \/ UploadFails(d) \/ HangUp(d)
  <2>1. rows' = rows /\ Uploading' \subseteq Uploading
    BY <1>3 DEF StoreObject, WriteTuples, UploadFails, HangUp, Uploading, storeVars, Steps, TypeOK
  <2>. QED
    BY <2>1, Shrinks
<1>. QED
  BY <1>1, <1>2, <1>3 DEF Upload

LEMMA OthersKeepQuota ==
  ASSUME Inv, QuotaOvershootBounded,
         \/ UNCHANGED vars \/ PassSteps \/ PassFails
         \/ \E d \in Docs : Delete(d) \/ \E p \in People, o \in {"grant", "revoke"} : Ask(p, d, o)
         \/ \E p \in People : WriteGrant(p) \/ AnswerGrant(p)
  PROVE  QuotaOvershootBounded'
<1>1. rows' \subseteq rows /\ Uploading' = Uploading
  BY DEF vars, storeVars, Uploading, PassSteps, PassExpected, PassRead, PassJudge, PassWrite,
         PassDelete, PassFails, Delete, LoadDocument, ReadPage, DropTuples, DropObject, CommitDelete,
         HangUpDelete, Perhaps, Ask, WriteGrant, AnswerGrant
<1>. QED
  BY <1>1, Shrinks DEF Inv

\* The quota is exceeded by less than the number of uploads at once, for any quota and any
\* number of documents (documents.rs:279-303).
THEOREM QuotaHolds == Spec => []QuotaOvershootBounded
<1>1. Init => QuotaOvershootBounded
  <2>1. Init => rows = {} /\ Uploading = {}
    BY DEF Init, Uploading
  <2>. QED
    BY <2>1, FS_EmptySet DEF QuotaOvershootBounded
<1>2. Inv /\ QuotaOvershootBounded /\ [Next]_vars => QuotaOvershootBounded'
  BY UploadKeepsQuota, OthersKeepQuota DEF Next
<1>. QED
  BY <1>1, <1>2, InvHolds, PTL DEF Spec

-------------------------------------------------------------------------------
(***************************************************************************)
(* Grants.  A person only gets a tuple to a document that has its row, so  *)
(* a pass that finds the tuple and no row finds a deletion that began.     *)
(***************************************************************************)
Asked(p, o)  == acl[p].step # "idle" /\ acl[p].op = o
Wanted(p)    == <<acl[p].doc, p>>
Dynamic(S)   == {t \in S : t[2] \in People}
Known(S)     == \A t \in S : t[1] \in rows \cup begun

RequestInv ==
  \A p \in People :
    /\ Asked(p, "grant") => Wanted(p) \notin revoked
    /\ Asked(p, "revoke") => Wanted(p) \notin granted
    /\ Asked(p, "grant") /\ acl[p].step = "written" => acl[p].doc \in begun \/ Wanted(p) \in tuples
    /\ Asked(p, "revoke") /\ acl[p].step = "written" => Wanted(p) \notin tuples

PassInv ==
  /\ Known(Dynamic(tuples)) /\ Known(Dynamic(pass.live))
  /\ \A t \in Dynamic(pass.orphaned) : t[1] \in begun
  /\ Dynamic(pass.expected) = {} /\ Dynamic(pass.missing) = {}

GrantInv == RequestInv /\ PassInv /\ GrantsAsAnswered

\* What a step may do to the tuples of people: none comes, none goes but those of a document
\* whose deletion began, and no document loses its row but such a one.
Harmless ==
  /\ UNCHANGED <<acl, granted, revoked>>
  /\ begun \subseteq begun' /\ rows \subseteq rows' \cup begun
  /\ Dynamic(tuples') \subseteq Dynamic(tuples)
  /\ \A t \in Dynamic(tuples) \ Dynamic(tuples') : t[1] \in begun

LEMMA HarmlessKeeps ==
  ASSUME Inv, GrantInv, Harmless
  PROVE  RequestInv' /\ GrantsAsAnswered' /\ Known(Dynamic(tuples))' /\ (pass' = pass => PassInv')
BY DEF Inv, TypeOK, AclInv, GrantInv, Harmless, RequestInv, GrantsAsAnswered, PassInv, Known, Dynamic,
       Asked, Wanted

\* Uploads and deletions are harmless, and the pass is when it runs no step of its own.
LEMMA StoresHarmless ==
  ASSUME Inv, NEW d \in Docs, Upload(d) \/ Delete(d)
  PROVE  Harmless /\ pass' = pass
<1>. USE DEF Harmless, Dynamic, Inv, TypeOK, storeVars, history
<1>1. CASE Upload(d)
  BY <1>1, PeopleAssumption DEF Upload, Admit, StoreObject, WriteTuples, UploadFails, CommitUpload,
     HangUp, Perhaps, Structure
<1>2. CASE DropTuples(d)
  <2>1. \A t \in removal[d].found : t[1] \in begun
    BY <1>2 DEF DropTuples, StoreInv
  <2>. QED
    BY <1>2, <2>1 DEF DropTuples, Perhaps
<1>3. CASE CommitDelete(d)
  <2>1. d \in begun
    BY <1>3 DEF CommitDelete, StoreInv
  <2>. QED
    BY <1>3, <2>1 DEF CommitDelete, Perhaps
<1>4. CASE LoadDocument(d) \/ ReadPage(d) \/ DropObject(d) \/ HangUpDelete(d)
  BY <1>4 DEF LoadDocument, ReadPage, DropObject, HangUpDelete
<1>. QED
  BY <1>1, <1>2, <1>3, <1>4 DEF Delete

\* The pass deletes the tuples of people whose documents' deletion began, and writes none.
LEMMA PassHarmless ==
  ASSUME Inv, GrantInv, PassSteps \/ PassFails
  PROVE  Harmless
<1>. USE DEF Harmless, Dynamic, Inv, TypeOK, storeVars, history, GrantInv, PassInv
<1>1. CASE PassExpected \/ PassRead \/ PassJudge
  BY <1>1 DEF PassExpected, PassRead, PassJudge
<1>2. CASE PassWrite
  BY <1>2 DEF PassWrite
<1>3. CASE PassDelete
  BY <1>3 DEF PassDelete
<1>4. CASE PassFails
  BY <1>4 DEF PassFails
<1>. QED
  BY <1>1, <1>2, <1>3, <1>4 DEF PassSteps

\* The documents are read after the tuples: one that is not found then has a deletion that
\* began.
LEMMA PassKeepsPass ==
  ASSUME Inv, GrantInv, PassSteps \/ PassFails
  PROVE  PassInv'
<1>0. Known(Dynamic(tuples))'
  BY PassHarmless, HarmlessKeeps
<1>. USE DEF Inv, TypeOK, GrantInv, PassInv, Known, Dynamic, NoPass, storeVars, history
<1>1. CASE PassExpected
  <2>1. Dynamic(Expected) = {}
    BY PeopleAssumption DEF Expected, Structure
  <2>. QED
    BY <1>0, <1>1, <2>1 DEF PassExpected
<1>2. CASE PassRead
  BY <1>0, <1>2 DEF PassRead
<1>3. CASE PassJudge
  BY <1>0, <1>3 DEF PassJudge
<1>4. CASE PassWrite
  BY <1>0, <1>4 DEF PassWrite
<1>5. CASE PassDelete
  BY <1>0, <1>5 DEF PassDelete
<1>6. CASE PassFails
  BY <1>0, <1>6 DEF PassFails
<1>. QED
  BY <1>1, <1>2, <1>3, <1>4, <1>5, <1>6 DEF PassSteps

\* A request for a person touches that person's tuples and history only.
LEMMA AclKeepsGrants ==
  ASSUME Inv, GrantInv, NEW p \in People,
         \/ \E d \in Docs, o \in {"grant", "revoke"} : Ask(p, d, o)
         \/ WriteGrant(p) \/ AnswerGrant(p)
  PROVE  GrantInv'
<1>. USE DEF Inv, TypeOK, AclInv, GrantInv, RequestInv, PassInv, GrantsAsAnswered, Known, Dynamic,
             Asked, Wanted, Fault, Perhaps, NoRequest, storeVars, history
<1>1. ASSUME NEW d \in Docs, NEW o \in {"grant", "revoke"}, Ask(p, d, o) PROVE GrantInv'
  BY <1>1 DEF Ask, Exists
<1>2. CASE WriteGrant(p)
  BY <1>2 DEF WriteGrant, Changed
<1>3. CASE AnswerGrant(p)
  BY <1>3 DEF AnswerGrant
<1>. QED
  BY <1>1, <1>2, <1>3

LEMMA StepKeepsGrants == Inv /\ GrantInv /\ [Next]_vars => GrantInv'
<1>. SUFFICES ASSUME Inv, GrantInv, [Next]_vars PROVE GrantInv'
  OBVIOUS
<1>1. CASE UNCHANGED vars
  <2>1. Harmless /\ pass' = pass
    BY <1>1 DEF vars, storeVars, history, Harmless
  <2>. QED
    BY <2>1, HarmlessKeeps DEF GrantInv
<1>2. ASSUME NEW d \in Docs, Upload(d) \/ Delete(d) PROVE GrantInv'
  BY <1>2, StoresHarmless, HarmlessKeeps DEF GrantInv
<1>3. CASE PassSteps \/ PassFails
  BY <1>3, PassHarmless, HarmlessKeeps, PassKeepsPass DEF GrantInv
<1>. QED
  BY <1>1, <1>2, <1>3, AclKeepsGrants DEF Next

\* A grant holds until it is revoked or its document's deletion begins, and a revocation until
\* the next grant, whatever a pass of the reconciler read and when
\* (routes/acl.rs:216-296; reconcile/openfga.rs:20-26).
THEOREM GrantsHold == Spec => []GrantsAsAnswered
<1>1. Init => GrantInv
  BY DEF Init, GrantInv, RequestInv, PassInv, GrantsAsAnswered, Known, Dynamic, Asked, NoRequest,
         NoPass
<1>. QED
  BY <1>1, StepKeepsGrants, InvHolds, PTL DEF Spec, GrantInv
===============================================================================
