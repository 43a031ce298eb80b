-------------------------------- MODULE Sharing --------------------------------
(***************************************************************************)
(* The documents of a tenant in the three stores a request writes without  *)
(* a transaction that spans them: the rows in Postgres, the objects in S3, *)
(* the tuples in OpenFGA.  Uploads, deletions, grants and revocations go   *)
(* on side by side, and beside the pass of the reconciler with auto-fix,   *)
(* which compares rows and tuples.  Each call may fail, and a client may   *)
(* hang up.                                                                *)
(***************************************************************************)
EXTENDS Naturals, FiniteSets

CONSTANTS
  Docs,        \* documents, each uploaded once: its id is new
  People,      \* the principals a document is shared with
  MaxDocs,     \* tenant_quotas.max_documents
  PageSize,    \* tuples in a page of OpenFGA's read
  MaxUploads,  \* bound: uploads at the same time
  MaxRequests, \* bound: deletions, grants and revocations in all
  MaxFaults    \* bound: failed calls

ASSUME DocsAssumption   == IsFiniteSet(Docs)
ASSUME PeopleAssumption == "place" \notin People /\ "owner" \notin People
ASSUME QuotaAssumption  == MaxDocs \in Nat /\ MaxUploads \in Nat \ {0}
ASSUME PageAssumption   == PageSize \in Nat \ {0}
ASSUME BoundAssumption  == MaxRequests \in Nat /\ MaxFaults \in Nat

VARIABLES
  rows,     \* committed rows of `documents`
  objects,  \* documents with an S3 object
  tuples,   \* pairs of a document and who holds a relation to it
  upload,   \* how far the upload of a document is
  removal,  \* how far its deletion is, and the tuples it read
  acl,      \* the grant or revocation under way for a person
  pass,     \* the reconciler's pass
  begun,    \* history: documents whose deletion has begun
  granted,  \* history: grants answered with 201 and not revoked since
  revoked,  \* history: revocations answered with 204, and not granted since
  asked,    \* deletions, grants and revocations so far
  faults

storeVars == <<rows, objects, tuples>>
history   == <<begun, granted, revoked, asked>>
vars      == <<storeVars, upload, removal, acl, pass, history, faults>>

-------------------------------------------------------------------------------
\* The tuples an upload writes and the reconciler expects; "place" stands for those of the
\* tenant, of the workspace and, of a shared document, of the tenant's members.
Structure(d) == {<<d, "place">>, <<d, "owner">>}
TuplesOf(d)  == {t \in tuples : t[1] = d}
Owned(d)     == <<d, "owner">> \in tuples

NoRemoval == [step |-> "idle", found |-> {}]
NoRequest == [step |-> "idle", op |-> "none", doc |-> "none"]
NoPass    == [step |-> "idle", expected |-> {}, live |-> {},
              missing |-> {}, orphaned |-> {}]

Init ==
  /\ rows = {} /\ objects = {} /\ tuples = {}
  /\ upload = [d \in Docs |-> "idle"] /\ removal = [d \in Docs |-> NoRemoval]
  /\ acl = [p \in People |-> NoRequest] /\ pass = NoPass
  /\ begun = {} /\ granted = {} /\ revoked = {} /\ asked = 0 /\ faults = 0

Fault == faults < MaxFaults /\ faults' = faults + 1

\* A call that may have taken effect although it failed.
Perhaps(var, then) == {var, then}

-------------------------------------------------------------------------------
\* upload_document

Uploading == {d \in Docs : upload[d] \in {"admitted", "stored", "written"}}

Steps(d, from, to) == upload[d] = from /\ upload' = [upload EXCEPT ![d] = to]

\* Faulty: the new document is not counted (QuotaOvershootBounded).
AdmitOneMore(d) ==
  /\ Steps(d, "idle", "admitted")
  /\ Cardinality(Uploading) < MaxUploads
  /\ Cardinality(rows) <= MaxDocs
  /\ UNCHANGED <<storeVars, removal, acl, pass, history, faults>>

\* The quota is read before the object is stored, and nothing is locked.
Admit(d) ==
  /\ Steps(d, "idle", "admitted")
  /\ Cardinality(Uploading) < MaxUploads
  /\ Cardinality(rows) + 1 <= MaxDocs
  /\ UNCHANGED <<storeVars, removal, acl, pass, history, faults>>

StoreObject(d) ==
  /\ \/ Steps(d, "admitted", "stored") /\ objects' = objects \cup {d} /\ faults' = faults
     \/ Steps(d, "admitted", "over") /\ objects' \in Perhaps(objects, objects \cup {d}) /\ Fault
  /\ UNCHANGED <<rows, tuples, removal, acl, pass, history>>

\* Row, job and outbox row are inserted under a savepoint, then the tuples are written.  An
\* error rolls back to the savepoint and deletes the object, or tries to.
WriteTuples(d) ==
  /\ Steps(d, "stored", "written")
  /\ tuples' = tuples \cup Structure(d)
  /\ UNCHANGED <<rows, objects, removal, acl, pass, history, faults>>

\* Faulty: without ROLLBACK TO SAVEPOINT the middleware commits the row (DocumentsAreWhole).
UploadFailsUnrolled(d) ==
  /\ Steps(d, "stored", "over") /\ Fault
  /\ tuples' \in Perhaps(tuples, tuples \cup Structure(d))
  /\ objects' \in Perhaps(objects, objects \ {d})
  /\ rows' = rows \cup {d}
  /\ UNCHANGED <<removal, acl, pass, history>>

UploadFails(d) ==
  /\ Steps(d, "stored", "over") /\ Fault
  /\ tuples' \in Perhaps(tuples, tuples \cup Structure(d))
  /\ objects' \in Perhaps(objects, objects \ {d})
  /\ UNCHANGED <<rows, removal, acl, pass, history>>

\* The middleware's COMMIT.  When it fails nobody takes back the object and the tuples.
CommitUpload(d) ==
  /\ \/ Steps(d, "written", "over") /\ rows' = rows \cup {d} /\ faults' = faults
     \/ Steps(d, "written", "over") /\ rows' \in Perhaps(rows, rows \cup {d}) /\ Fault
  /\ UNCHANGED <<objects, tuples, removal, acl, pass, history>>

\* The client hangs up and the handler is dropped where it stands.
HangUp(d) ==
  /\ d \in Uploading /\ Fault
  /\ upload' = [upload EXCEPT ![d] = "over"]
  /\ UNCHANGED <<storeVars, removal, acl, pass, history>>

Upload(d) == Admit(d) \/ StoreObject(d) \/ WriteTuples(d) \/ UploadFails(d) \/ CommitUpload(d)
             \/ HangUp(d)

-------------------------------------------------------------------------------
\* delete_document

Goes(d, to) == removal' = [removal EXCEPT ![d].step = to]

\* The row and the owner are looked up.
LoadDocument(d) ==
  /\ removal[d].step = "idle" /\ asked < MaxRequests
  /\ d \in rows /\ Owned(d)
  /\ Goes(d, "loaded")
  /\ begun' = begun \cup {d} /\ asked' = asked + 1
  /\ UNCHANGED <<storeVars, upload, acl, pass, granted, revoked, faults>>

\* delete_all_direct_relationships_for_object: one page of the tuples is read.
ReadPage(d) ==
  /\ removal[d].step = "loaded"
  /\ \E found \in SUBSET TuplesOf(d) :
       /\ Cardinality(found) <= PageSize
       /\ found = TuplesOf(d) \/ Cardinality(found) = PageSize
       /\ removal' = [removal EXCEPT ![d] = [step |-> "read", found |-> found]]
  /\ UNCHANGED <<storeVars, upload, acl, pass, history, faults>>

\* The tuples it read are deleted; when that fails the request ends.
DropTuples(d) ==
  /\ removal[d].step = "read"
  /\ \/ tuples' = tuples \ removal[d].found /\ Goes(d, "untupled") /\ faults' = faults
     \/ /\ tuples' \in Perhaps(tuples, tuples \ removal[d].found) /\ Fault
        /\ removal' = [removal EXCEPT ![d] = NoRemoval]
  /\ UNCHANGED <<rows, objects, upload, acl, pass, history>>

\* Best effort.
DropObject(d) ==
  /\ removal[d].step = "untupled"
  /\ Goes(d, "removed")
  /\ \/ objects' = objects \ {d} /\ faults' = faults
     \/ objects' = objects /\ Fault
  /\ UNCHANGED <<rows, tuples, upload, acl, pass, history>>

\* The row is deleted and the middleware commits; or a statement or the commit fails, or the
\* client hangs up before it.
CommitDelete(d) ==
  /\ removal[d].step = "removed"
  /\ removal' = [removal EXCEPT ![d] = NoRemoval]
  /\ \/ rows' = rows \ {d} /\ faults' = faults
     \/ rows' \in Perhaps(rows, rows \ {d}) /\ Fault
  /\ UNCHANGED <<objects, tuples, upload, acl, pass, history>>

HangUpDelete(d) ==
  /\ removal[d].step \in {"loaded", "read", "untupled"} /\ Fault
  /\ removal' = [removal EXCEPT ![d] = NoRemoval]
  /\ UNCHANGED <<storeVars, upload, acl, pass, history>>

Delete(d) == LoadDocument(d) \/ ReadPage(d) \/ DropTuples(d) \/ DropObject(d) \/ CommitDelete(d)
             \/ HangUpDelete(d)

-------------------------------------------------------------------------------
\* create_grant and revoke_grant

\* ensure_resource_exists
Exists(d) == d \in rows

\* The document exists and the caller owns it.  From here on a revocation may take effect.
Ask(p, d, op) ==
  /\ acl[p].step = "idle" /\ asked < MaxRequests
  /\ Exists(d) /\ Owned(d)
  /\ acl' = [acl EXCEPT ![p] = [step |-> "checked", op |-> op, doc |-> d]]
  /\ asked' = asked + 1
  /\ granted' = IF op = "revoke" THEN granted \ {<<d, p>>} ELSE granted
  /\ revoked' = IF op = "grant" THEN revoked \ {<<d, p>>} ELSE revoked
  /\ UNCHANGED <<storeVars, upload, removal, pass, begun, faults>>

Changed(p) == IF acl[p].op = "grant" THEN tuples \cup {<<acl[p].doc, p>>}
                                     ELSE tuples \ {<<acl[p].doc, p>>}

WriteGrant(p) ==
  /\ acl[p].step = "checked"
  /\ \/ tuples' = Changed(p) /\ acl' = [acl EXCEPT ![p].step = "written"] /\ faults' = faults
     \/ tuples' \in Perhaps(tuples, Changed(p)) /\ acl' = [acl EXCEPT ![p] = NoRequest] /\ Fault
  /\ UNCHANGED <<rows, objects, upload, removal, pass, history>>

\* The audit row is inserted and committed, and the client told.
AnswerGrant(p) ==
  /\ acl[p].step = "written"
  /\ acl' = [acl EXCEPT ![p] = NoRequest]
  /\ LET g == <<acl[p].doc, p>>
     IN  \/ /\ faults' = faults
            /\ granted' = IF acl[p].op = "grant" THEN granted \cup {g} ELSE granted
            /\ revoked' = IF acl[p].op = "revoke" THEN revoked \cup {g} ELSE revoked
         \/ Fault /\ UNCHANGED <<granted, revoked>>
  /\ UNCHANGED <<storeVars, upload, removal, pass, begun, asked>>

-------------------------------------------------------------------------------
\* run_openfga_reconcile with auto_fix

Expected == UNION {Structure(d) : d \in rows}

PassExpected ==
  /\ pass.step = "idle"
  /\ pass' = [NoPass EXCEPT !.step = "expected", !.expected = Expected]
  /\ UNCHANGED <<storeVars, upload, removal, acl, history, faults>>

\* The tuples are read page by page; as each is judged by itself, one step stands for them.
PassRead ==
  /\ pass.step = "expected"
  /\ pass' = [pass EXCEPT !.step = "read", !.live = tuples]
  /\ UNCHANGED <<storeVars, upload, removal, acl, history, faults>>

\* Faulty: the documents are those that were expected, which were read before the tuples
\* (GrantsAsAnswered).
PassJudgeEarly ==
  /\ pass.step = "read"
  /\ pass' = [NoPass EXCEPT
                !.step = "fix",
                !.missing = pass.expected \ pass.live,
                !.orphaned = {t \in pass.live \ pass.expected : <<t[1], "owner">> \notin pass.expected}]
  /\ UNCHANGED <<storeVars, upload, removal, acl, history, faults>>

\* The documents are read last: a tuple is orphaned when its document does not exist.
PassJudge ==
  /\ pass.step = "read"
  /\ pass' = [NoPass EXCEPT
                !.step = "fix",
                !.missing = pass.expected \ pass.live,
                !.orphaned = {t \in pass.live \ pass.expected : t[1] \notin rows}]
  /\ UNCHANGED <<storeVars, upload, removal, acl, history, faults>>

\* First the missing tuples are written, then the orphaned ones deleted.
PassWrite ==
  /\ pass.step = "fix"
  /\ tuples' = tuples \cup pass.missing
  /\ pass' = [pass EXCEPT !.step = "written", !.missing = {}]
  /\ UNCHANGED <<rows, objects, upload, removal, acl, history, faults>>

\* Faulty: the pass writes what is missing and deletes nothing (TuplesSettle).
PassDeletesNothing ==
  /\ pass.step = "written"
  /\ pass' = NoPass
  /\ UNCHANGED <<storeVars, upload, removal, acl, history, faults>>

PassDelete ==
  /\ pass.step = "written"
  /\ tuples' = tuples \ pass.orphaned
  /\ pass' = NoPass
  /\ UNCHANGED <<rows, objects, upload, removal, acl, history, faults>>

\* A call of the pass fails, perhaps after some batches of WRITE_BATCH tuples; the loop goes
\* on at its next turn.
PassFails ==
  /\ pass # NoPass /\ Fault
  /\ \/ \E done \in SUBSET pass.missing : tuples' = tuples \cup done
     \/ pass.step = "written" /\ \E done \in SUBSET pass.orphaned : tuples' = tuples \ done
  /\ pass' = NoPass
  /\ UNCHANGED <<rows, objects, upload, removal, acl, history>>

PassSteps == PassExpected \/ PassRead \/ PassJudge \/ PassWrite \/ PassDelete

Next ==
  \/ \E d \in Docs : Upload(d) \/ Delete(d)
  \/ \E p \in People, d \in Docs, op \in {"grant", "revoke"} : Ask(p, d, op)
  \/ \E p \in People : WriteGrant(p) \/ AnswerGrant(p)
  \/ PassSteps \/ PassFails

\* The loop starts a pass at every turn of its timer (reconcile_loop.rs) and a call is
\* answered or times out; requests need not end.
Fairness == WF_vars(PassSteps)

Spec == Init /\ [][Next]_vars /\ Fairness

-------------------------------------------------------------------------------
Holders == {"place", "owner"} \cup People

TypeOK ==
  /\ rows \subseteq Docs /\ objects \subseteq Docs /\ tuples \subseteq Docs \X Holders
  /\ upload \in [Docs -> {"idle", "admitted", "stored", "written", "over"}]
  /\ removal \in [Docs -> [step : {"idle", "loaded", "read", "untupled", "removed"},
                           found : SUBSET (Docs \X Holders)]]
  /\ acl \in [People -> [step : {"idle", "checked", "written"},
                         op : {"none", "grant", "revoke"}, doc : Docs \cup {"none"}]]
  /\ pass \in [step : {"idle", "expected", "read", "fix", "written"},
               expected : SUBSET (Docs \X Holders), live : SUBSET (Docs \X Holders),
               missing : SUBSET (Docs \X Holders), orphaned : SUBSET (Docs \X Holders)]
  /\ begun \subseteq Docs /\ granted \subseteq Docs \X People /\ revoked \subseteq Docs \X People
  /\ asked \in 0..MaxRequests /\ faults \in 0..MaxFaults

\* Uploads that read the quota before the others commit exceed it, but by no more than the
\* number of uploads that run at once, less one (documents.rs:279-303).
QuotaOvershootBounded ==
  Cardinality(rows) + Cardinality(Uploading) <= MaxDocs + MaxUploads - 1

\* Whatever fails during an upload, a document that is listed has its object, until its
\* deletion begins; there is no row whose object an error path took away
\* (documents.rs:305-307, 377-404).
DocumentsAreWhole ==
  rows \ begun \subseteq objects

\* A grant that was answered holds until it is revoked or the document's deletion begins, and a
\* revocation until the next one: no pass of the reconciler takes one for drift, whatever
\* it read and when ("preserving every live dynamic grant on a live resource",
\* reconcile/openfga.rs:20-26).
GrantsAsAnswered ==
  /\ \A g \in granted : g[1] \in begun \/ g \in tuples
  /\ revoked \cap tuples = {}

\* Once no request is under way, auto-fix gives every document its tuples and takes away
\* those that failed uploads and deletions left behind.
Quiet ==
  /\ Uploading = {}
  /\ \A d \in Docs : removal[d] = NoRemoval
  /\ \A p \in People : acl[p] = NoRequest
Settled == Expected \subseteq tuples /\ \A t \in tuples : t[1] \in rows
TuplesSettle == <>[]Quiet => <>[]Settled
===============================================================================
