----------------------------- MODULE DocumentStore -----------------------------
(***************************************************************************)
(* The documents of one workspace's contracts: rows of                     *)
(* contract_compliance.documents and objects in the storage bucket, which  *)
(* no transaction spans.  IngestionService.ingest, the deletion of a       *)
(* document and the deletion of a contract, call by call; requests overlap *)
(* and die, and calls fail.                                                *)
(***************************************************************************)
EXTENDS Integers, FiniteSets

CONSTANTS
  Contracts,
  Files,    \* contents, each its own checksum
  Names,    \* clean file names
  Keys,     \* storage keys: contract, file and name; the tenant is fixed here
  Requests, \* concurrent requests
  IntakeMax,\* bound on the uploads that succeed
  Quota,    \* stands for each of the plan's limits; every file counts 1
  Failing,  \* whether calls fail and requests die
  None

ASSUME DocumentAssumption ==
  /\ IsFiniteSet(Requests) /\ Quota \in Nat \ {0} /\ Failing \in BOOLEAN
  /\ Keys \subseteq Contracts \X Files \X Names
  /\ IntakeMax \in Nat /\ None \notin Contracts

VARIABLES
  contracts, \* the contracts that exist
  documents, \* the documents: id and storage key, whose file is the checksum,
             \* and, for the history, whether the INSERT was answered
  objects,   \* the keys that have an object
  body,      \* body_source of a contract
  request,
  \* history variables
  clashed,   \* keys that two requests handled at the same time
  broken,    \* a call failed or a request died
  intake     \* how many uploads succeeded, and the id of the last one's row

store == <<contracts, documents, objects, body>>
documentVars == <<store, request, clashed, broken, intake>>

\* What a request is about to do, the contract and row it is about, and the
\* keys it has to put or remove.
Idle == [step |-> "idle", contract |-> None, id |-> 0, keys |-> {}]

DocumentTypeOK ==
  /\ contracts \subseteq Contracts
  /\ documents \subseteq [id : 1 .. IntakeMax, key : Keys, answered : BOOLEAN]
  /\ objects \subseteq Keys
  /\ body \in [Contracts -> {"manual", "document"}]
  /\ request \in [Requests ->
       [step : {"idle", "count", "duplicate", "put", "create", "compensate", "body",
                "delete row", "list", "cascade", "remove"},
        contract : Contracts \cup {None}, id : 0 .. IntakeMax, keys : SUBSET Keys]]
  /\ clashed \subseteq Keys /\ broken \in BOOLEAN /\ intake \in 0 .. IntakeMax

DocumentsInit ==
  /\ contracts = Contracts
  /\ documents = {} /\ objects = {}
  /\ body = [k \in Contracts |-> "manual"]
  /\ request = [c \in Requests |-> Idle]
  /\ clashed = {} /\ broken = FALSE /\ intake = 0

-----------------------------------------------------------------------------
At(c, s) == request[c].step = s
GoesTo(c, s) == request' = [request EXCEPT ![c].step = s]
Done(c) == request' = [request EXCEPT ![c] = Idle]

\* A request handles its keys, and all of a contract's while it deletes it.
Handles(e, k) == k \in e.keys \/ (e.step \in {"list", "cascade"} /\ e.contract = k[1])

\* A request begins; e says what it knows.
Begins(c, e) ==
  /\ At(c, "idle")
  /\ request' = [request EXCEPT ![c] = e]
  /\ clashed' = clashed \cup
       {k \in Keys : Handles(e, k) /\ \E d \in Requests : Handles(request[d], k)}
  /\ UNCHANGED <<store, broken, intake>>

TheKey(c) == CHOOSE k \in request[c].keys : TRUE

\* The unique index on contract and checksum, which ignores the name.
Attached(k) == \E r \in documents : r.key[1] = k[1] /\ r.key[2] = k[2]

-----------------------------------------------------------------------------
\* upload_document and ingest.

Upload(c, k) ==
  /\ k[1] \in contracts
  /\ Begins(c, [step |-> "count", contract |-> k[1], id |-> 0, keys |-> {k}])

\* What a limit is compared with is summed over the rows there are, so that a
\* deletion gives it back, a month's too.
InUse == Cardinality(documents)

\* The limits, one after the other.
Count(c) ==
  /\ At(c, "count")
  /\ IF InUse + 1 <= Quota THEN GoesTo(c, "duplicate") ELSE Done(c)
  /\ UNCHANGED <<store, clashed, broken, intake>>

Duplicate(c) ==
  /\ At(c, "duplicate")
  /\ IF Attached(TheKey(c)) THEN Done(c) ELSE GoesTo(c, "put")
  /\ UNCHANGED <<store, clashed, broken, intake>>

Put(c) ==
  /\ At(c, "put")
  /\ objects' = objects \cup request[c].keys
  /\ GoesTo(c, "create")
  /\ UNCHANGED <<contracts, documents, body, clashed, broken, intake>>

\* INSERT: the contract must exist and the file not be attached.
Insertable(k) == k[1] \in contracts /\ ~Attached(k)

Inserts(k, answered) ==
  /\ Insertable(k) /\ intake < IntakeMax
  /\ documents' = documents \cup {[id |-> intake + 1, key |-> k, answered |-> answered]}
  /\ intake' = intake + 1

Create(c) ==
  /\ At(c, "create")
  /\ \/ Inserts(TheKey(c), TRUE) /\ GoesTo(c, "body")
     \/ ~Insertable(TheKey(c)) /\ GoesTo(c, "compensate") /\ UNCHANGED <<documents, intake>>
  /\ UNCHANGED <<contracts, objects, body, clashed, broken>>

\* The call raises, also when the row was committed and the answer was lost.
CreateFails(c) ==
  /\ At(c, "create") /\ Failing
  /\ broken' = TRUE
  /\ GoesTo(c, "compensate")
  /\ UNCHANGED <<documents, intake>> \/ Inserts(TheKey(c), FALSE)
  /\ UNCHANGED <<contracts, objects, body, clashed>>

\* The compensating delete; its own failure is logged.
Compensate(c) ==
  /\ At(c, "compensate")
  /\ objects' = objects \ request[c].keys
  /\ Done(c)
  /\ UNCHANGED <<contracts, documents, body, clashed, broken, intake>>

\* replace_body.
Body(c) ==
  /\ At(c, "body")
  /\ \/ body' = [body EXCEPT ![TheKey(c)[1]] = "document"]
     \/ UNCHANGED body
  /\ Done(c)
  /\ UNCHANGED <<contracts, documents, objects, clashed, broken, intake>>

\* update_contract with a body.
EditBody(k) ==
  /\ k \in contracts
  /\ body' = [body EXCEPT ![k] = "manual"]
  /\ UNCHANGED <<contracts, documents, objects, request, clashed, broken, intake>>

-----------------------------------------------------------------------------
\* delete_document: the row is read, deleted by its id, and whether or not
\* that deleted anything its object is removed.

BeginDelete(c, r) ==
  Begins(c, [step |-> "delete row", contract |-> r.key[1], id |-> r.id, keys |-> {r.key}])

DeleteRow(c) ==
  /\ At(c, "delete row")
  /\ documents' = {r \in documents : r.id # request[c].id}
  /\ GoesTo(c, "remove")
  /\ UNCHANGED <<contracts, objects, body, clashed, broken, intake>>

\* delete_contract: the keys, the cascading delete, then object by object.

BeginDeleteContract(c, k) ==
  /\ k \in contracts
  /\ Begins(c, [Idle EXCEPT !.step = "list", !.contract = k])

ListKeys(c) ==
  /\ At(c, "list")
  /\ request' = [request EXCEPT ![c].step = "cascade",
                   ![c].keys = {r.key : r \in {q \in documents : q.key[1] = request[c].contract}}]
  /\ UNCHANGED <<store, clashed, broken, intake>>

CascadeAlone(c) == \* mutant: the objects are left to the cascade
  /\ At(c, "cascade")
  /\ contracts' = contracts \ {request[c].contract}
  /\ documents' = {r \in documents : r.key[1] # request[c].contract}
  /\ Done(c)
  /\ UNCHANGED <<objects, body, clashed, broken, intake>>

Cascade(c) ==
  /\ At(c, "cascade")
  /\ LET k == request[c].contract
     IN /\ contracts' = contracts \ {k}
        /\ documents' = {r \in documents : r.key[1] # k}
        /\ IF k \in contracts /\ request[c].keys # {} THEN GoesTo(c, "remove") ELSE Done(c)
  /\ UNCHANGED <<objects, body, clashed, broken, intake>>

\* IngestionService.remove, for each key; a failure is logged.
RemoveObject(c, k) ==
  /\ At(c, "remove") /\ k \in request[c].keys
  /\ \/ objects' = objects \ {k} /\ UNCHANGED broken
     \/ Failing /\ broken' = TRUE /\ UNCHANGED objects
  /\ IF request[c].keys = {k} THEN Done(c)
     ELSE request' = [request EXCEPT ![c].keys = @ \ {k}]
  /\ UNCHANGED <<contracts, documents, body, clashed, intake>>

Die(c) ==
  /\ Failing /\ ~At(c, "idle")
  /\ broken' = TRUE
  /\ Done(c)
  /\ UNCHANGED <<store, clashed, intake>>

DocumentsNext ==
  \/ \E k \in Contracts : EditBody(k)
  \/ \E c \in Requests :
       \/ \E k \in Keys : Upload(c, k) \/ RemoveObject(c, k)
       \/ Count(c) \/ Duplicate(c) \/ Put(c) \/ Create(c) \/ CreateFails(c)
       \/ Compensate(c) \/ Body(c)
       \/ \E r \in documents : BeginDelete(c, r)
       \/ \E k \in Contracts : BeginDeleteContract(c, k)
       \/ DeleteRow(c) \/ ListKeys(c) \/ Cascade(c) \/ Die(c)

DocumentsSpec == DocumentsInit /\ [][DocumentsNext]_documentVars

-----------------------------------------------------------------------------
\* See DocumentInv.
MetadataHasBytes ==
  \A r \in documents : r.answered => r.key \in objects \/ r.key \in clashed

\* See DocumentInv.
BytesHaveMetadata ==
  \A k \in objects :
    \/ k \in clashed \/ broken
    \/ k \in {r.key : r \in documents}
    \/ \E c \in Requests : k \in request[c].keys /\ request[c].step \in {"create", "compensate", "remove"}

\* The plan's limits (ingestion.py:143-198) are stretched by at most one less
\* than the number of concurrent uploads.
QuotaStretch == Cardinality(documents) <= Quota + Cardinality(Requests) - 1

\* Types; "metadata never points at a missing object" (ingestion.py:7), whoever
\* dies and whatever fails, but for a row that was committed by an INSERT whose
\* answer was lost: the upload takes it for failed and removes its bytes; and
\* "leaving no orphaned bytes" (ingestion.py:10) if nothing failed: an object
\* without a row is about to get one or to go.  Both only for keys that no two
\* requests handled at the same time.  With them the limits.
DocumentInv == DocumentTypeOK /\ MetadataHasBytes /\ BytesHaveMetadata /\ QuotaStretch
=============================================================================
