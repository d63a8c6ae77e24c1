---------------------------- MODULE ContractFiling ----------------------------
(***************************************************************************)
(* The contracts of one workspace, the obligations that people keep for    *)
(* them, and the audit trail.  A request makes its checks, then its change *)
(* and then its entry in the trail, each in a transaction of its own, and  *)
(* may fail or die before any of them.  Ids are the database's and never   *)
(* used twice.  A contract's text and documents are DocumentStore's, the   *)
(* obligations that a model proposes ContractAnalysis'.                    *)
(***************************************************************************)
EXTENDS Integers, FiniteSets

CONSTANTS
  Clerks,       \* concurrent requests
  Filings,      \* ids of contracts
  Duties,       \* ids of obligations
  Statuses,     \* open, in_progress, done
  ContractsMax, \* the plan's contracts_max
  ActMax,       \* bound on the requests
  Nothing

VARIABLES
  filed,  \* the contracts there are
  duty,   \* the obligations there are: contract, status and, for the history,
          \* the status each was created with, or Nothing
  trail,  \* the entries of audit_log
  task,   \* a request: what it does next, to what, what it has read, and the
          \* entry it is to write
  acts,   \* how many requests there have been
  \* history variables
  taken,  \* the ids ever given out: to a contract, or to an obligation of one
  lost    \* what was changed by a request that did not write its entry

filingVars == <<filed, duty, trail, task, acts, taken, lost>>

Things == Filings \cup Duties
Entries == [what : {"created", "updated", "deleted"}, of : Things,
            from : Statuses \cup {Nothing}, to : Statuses \cup {Nothing}]
Entry(what, x, from, to) == [what |-> what, of |-> x, from |-> from, to |-> to]
Kept == [contract : Filings, status : Statuses, born : Statuses]

ASSUME FilingAssumption ==
  /\ IsFiniteSet(Clerks) /\ ContractsMax \in Nat \ {0} /\ ActMax \in Nat
  /\ Filings \cap Duties = {} /\ Filings \cap (Duties \X Filings) = {}
  /\ Nothing \notin Things \cup Statuses /\ Nothing \notin Entries /\ Nothing \notin Kept

Rest == [step |-> "rest", of |-> Nothing, status |-> Nothing, entry |-> Nothing]
Steps == {"rest", "file", "edit", "unfile", "add", "move", "record"}

FilingTypeOK ==
  /\ filed \subseteq Filings
  /\ \A o \in Duties : duty[o] \in Kept \cup {Nothing}
  /\ trail \subseteq Entries
  /\ \A c \in Clerks :
       /\ task[c].step \in Steps /\ task[c].of \in Things \cup {Nothing}
       /\ task[c].status \in Statuses \cup {Nothing}
       /\ task[c].entry \in Entries \cup {Nothing}
  /\ acts \in 0 .. ActMax
  /\ taken \subseteq Filings \cup (Duties \X Filings)
  /\ lost \subseteq Things

FilingInit ==
  /\ filed = {} /\ duty = [o \in Duties |-> Nothing] /\ trail = {}
  /\ task = [c \in Clerks |-> Rest]
  /\ acts = 0 /\ taken = {} /\ lost = {}

-----------------------------------------------------------------------------
Does(c, s) == task[c].step = s
Rests(c) == task' = [task EXCEPT ![c] = Rest]
Records(c, e) == task' = [task EXCEPT ![c] = [Rest EXCEPT !.step = "record", !.entry = e]]

\* A request whose checks have passed goes on to its change.
Proceeds(c, s, x, read) ==
  /\ Does(c, "rest") /\ acts < ActMax
  /\ acts' = acts + 1
  /\ task' = [task EXCEPT ![c] = [Rest EXCEPT !.step = s, !.of = x, !.status = read]]
  /\ UNCHANGED <<filed, duty, trail, taken, lost>>

OfContract(o) == CHOOSE k \in Filings : <<o, k>> \in taken
Given == {p[1] : p \in taken \ Filings}

-----------------------------------------------------------------------------
\* Contracts.

\* _enforce_contract_limit: the ceiling against a count of the rows.
BeginContract(c) == Cardinality(filed) < ContractsMax /\ Proceeds(c, "file", Nothing, Nothing)

CreateContract(c) ==
  /\ Does(c, "file")
  /\ \E k \in Filings \ taken :
       /\ filed' = filed \cup {k} /\ taken' = taken \cup {k}
       /\ Records(c, Entry("created", k, Nothing, Nothing))
  /\ UNCHANGED <<duty, trail, acts, lost>>

\* _require_contract, and then the change of a row that may be gone (404).
BeginUpdateContract(c, k) == k \in filed /\ Proceeds(c, "edit", k, Nothing)

UpdateContract(c) ==
  /\ Does(c, "edit")
  /\ IF task[c].of \in filed
     THEN Records(c, Entry("updated", task[c].of, Nothing, Nothing))
     ELSE Rests(c)
  /\ UNCHANGED <<filed, duty, trail, acts, taken, lost>>

BeginDeleteFiling(c, k) == k \in filed /\ Proceeds(c, "unfile", k, Nothing)

DeleteRowOnly(c) == \* mutant: obligations without ON DELETE CASCADE
  /\ Does(c, "unfile")
  /\ filed' = filed \ {task[c].of}
  /\ IF task[c].of \in filed
     THEN Records(c, Entry("deleted", task[c].of, Nothing, Nothing))
     ELSE Rests(c)
  /\ UNCHANGED <<duty, trail, acts, taken, lost>>

\* The obligations go with their contract.
DeleteFiling(c) ==
  /\ Does(c, "unfile")
  /\ LET k == task[c].of
     IN /\ filed' = filed \ {k}
        /\ duty' = [o \in Duties |-> IF duty[o] # Nothing /\ duty[o].contract = k
                                     THEN Nothing ELSE duty[o]]
        /\ IF k \in filed THEN Records(c, Entry("deleted", k, Nothing, Nothing))
           ELSE Rests(c)
  /\ UNCHANGED <<trail, acts, taken, lost>>

-----------------------------------------------------------------------------
\* Obligations.

BeginObligation(c, k) == k \in filed /\ Proceeds(c, "add", k, Nothing)

\* A contract that is gone by now fails the insertion by its foreign key.  The
\* entry does not say the status, which need not be open.
CreateObligation(c) ==
  /\ Does(c, "add")
  /\ LET k == task[c].of
     IN IF k \in filed
        THEN \E o \in Duties \ Given, s \in Statuses :
               /\ duty' = [duty EXCEPT ![o] = [contract |-> k, status |-> s, born |-> s]]
               /\ taken' = taken \cup {<<o, k>>}
               /\ Records(c, Entry("created", o, Nothing, Nothing))
        ELSE Rests(c) /\ UNCHANGED <<duty, taken>>
  /\ UNCHANGED <<filed, trail, acts, lost>>

\* The status that the entry will say the obligation had is read here; an update
\* of other fields only says none.
BeginUpdateObligation(c, o) == duty[o] # Nothing /\ Proceeds(c, "move", o, duty[o].status)

UpdateObligation(c) ==
  /\ Does(c, "move")
  /\ LET o == task[c].of
     IN IF duty[o] = Nothing THEN Rests(c) /\ UNCHANGED duty
        ELSE \/ \E s \in Statuses :
                  /\ duty' = [duty EXCEPT ![o].status = s]
                  /\ Records(c, Entry("updated", o, task[c].status, s))
             \/ Records(c, Entry("updated", o, Nothing, Nothing)) /\ UNCHANGED duty
  /\ UNCHANGED <<filed, trail, acts, taken, lost>>

DeleteObligation(c, o) ==
  /\ Does(c, "rest") /\ acts < ActMax /\ duty[o] # Nothing
  /\ acts' = acts + 1
  /\ duty' = [duty EXCEPT ![o] = Nothing]
  /\ Records(c, Entry("deleted", o, Nothing, Nothing))
  /\ UNCHANGED <<filed, trail, taken, lost>>

-----------------------------------------------------------------------------
\* _audit, awaited, after the change.
RecordEntry(c) ==
  /\ Does(c, "record")
  /\ trail' = trail \cup {task[c].entry}
  /\ Rests(c)
  /\ UNCHANGED <<filed, duty, acts, taken, lost>>

\* A statement fails, or the request dies.  A change that was made stays made.
RequestFails(c) ==
  /\ ~Does(c, "rest")
  /\ lost' = IF Does(c, "record") THEN lost \cup {task[c].entry.of} ELSE lost
  /\ Rests(c)
  /\ UNCHANGED <<filed, duty, trail, acts, taken>>

FilingNext ==
  \E c \in Clerks :
    \/ BeginContract(c) \/ CreateContract(c) \/ UpdateContract(c) \/ DeleteFiling(c)
    \/ \E k \in Filings :
         BeginUpdateContract(c, k) \/ BeginDeleteFiling(c, k) \/ BeginObligation(c, k)
    \/ CreateObligation(c) \/ UpdateObligation(c)
    \/ \E o \in Duties : BeginUpdateObligation(c, o) \/ DeleteObligation(c, o)
    \/ RecordEntry(c) \/ RequestFails(c)

FilingSpec == FilingInit /\ [][FilingNext]_filingVars

-----------------------------------------------------------------------------
\* Is an entry in the trail, or about to be, or lost?
Told(what, x, to) ==
  \/ x \in lost
  \/ \E e \in trail \cup ({task[c].entry : c \in Clerks} \ {Nothing}) :
       e.of = x /\ e.what \in what /\ e.to = to

\* "an action the trail cannot record is an action that should fail loudly"
\* (routers.py:180): of what there is an entry says that it was created, of what
\* is no more that it was deleted, and of an obligation whose status is not the
\* one it was created with that it was given this one, unless the request that
\* changed it was answered with a failure or never; an obligation that went with
\* its contract has its contract's entry.  (No entry says the status that an
\* obligation was created with, and so not that of one that never left it.)
TrailExplainsRows ==
  /\ \A k \in taken \cap Filings :
       Told({IF k \in filed THEN "created" ELSE "deleted"}, k, Nothing)
  /\ \A o \in Given :
       LET d == duty[o]
       IN IF d # Nothing
          THEN /\ Told({"created"}, o, Nothing)
               /\ d.status = d.born \/ Told({"updated"}, o, d.status)
          ELSE Told({"deleted"}, o, Nothing) \/ Told({"deleted"}, OfContract(o), Nothing)

\* What the trail says is deleted is gone, a contract with all that hung on it,
\* also what was being added or changed in the meantime.
DeletedIsGone ==
  \A e \in trail : e.what = "deleted" =>
    /\ e.of \notin filed
    /\ \A o \in Duties : duty[o] # Nothing => o # e.of /\ duty[o].contract # e.of

\* contracts_max (routers.py:106-119) is stretched by at most one less than the
\* number of concurrent requests.
ContractsStretch == Cardinality(filed) <= ContractsMax + Cardinality(Clerks) - 1

FilingInv == FilingTypeOK /\ TrailExplainsRows /\ DeletedIsGone /\ ContractsStretch
=============================================================================
