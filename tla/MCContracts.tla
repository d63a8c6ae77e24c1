------------------------------ MODULE MCContracts ------------------------------
(***************************************************************************)
(* An instance for TLC of what the contract service does: the documents of *)
(* its contracts, the analyses of their text, and the filing of contracts  *)
(* and obligations.  Their models share no state: one of them, chosen at   *)
(* the start, moves, so that the states are those of each by itself.       *)
(* Below are claims of the code's comments that the instance refutes       *)
(* (README.md tells how).                                                  *)
(***************************************************************************)
EXTENDS DocumentStore, ContractReading, ContractAnalysis, ContractFiling, TLC

CONSTANTS k1, f1, f2, f3, n1, n2, b1, b2, b3, o1, o2

\* Two files, one of them under two names; and for the limits three files, of
\* which one more could be there than the requests may stretch the limit by.
SomeKeys == {<<k1, f1, n1>>, <<k1, f1, n2>>, <<k1, f2, n1>>, <<k1, f3, n1>>}
TwoFiles == {k \in SomeKeys : k[2] # f3}
OneName == {k \in SomeKeys : k[3] = n1}

\* Files of every format, sound or not, with texts and pages around each limit.
File(m, w, x) ==
  [magic : {m}, word : {w}, textual : {x}, sound : BOOLEAN, empty : BOOLEAN,
   chars : 0 .. 8, stored : IF m = "pdf" THEN 0 .. 4 ELSE {0},
   rendered : IF w THEN 0 .. 3 ELSE {0}, manual : IF w THEN 0 .. 3 ELSE {0}]
SomeFiles ==
  File("pdf", FALSE, FALSE) \cup File("zip", TRUE, FALSE) \cup File("zip", FALSE, FALSE)
    \cup File("none", FALSE, TRUE) \cup File("none", FALSE, FALSE)

\* Texts of two paragraphs of up to two sentences, and of three of one, where a
\* sentence is short, has a blank, or is longer than a section; and one with the
\* white space that a pasted text has.  1 stands for a letter.
Sentences == {<<1>>, <<1, 1>>, <<1, 0, 1>>, <<1, 1, 1, 0, 1, 1, 1>>}
Paragraphs == Sentences \cup {s \o <<Stop>> \o t : s, t \in Sentences}
Pasted == <<1, 0, 0, 1, Stop, Stop, 1, Break, Break, Break, 1, 0, 1, Stop, 1, 1>>
Lettered(t) == [k \in DOMAIN t |-> IF t[k] = 1 THEN k ELSE t[k]]
SomeTexts ==
  {Lettered(t) : t \in {<<>>, Pasted} \cup Paragraphs
                        \cup {p \o Line \o q : p, q \in Paragraphs}
                        \cup {Joined(p, Line) : p \in [1 .. 3 -> Sentences]}}

\* Answers with a list where it was asked for, under another name, beside
\* something else, and without one.
Item(s, d) == [says |-> s, due |-> d]
Field(n, v) == <<[name |-> n, value |-> v]>>
SomeAnswers ==
  {Field("obligations", <<Item("pay", "may")>>),
   Field("items", <<Item("report", "odd"), Item("pay", "may")>>) \o Field("obligations", NotAList),
   Field("items", <<Item("pay", "june")>>)
     \o Field("obligations", <<Item("junk", NoDate), Item("report", NoDate)>>),
   Field("note", NotAList) \o Field("duties", <<Item("little", "may"), Item("pay", "june")>>),
   <<>>}

SomeItems == [says : {"pay", "report", "junk", "little"}, due : {"may", "june", "odd", NoDate}]

\* Up to two obligations, with a date or without, in a list of its own or under its name.
Obligations ==
  {<< <<"description", "pay">> >>, << <<"description", "pay">>, <<"due_date", "null">> >>,
   << <<"due_date", "may">>, <<"description", "pay">> >>}
SomeMeanings ==
  [items : {<<>>} \cup [{1} -> Obligations] \cup [1 .. 2 -> Obligations], bare : BOOLEAN]

\* Requests, work and clerks have the same names.
Symmetry == Permutations(Requests)

VARIABLE part

ServiceInit ==
  /\ part \in {"documents", "limits", "reading", "analysis", "filing"}
  /\ part # "analysis" => contract = "text" /\ provider = "up"
  /\ DocumentsInit /\ ReadingInit /\ AnalysisInit /\ FilingInit

\* One unused id is as good as another.
InTurn ==
  /\ b3 \in taken' => b2 \in taken'
  /\ b2 \in taken' => b1 \in taken'
  /\ o2 \in Given' => o1 \in Given'

Uses(keys) == \A c \in Requests : request'[c].keys \subseteq keys

ServiceNext ==
  /\ UNCHANGED part
  /\ \/ /\ part = "documents" /\ DocumentsNext /\ Uses(TwoFiles)
        /\ UNCHANGED <<readingVars, allVars, filingVars>>
     \/ /\ part = "limits" /\ DocumentsNext /\ ~broken' /\ Uses(OneName)
        /\ UNCHANGED <<readingVars, allVars, filingVars>>
     \/ part = "reading" /\ ReadingNext /\ UNCHANGED <<documentVars, allVars, filingVars>>
     \/ part = "analysis" /\ AnalysisNext /\ UNCHANGED <<documentVars, readingVars, filingVars>>
     \/ /\ part = "filing" /\ FilingNext /\ InTurn
        /\ UNCHANGED <<documentVars, readingVars, allVars>>

ServiceSpec ==
  ServiceInit /\ [][ServiceNext]_<<part, documentVars, readingVars, allVars, filingVars>>

-----------------------------------------------------------------------------
\* ingestion.py:7: metadata never points at a missing object.
RowsHaveObjects == \A r \in documents : r.key \in objects

\* ingestion.py:9: no orphaned bytes.
NoOrphans ==
  (\A c \in Requests : At(c, "idle")) => \A k \in objects : k \in {r.key : r \in documents}

\* repository.py:434: what was ingested this month cannot drift from the rows.
IntakeWithinQuota == intake <= Quota

\* documents.py:242-244: pages that are neither extracted nor analysed are not
\* billed.  (The text is cut off after its pages were counted.)
OnlyReadPagesAreBilled ==
  doing = "uploaded" /\ upload.as.error = "none" /\ upload.as.truncated =>
    upload.as.pages < PagesSaid(upload.of)

\* json_parsing.py:7-8: what can be recovered is, and else an error is raised.
\* (Of a list without a name around one object, the object is read as the answer,
\* which has no list then, and the answer counts as one without obligations.)
NothingIsOverlooked ==
  doing = "parsed" /\ ~answer.as.malformed /\ Complete(answer) > 0 =>
    Taken(answer.as.payload) # <<>>

\* chunking.py:5-6: a text is not cut off silently.
NothingIsDropped ==
  doing = "cut" /\ text # <<>> => Final(sections[Len(sections)]) = Len(text)

\* chunking.py:14-17: what spans two sections is whole in one of them.
NothingIsSevered ==
  doing = "cut" =>
    \A k \in 2 .. Len(sections) : First(sections[k]) <= Final(sections[k - 1])

\* job_handlers.py:16 and :22: that overlapping runs wipe each other's output
\* is fixed.  (Only queued runs are deduplicated.)
OneRunsOutput ==
  (\A r \in Runs : stage[r] \in {"ready", "ended"}) =>
    \A p, q \in (rows \cap Extracted) \ edited : p[1] = q[1]

\* analysis.py:60: only untouched AI obligations are replaced.  (An obligation
\* whose date or text a person has changed is open still.)
OnlyUntouchedReplaced ==
  [][contract' # "gone" => (edited \cap rows) \ rows' \subseteq dismissed']_allVars

\* routers.py:129-131 (and docs/build-plan.md:759): the analysis that crosses
\* the line completes, so the overshoot is bounded by one analysis.
OvershootIsOneAnalysis == used < Cap + MaxTokens

\* routers.py:554: both sides of a change of status are recorded, so a status
\* that was left is one that something was changed from.  (The side it was
\* changed from is read before the change.)
BothSidesAreRecorded ==
  (lost = {} /\ \A c \in Clerks : Does(c, "rest")) =>
    \A o \in Duties : \A e \in trail :
      (duty[o] # Nothing /\ e.of = o /\ e.to # duty[o].status) =>
        \E f \in trail : f.of = o /\ f.what = "updated" /\ f.from = e.to
=============================================================================
