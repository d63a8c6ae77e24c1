----------------------------- MODULE PromptRegistry -----------------------------
(***************************************************************************)
(* The prompt that an analysis sends: its versions in prompt_registry, two *)
(* statements for each that is added and two for each activation, and the  *)
(* read of the active one by an analysis, which has a text of its own when *)
(* there is none.                                                          *)
(***************************************************************************)
EXTENDS Integers, FiniteSets

CONSTANTS
  Editors,    \* concurrent requests of platform owners
  VersionMax  \* bound on the versions

ASSUME PromptAssumption == VersionMax \in Nat /\ IsFiniteSet(Editors)

VARIABLES
  versions, \* those that are stored
  active,   \* those with is_active
  editor,   \* a request: its next statement, and the version it is about
  prompt,   \* the version the last analysis sent; 0: the fallback; -1: there was none
  \* history variables
  abreast,  \* activations that were between their statements after the last first one
  clean     \* the version of the last first statement, while nothing spoilt it; or 0

promptVars == <<versions, active, editor, prompt, abreast, clean>>

Resting == [at |-> "rest", version |-> 0]
Activating == {c \in Editors : editor[c].at = "activate"}

PromptInit ==
  /\ versions = {} /\ active = {} /\ prompt = -1 /\ abreast = 0 /\ clean = 0
  /\ editor = [c \in Editors |-> Resting]

-----------------------------------------------------------------------------
\* add_version: the highest version and one, and the INSERT, which the UNIQUE
\* constraint refuses when another request was faster.
ReadNext(c) ==
  /\ editor[c].at = "rest" /\ Cardinality(versions) < VersionMax
  /\ editor' = [editor EXCEPT ![c] =
       [at |-> "insert",
        version |-> 1 + CHOOSE n \in versions \cup {0} : \A k \in versions : k <= n]]
  /\ UNCHANGED <<versions, active, prompt, abreast, clean>>

InsertVersion(c) ==
  /\ editor[c].at = "insert"
  /\ versions' = versions \cup {editor[c].version}
  /\ editor' = [editor EXCEPT ![c] = Resting]
  /\ UNCHANGED <<active, prompt, abreast, clean>>

\* activate: none is active, and then one is, if there is such a version.
Deactivate(c, v) ==
  /\ editor[c].at = "rest"
  /\ active' = {}
  /\ editor' = [editor EXCEPT ![c] = [at |-> "activate", version |-> v]]
  /\ abreast' = Cardinality(Activating) + 1
  /\ clean' = IF Activating = {} /\ v \in versions THEN v ELSE 0
  /\ UNCHANGED <<versions, prompt>>

Activate(c) ==
  /\ editor[c].at = "activate"
  /\ active' = active \cup (versions \cap {editor[c].version})
  /\ editor' = [editor EXCEPT ![c] = Resting]
  /\ UNCHANGED <<versions, prompt, abreast, clean>>

EditorDies(c) ==
  /\ editor[c].at # "rest"
  /\ editor' = [editor EXCEPT ![c] = Resting]
  /\ clean' = IF editor[c].at = "activate" THEN 0 ELSE clean
  /\ UNCHANGED <<versions, active, prompt, abreast>>

\* _active_prompt: LIMIT 1 of the active ones, or the fallback.
SendPrompt ==
  /\ \E v \in IF active = {} THEN {0} ELSE active : prompt' = v
  /\ UNCHANGED <<versions, active, editor, abreast, clean>>

PromptNext ==
  \/ SendPrompt
  \/ \E c \in Editors :
       \/ ReadNext(c) \/ InsertVersion(c) \/ Activate(c) \/ EditorDies(c)
       \/ \E v \in 1 .. VersionMax : Deactivate(c, v)

PromptSpec == PromptInit /\ [][PromptNext]_promptVars

-----------------------------------------------------------------------------
\* Types: versions are numbered without a gap, whoever adds them at once; only
\* they are ever active, and never more than activations that overlapped
\* (config_registry.py:96 says one); and after an activation that ran by itself
\* and to its end, of a version there is, exactly that is active.
PromptsHoldTogether ==
  /\ versions = 1 .. Cardinality(versions) /\ active \subseteq versions
  /\ prompt \in versions \cup {-1, 0}
  /\ Cardinality(active) <= abreast
  /\ Activating = {} /\ clean # 0 => active = {clean}
=============================================================================
