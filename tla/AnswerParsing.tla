----------------------------- MODULE AnswerParsing -----------------------------
(***************************************************************************)
(* parse_json_object: what is recovered of a model's answer that has text  *)
(* or a fence around it, or stops at the token limit.  A text is a         *)
(* sequence of tokens; a string is one token, and so is the first part of  *)
(* one, or of a literal, at which an answer stopped.                       *)
(***************************************************************************)
EXTENDS Integers, Sequences, FiniteSets, SequencesExt

CONSTANTS
  Strings,  \* complete strings, names of fields among them
  NotAList

Opened == "open string"
Closed == "closed string"    \* Opened, with the quote it lacks
Escape == "open escape"      \* a string that stops after a backslash or within \uXXXX
Misclosed == "closed escape" \* Escape with a quote: the quote, or what is before it, is bad
Half == "half a literal"
IsString(t) == t \in Strings \cup {Closed}

-----------------------------------------------------------------------------
\* json.loads, as a machine that reads a token after the other.  frames: the
\* containers that are open, each with what it has so far.
Value(kind, is, of) == [kind |-> kind, is |-> is, of |-> of]
NoValue == Value("error", "", <<>>)
Unread == [want |-> {"value"}, frames |-> <<>>, value |-> NoValue]

PutValue(s, v) ==
  IF s.frames = <<>> THEN [want |-> {}, frames |-> <<>>, value |-> v]
  ELSE LET top == s.frames[1]
           new == IF top.kind = "object" THEN [name |-> top.name, value |-> v] ELSE v
       IN [want |-> {"comma", top.kind}, value |-> NoValue,
           frames |-> <<[top EXCEPT !.has = Append(@, new)]>> \o Tail(s.frames)]

OpenContainer(s, kind) ==
  [want |-> {kind, IF kind = "object" THEN "name" ELSE "value"}, value |-> NoValue,
   frames |-> <<[kind |-> kind, name |-> "", has |-> <<>>]>> \o s.frames]

ReadToken(s, t) ==
  LET top == s.frames[1] IN
  CASE t = "{" /\ "value" \in s.want -> OpenContainer(s, "object")
    [] t = "[" /\ "value" \in s.want -> OpenContainer(s, "list")
    [] t = "}" /\ "object" \in s.want -> PutValue([s EXCEPT !.frames = Tail(@)], Value("object", "", top.has))
    [] t = "]" /\ "list" \in s.want -> PutValue([s EXCEPT !.frames = Tail(@)], Value("list", "", top.has))
    [] t = "," /\ "comma" \in s.want ->
         [s EXCEPT !.want = IF top.kind = "object" THEN {"name"} ELSE {"value"}]
    [] IsString(t) /\ "name" \in s.want -> [s EXCEPT !.want = {"colon"}, !.frames[1].name = t]
    [] t = ":" /\ "colon" \in s.want -> [s EXCEPT !.want = {"value"}]
    [] (IsString(t) \/ t = "null") /\ "value" \in s.want -> PutValue(s, Value("scalar", t, <<>>))
    [] OTHER -> [want |-> {}, frames |-> <<>>, value |-> NoValue]

Loads(raw) == FoldLeft(ReadToken, Unread, raw).value

-----------------------------------------------------------------------------
Places(raw, S) == {i \in DOMAIN raw : raw[i] \in S}
FirstOf(S) == CHOOSE i \in S : \A j \in S : i <= j
LastOf(S) == CHOOSE i \in S : \A j \in S : i >= j

\* _FENCE: what is between the first two fences.
Fenced(raw) ==
  LET fences == Places(raw, {"fence"})
  IN IF Cardinality(fences) < 2 THEN <<>>
     ELSE SubSeq(raw, FirstOf(fences) + 1, FirstOf(fences \ {FirstOf(fences)}) - 1)

\* The outermost braces, or brackets.
Outermost(raw, opener, closer) ==
  LET from == Places(raw, {opener})
      to == Places(raw, {closer})
  IN IF from = {} \/ to = {} \/ (from # {} /\ to # {} /\ LastOf(to) < FirstOf(from)) THEN <<>>
     ELSE SubSeq(raw, FirstOf(from), LastOf(to))

Ends(s, n, Pattern(_)) == Len(s) >= n /\ Pattern(SubSeq(s, Len(s) - n + 1, Len(s)))
Without(s, n) == SubSeq(s, 1, Len(s) - n)

\* A comma at the end; then a name that has no value, and the comma before it.
Trimmed(s) == IF Ends(s, 1, LAMBDA e : e[1] = ",") THEN Without(s, 1) ELSE s
KeepsDangling(s) == s \* mutant: the name is left

NoDangling(s) ==
  IF ~Ends(s, 2, LAMBDA e : IsString(e[1]) /\ e[2] = ":") THEN s ELSE Trimmed(Without(s, 2))

\* _repair_truncated: closes the string and the containers that are open.  A
\* string gets its quote also when it stops in an escape.
Repaired(raw) ==
  LET rest == SubSeq(raw, FirstOf(Places(raw, {"{", "["})), Len(raw))
      Nest(stack, t) == CASE t \in {"{", "["} -> <<t>> \o stack
                          [] t \in {"}", "]"} /\ stack # <<>> -> Tail(stack)
                          [] OTHER -> stack
      stack == FoldLeft(Nest, <<>>, rest)
      closed == [i \in DOMAIN rest |-> CASE rest[i] = Opened -> Closed
                                         [] rest[i] = Escape -> Misclosed
                                         [] OTHER -> rest[i]]
  IN IF Places(raw, {"{", "["}) = {} \/ (stack = <<>> /\ closed = rest) THEN <<>>
     ELSE NoDangling(Trimmed(closed))
            \o [i \in DOMAIN stack |-> IF stack[i] = "{" THEN "}" ELSE "]"]

Candidates(raw) ==
  <<raw, Fenced(raw), Outermost(raw, "{", "}"), Outermost(raw, "[", "]"), Repaired(raw)>>

\* The fields of the first candidate that is an object or a list; none: MalformedModelOutput.
ParseJsonObject(raw) ==
  LET all == Candidates(raw)
      usable == {i \in DOMAIN all : Loads(all[i]).kind \in {"object", "list"}}
      best == Loads(all[FirstOf(usable)])
  IN IF usable = {} THEN [malformed |-> TRUE, payload |-> <<>>]
     ELSE [malformed |-> FALSE,
           payload |-> IF best.kind = "object" THEN best.of
                       ELSE <<[name |-> "items", value |-> best]>>]

\* coerce_list: the list under a likely name, or the first there is.
LikelyNames == <<"obligations", "items", "results", "data", "output">>
CoerceList(payload) ==
  LET lists == {i \in DOMAIN payload : payload[i].value # NotAList}
      likely == {k \in DOMAIN LikelyNames : \E i \in lists : payload[i].name = LikelyNames[k]}
      likeliest == CHOOSE k \in likely : \A l \in likely : k <= l
      best == {i \in lists : likely = {} \/ payload[i].name = LikelyNames[likeliest]}
  IN IF lists = {} THEN <<>> ELSE payload[CHOOSE i \in best : \A j \in best : i <= j].value

\* What extract_detailed takes out of an answer.
Taken(payload) ==
  CoerceList([i \in DOMAIN payload |->
    [payload[i] EXCEPT !.value = IF @.kind = "list" THEN @.of ELSE NotAList]])
=============================================================================
