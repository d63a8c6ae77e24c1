---------------------------- MODULE ContractReading ----------------------------
(***************************************************************************)
(* From a file to the obligations that are proposed: an upload is read and *)
(* its pages are counted; the text of a contract is cut into sections that *)
(* fit the model and overlap; and the answers for the sections are checked *)
(* and merged.  A text is a sequence of characters: a letter (anything that*)
(* is no white space) is the number of its place, by which it is found     *)
(* again, and white space is a number that says what it separates.         *)
(***************************************************************************)
EXTENDS AnswerParsing

CONSTANTS
  Uploads,      \* files, as far as documents.py looks at them
  MaxPages,     \* MAX_PDF_PAGES
  MaxText,      \* MAX_EXTRACTED_CHARS
  PageSize,     \* CHARS_PER_PAGE
  Texts,        \* bodies of contracts
  MaxChars, Overlap, MaxSections, \* of chunk_text
  Answers,      \* what the model may answer: sequences of fields with values
  Items,        \* what the lists in an answer may hold
  MaxDrafts,    \* MAX_OBLIGATIONS
  NoDate, Unknown,
  Longest,      \* bound on the tokens of an answer
  Meanings      \* what the model may mean: items with named values, in a list or a named one

ASSUME ReadingAssumption ==
  /\ {MaxPages, MaxText, PageSize, MaxChars, MaxSections, MaxDrafts} \subseteq Nat \ {0}
  /\ Overlap \in Nat /\ Unknown \notin Nat
  /\ \A f \in Uploads : {f.chars, f.stored, f.rendered, f.manual} \subseteq Nat
  /\ \A a \in Answers : CoerceList(a) \in Seq(Items)

\* White space: within a sentence, after one, between paragraphs.
Blank == 0
Stop == -2
Break == -1

\* A text as chunk_text has it: stripped, with runs of white space that are of
\* one kind each (_PARAGRAPH, _SENTENCE; normalize_text collapses them), and a
\* run within a sentence does not fill a section.
ASSUME TextAssumption ==
  \A t \in Texts :
    /\ t \in Seq(Int) /\ \A k \in DOMAIN t : t[k] \in {k, Blank, Stop, Break}
    /\ t # <<>> => t[1] > 0 /\ t[Len(t)] > 0
    /\ \A i, j \in DOMAIN t : i <= j /\ (\A k \in i .. j : t[k] <= 0) => t[i] = t[j]
    /\ \A i \in DOMAIN t : i + MaxChars - 1 \in DOMAIN t =>
         \E k \in i .. i + MaxChars - 1 : t[k] > 0

VARIABLES
  doing,    \* "nothing", "uploaded", "splitting", "packing", "cut", "asking",
            \* "collecting", "merged", "raised", "parsed"
  answer,   \* a text the model wrote and what was made of it, or Unknown
  upload,   \* a file and what was made of it, or Unknown
  text,     \* the body that is analysed
  at,       \* where the rest of it begins that was not split yet
  inside,   \* the end of the paragraph that is split into pieces, or 0
  cutTo,    \* the end of the sentence that is cut hard, or 0
  piece,    \* _split_long_block's current
  blocks,   \* what the text was split into and is not packed yet
  current,  \* the section that is being filled
  sections, \* what the text was cut into
  asked,    \* how many of them there are, and how many were asked about
  merged,   \* the obligations so far, items dropped and sections that failed
  unseen,    \* of the last answer, those that were not looked at
  heard     \* history variable: the items of all answers so far

splitVars == <<at, inside, cutTo, piece>>
cutVars == <<text, splitVars, blocks, current, sections>>
askVars == <<asked, merged, unseen, heard>>
readingVars == <<doing, answer, upload, cutVars, askVars>>

ReadingInit ==
  /\ doing = "nothing" /\ answer = Unknown /\ upload = Unknown
  /\ text = <<>> /\ at = 1 /\ inside = 0 /\ cutTo = 0 /\ piece = <<>>
  /\ blocks = <<>> /\ current = <<>> /\ sections = <<>>
  /\ asked = [of |-> 0, so |-> 0] /\ unseen = <<>> /\ heard = <<>>
  /\ merged = [drafts |-> <<>>, dropped |-> 0, failed |-> 0]

Lesser(a, b) == IF a < b THEN a ELSE b
Greater(a, b) == IF a > b THEN a ELSE b

-----------------------------------------------------------------------------
\* sniff_format: the content decides, never the name.
Format(f) ==
  CASE f.magic = "pdf" -> "pdf"
    [] f.magic = "zip" -> IF f.word THEN "docx" ELSE "refused"
    [] OTHER -> IF f.textual THEN "text" ELSE "refused"

\* What the format says of its pages: a PDF stores them; Word leaves where it
\* broke them when it last rendered, and where the author did.
PagesSaid(f) ==
  CASE Format(f) = "pdf" -> Lesser(f.stored, MaxPages)
    [] Format(f) = "docx" /\ f.rendered > 0 -> f.rendered + 1
    [] Format(f) = "docx" /\ f.rendered = 0 /\ f.manual > 0 -> f.manual + 1
    [] OTHER -> Unknown

EstimatePages(n) == Greater(1, (n + PageSize - 1) \div PageSize)

CountPages(n, said, authoritative) ==
  IF said # Unknown /\ (authoritative \/ said >= EstimatePages(n))
  THEN [pages |-> Greater(1, said), basis |-> "counted"]
  ELSE [pages |-> EstimatePages(n), basis |-> "estimated"]

\* f.chars is the length of the normalized text.
ExtractDocument(f) ==
  IF f.empty \/ Format(f) = "refused" THEN [error |-> "unsupported"]
  ELSE IF ~f.sound \/ f.chars = 0 THEN [error |-> "unreadable"]
  ELSE LET n == Lesser(f.chars, MaxText)
           said == CountPages(n, PagesSaid(f), Format(f) = "pdf")
       IN [error |-> "none", chars |-> n, truncated |-> n < f.chars,
           pages |-> said.pages, basis |-> said.basis]

ReadUpload(f) ==
  /\ doing = "nothing" /\ doing' = "uploaded"
  /\ upload' = [of |-> f, as |-> ExtractDocument(f)]
  /\ UNCHANGED <<answer, cutVars, askVars>>

-----------------------------------------------------------------------------
\* chunk_text.  The end of the part of the text that begins at i, and where the
\* next one begins: the paragraph that separators of one kind end, or the sentence.
EndOf(i, separators) ==
  CHOOSE e \in i .. Len(text) :
    /\ \A k \in i .. e : text[k] \notin separators
    /\ e < Len(text) => text[e + 1] \in separators
Paragraph(i) == EndOf(i, {Break})
Sentence(i) == EndOf(i, {Break, Stop})
After(e) ==
  CHOOSE i \in e + 1 .. Len(text) + 1 :
    /\ \A k \in e + 1 .. i - 1 : text[k] <= 0
    /\ i <= Len(text) => text[i] > 0
Part(e) == SubSeq(text, at, e)

Cut(t) ==
  /\ doing = "nothing" /\ text' = t
  /\ IF Len(t) <= MaxChars
     THEN doing' = "cut" /\ sections' = IF t = <<>> THEN <<>> ELSE <<t>>
     ELSE doing' = "splitting" /\ UNCHANGED sections
  /\ UNCHANGED <<answer, upload, splitVars, blocks, current, askVars>>

\* _split_to_blocks: a paragraph that fits is a block, another is split further.
TakeParagraph ==
  /\ doing = "splitting" /\ inside = 0 /\ at <= Len(text)
  /\ Len(Part(Paragraph(at))) <= MaxChars
  /\ blocks' = Append(blocks, Part(Paragraph(at)))
  /\ at' = After(Paragraph(at))
  /\ UNCHANGED <<doing, answer, upload, text, inside, cutTo, piece, current, sections, askVars>>

EnterParagraph ==
  /\ doing = "splitting" /\ inside = 0 /\ at <= Len(text)
  /\ Len(Part(Paragraph(at))) > MaxChars
  /\ inside' = Paragraph(at)
  /\ UNCHANGED <<doing, answer, upload, text, at, cutTo, piece, blocks, current, sections, askVars>>

\* _split_long_block: sentences are put together while they fit, and one that
\* does not fit by itself is cut hard.
Flushed == IF piece = <<>> THEN blocks ELSE Append(blocks, piece)

JoinSentence ==
  /\ doing = "splitting" /\ cutTo = 0 /\ at <= inside
  /\ LET sentence == Part(Sentence(at)) IN
     /\ Len(sentence) <= MaxChars
     /\ IF piece # <<>> /\ Len(piece) + 1 + Len(sentence) <= MaxChars
        THEN piece' = piece \o <<Blank>> \o sentence /\ UNCHANGED blocks
        ELSE piece' = sentence /\ blocks' = Flushed
  /\ at' = After(Sentence(at))
  /\ UNCHANGED <<doing, answer, upload, text, inside, cutTo, current, sections, askVars>>

BeginHardCut ==
  /\ doing = "splitting" /\ cutTo = 0 /\ at <= inside
  /\ Len(Part(Sentence(at))) > MaxChars
  /\ cutTo' = Sentence(at) /\ piece' = <<>> /\ blocks' = Flushed
  /\ UNCHANGED <<doing, answer, upload, text, at, inside, current, sections, askVars>>

HardCut ==
  /\ doing = "splitting" /\ cutTo # 0
  /\ LET end == Lesser(at + MaxChars - 1, cutTo) IN
     /\ blocks' = Append(blocks, Part(end))
     /\ at' = IF end = cutTo THEN After(end) ELSE end + 1
     /\ cutTo' = IF end = cutTo THEN 0 ELSE cutTo
  /\ UNCHANGED <<doing, answer, upload, text, inside, piece, current, sections, askVars>>

LeaveParagraph ==
  /\ doing = "splitting" /\ cutTo = 0 /\ inside # 0 /\ at > inside
  /\ inside' = 0 /\ piece' = <<>> /\ blocks' = Flushed
  /\ UNCHANGED <<doing, answer, upload, text, at, cutTo, current, sections, askVars>>

BeginPacking ==
  /\ doing = "splitting" /\ inside = 0 /\ at > Len(text)
  /\ doing' = "packing" /\ at' = 1
  /\ UNCHANGED <<answer, upload, text, inside, cutTo, piece, blocks, current, sections, askVars>>

\* _tail: what is carried over begins after a blank, if there is one.
Carried(s) ==
  LET n == IF Overlap >= MaxChars THEN MaxChars \div 4 ELSE Overlap
      from == Len(s) - n + 1
      blanks == {i \in from .. Len(s) : s[i] \in {Blank, Stop}}
  IN IF n = 0 \/ Len(s) <= n THEN s
     ELSE IF blanks = {} THEN SubSeq(s, from, Len(s))
     ELSE SubSeq(s, 1 + CHOOSE i \in blanks : \A j \in blanks : i <= j, Len(s))
Line == <<Break, Break>>
Strip(s) == LET ink == {i \in DOMAIN s : s[i] > 0}
            IN SubSeq(s, CHOOSE i \in ink : \A j \in ink : i <= j,
                      CHOOSE i \in ink : \A j \in ink : i >= j)

CarryAnyway(s, block) == Strip(Carried(s) \o Line \o block) \* mutant: as if there was room

\* The next section after s begins with s's tail, when there is room for it.
Follow(s, block) ==
  IF Carried(s) # <<>> /\ Len(Carried(s)) + 2 + Len(block) <= MaxChars
  THEN Strip(Carried(s) \o Line \o block)
  ELSE block

\* Blocks are put together while they fit.
Pack ==
  /\ doing = "packing" /\ blocks # <<>>
  /\ current = <<>> \/ Len(current) + 2 + Len(Head(blocks)) <= MaxChars
  /\ current' = IF current = <<>> THEN Head(blocks) ELSE current \o Line \o Head(blocks)
  /\ blocks' = Tail(blocks)
  /\ UNCHANGED <<doing, answer, upload, text, splitVars, sections, askVars>>

\* The section is full: the next one begins, unless it was the last allowed.
NextSection ==
  /\ doing = "packing" /\ blocks # <<>>
  /\ current # <<>> /\ Len(current) + 2 + Len(Head(blocks)) > MaxChars
  /\ sections' = Append(sections, current)
  /\ IF Len(sections) + 1 >= MaxSections
     THEN doing' = "cut" /\ current' = <<>> /\ blocks' = <<>>
     ELSE current' = Follow(current, Head(blocks)) /\ blocks' = Tail(blocks) /\ UNCHANGED doing
  /\ UNCHANGED <<answer, upload, text, splitVars, askVars>>

LastSection ==
  /\ doing = "packing" /\ blocks = <<>>
  /\ sections' = IF current = <<>> THEN sections ELSE Append(sections, current)
  /\ doing' = "cut" /\ current' = <<>>
  /\ UNCHANGED <<answer, upload, text, splitVars, blocks, askVars>>

CutStep ==
  \/ TakeParagraph \/ EnterParagraph \/ JoinSentence \/ BeginHardCut \/ HardCut
  \/ LeaveParagraph \/ BeginPacking \/ Pack \/ NextSection \/ LastSection

-----------------------------------------------------------------------------
\* extract_detailed asks about one section after the other.  What follows does
\* not depend on their text.
BeginAsking ==
  /\ doing = "cut"
  /\ doing' = IF sections = <<>> THEN "merged" ELSE "asking"
  /\ asked' = [of |-> Len(sections), so |-> 0]
  /\ text' = <<>> /\ sections' = <<>>
  /\ UNCHANGED <<answer, upload, splitVars, blocks, current, merged, unseen, heard>>

\* _to_draft and _dedupe_key: an item is dropped that is no object, says too
\* little, or repeats an instruction; a date outside 1990-2100 is no date.
Acceptable(item) == item.says \notin {"junk", "little", "instruction"}
ToDraft(item) == [says |-> item.says, due |-> IF item.due = "odd" THEN NoDate ELSE item.due]

Merge(m, item) ==
  IF ~Acceptable(item) THEN [m EXCEPT !.dropped = @ + 1]
  ELSE IF \E i \in DOMAIN m.drafts : m.drafts[i] = ToDraft(item) THEN m
  ELSE [m EXCEPT !.drafts = Append(@, ToDraft(item))]

\* After a section: the loop ends with the last one, or with the cap.
Continue(m) ==
  /\ merged' = m
  /\ asked' = [asked EXCEPT !.so = @ + 1]
  /\ doing' = CASE asked.so + 1 < asked.of /\ Len(m.drafts) < MaxDrafts -> "asking"
                [] m.failed = asked.of -> "raised"
                [] OTHER -> "merged"
  /\ UNCHANGED <<answer, upload, cutVars, unseen, heard>>

SectionAnswered(payload) ==
  /\ doing = "asking" /\ doing' = "collecting"
  /\ unseen' = CoerceList(payload) /\ heard' = heard \o CoerceList(payload)
  /\ UNCHANGED <<answer, upload, cutVars, asked, merged>>

TakeItem ==
  /\ doing = "collecting" /\ unseen # <<>> /\ Len(merged.drafts) < MaxDrafts
  /\ merged' = Merge(merged, Head(unseen)) /\ unseen' = Tail(unseen)
  /\ UNCHANGED <<doing, answer, upload, cutVars, asked, heard>>

\* There are no more, or as many obligations as are kept.
EndAnswer ==
  /\ doing = "collecting" /\ (unseen = <<>> \/ Len(merged.drafts) = MaxDrafts)
  /\ Continue(merged)

\* The call raises, or its answer cannot be repaired.
FailSection ==
  /\ doing = "asking"
  /\ Continue([merged EXCEPT !.failed = @ + 1])

-----------------------------------------------------------------------------
\* The answer in tokens, with something around it or not, and where it stops:
\* after a token, within a string or a literal, or within an escape of a string.
Joined(parts, glue) ==
  FoldLeft(LAMBDA s, p : IF s = <<>> THEN p ELSE s \o glue \o p, <<>>, parts)
Commas(parts) == Joined(parts, <<",">>)
Written(m) ==
  LET Item(i) == <<"{">> \o Commas([f \in DOMAIN i |-> <<i[f][1], ":", i[f][2]>>]) \o <<"}">>
      list == <<"[">> \o Commas([k \in DOMAIN m.items |-> Item(m.items[k])]) \o <<"]">>
  IN IF m.bare THEN list ELSE <<"{", "obligations", ":">> \o list \o <<"}">>
Wrapped(t, in) == IF in = "none" THEN t ELSE <<in>> \o t \o <<in>>
Stopped(t, where) ==
  [i \in DOMAIN t |-> CASE i < Len(t) \/ where = "after" -> t[i]
                        [] where = "escape" -> Escape
                        [] OTHER -> IF IsString(t[i]) THEN Opened ELSE Half]

ParseAnswer(m, in, n, where) ==
  LET t == Wrapped(Written(m), in) IN
  /\ doing = "nothing" /\ doing' = "parsed"
  /\ n <= Len(t)
  /\ where = "within" => n > 0 /\ (IsString(t[n]) \/ t[n] = "null")
  /\ where = "escape" => n > 0 /\ IsString(t[n])
  /\ LET raw == Stopped(SubSeq(t, 1, n), where)
     IN answer' = [meant |-> m, raw |-> raw, as |-> ParseJsonObject(raw)]
  /\ UNCHANGED <<upload, cutVars, askVars>>

ReadingNext ==
  \/ \E f \in Uploads : ReadUpload(f)
  \/ \E t \in Texts : Cut(t)
  \/ CutStep
  \/ BeginAsking \/ TakeItem \/ EndAnswer \/ FailSection
  \/ \E a \in Answers : SectionAnswered(a)
  \/ \E m \in Meanings, in \in {"none", "prose", "fence"}, n \in 0 .. Longest,
        where \in {"after", "within", "escape"} :
       ParseAnswer(m, in, n, where)

ReadingSpec == ReadingInit /\ [][ReadingNext]_readingVars

-----------------------------------------------------------------------------
ReadingTypeOK ==
  /\ doing \in {"nothing", "uploaded", "splitting", "packing", "cut", "asking",
                "collecting", "merged", "raised", "parsed"}
  /\ doing \notin {"splitting", "packing", "cut"} => text = <<>> /\ sections = <<>>
  /\ at \in 1 .. Len(text) + 1 /\ {inside, cutTo} \subseteq 0 .. Len(text)
  /\ Len(piece) <= MaxChars /\ Len(current) <= MaxChars
  /\ asked.of \in 0 .. MaxSections /\ asked.so \in 0 .. asked.of
  /\ Len(merged.drafts) \in 0 .. MaxDrafts
  /\ merged.dropped \in 0 .. Len(heard) /\ merged.failed \in 0 .. asked.so
  /\ Len(unseen) \in 0 .. Len(heard)

\* An invoice line can be explained (documents.py:30-58): what was counted is
\* what the format says, and then a length of text that needs more pages is
\* overruled only by a PDF; what was estimated is the fewest pages that hold
\* the text, and then the format says less or nothing.
PagesAreExplained ==
  doing = "uploaded" /\ upload.as.error = "none" =>
    LET as == upload.as
        said == PagesSaid(upload.of)
    IN /\ as.pages >= 1 /\ as.chars \in 1 .. MaxText
       /\ IF as.basis = "counted"
          THEN /\ as.pages = Greater(1, said)
               /\ as.pages * PageSize >= as.chars \/ upload.of.magic = "pdf"
          ELSE /\ as.pages * PageSize >= as.chars
               /\ (as.pages - 1) * PageSize < as.chars
               /\ said # Unknown => said < as.pages

Letters(s) == {c \in {s[i] : i \in DOMAIN s} : c > 0}
First(s) == CHOOSE k \in Letters(s) : \A l \in Letters(s) : k <= l
Final(s) == CHOOSE k \in Letters(s) : \A l \in Letters(s) : k >= l

\* What is between two letters of the text, in their order.
IsStretch(s) ==
  /\ Letters(s) # {}
  /\ \A i, j \in DOMAIN s : i < j /\ s[i] > 0 /\ s[j] > 0 => s[i] < s[j]
  /\ Letters(s) = {k \in First(s) .. Final(s) : text[k] > 0}

\* Nothing is left out between r and s, and s goes on further.
GoesOn(r, s) ==
  /\ Final(r) < Final(s)
  /\ \A k \in Final(r) + 1 .. First(s) - 1 : text[k] <= 0

IsSentence(f, t) ==
  /\ f <= t /\ text[f] > 0 /\ text[t] > 0
  /\ \A k \in f .. t : text[k] \notin {Break, Stop}
  /\ f > 1 => text[f - 1] \in {Break, Stop}
  /\ t < Len(text) => text[t + 1] \in {Break, Stop}

\* "no larger than max_chars" and "silently truncating it would drop obligations"
\* (chunking.py:3-17, 35): sections fit; each is a stretch of the text without a
\* gap; together they have all of it, unless there are too many of them; and a
\* sentence that fits is whole in one of them.
SectionsCoverTheText ==
  doing = "cut" /\ text # <<>> =>
    LET last == Len(sections) IN
    /\ last \in 1 .. MaxSections /\ First(sections[1]) = 1
    /\ last < MaxSections => Final(sections[last]) = Len(text)
    /\ \A k \in 1 .. last :
         /\ Len(sections[k]) <= MaxChars /\ IsStretch(sections[k])
         /\ k > 1 => GoesOn(sections[k - 1], sections[k])
    /\ \A f, t \in DOMAIN text :
         IsSentence(f, t) /\ t - f < MaxChars /\ t <= Final(sections[last]) =>
           \E k \in 1 .. last : First(sections[k]) <= f /\ t <= Final(sections[k])

\* What is proposed is every acceptable obligation that was answered, once, in
\* the order of its first mention, up to the cap; and an analysis raises exactly
\* when every section failed, so that "no obligations" is never said of a text
\* nobody could read (extraction.py:176-242).
MergeIsExact ==
  LET drafts == merged.drafts
      looked == 1 .. Len(heard) - Len(unseen)
      good == {j \in looked : Acceptable(heard[j])}
      Says(j, d) == j \in good /\ ToDraft(heard[j]) = d
  IN /\ \A j \in good : \E i \in DOMAIN drafts : Says(j, drafts[i])
     /\ \A i \in DOMAIN drafts : \E j \in good :
          /\ Says(j, drafts[i])
          /\ \A k \in i + 1 .. Len(drafts) : \A l \in 1 .. j : ~Says(l, drafts[k])
     /\ merged.dropped = Cardinality(looked \ good)
     /\ unseen # <<>> /\ doing # "collecting" => Len(drafts) = MaxDrafts
     /\ doing = "raised" <=> asked.of > 0 /\ merged.failed = asked.of
     /\ doing = "merged" => asked.so = asked.of \/ Len(drafts) = MaxDrafts

Complete(a) ==
  Lesser(Len(a.meant.items), Cardinality({i \in DOMAIN a.raw : a.raw[i] = "}"}))

\* A list without a name, with one whole item, and with something around it or
\* cut off: its outermost braces are an object.
Alone(a) ==
  a.meant.bare /\ Complete(a) = 1 /\ Loads(a.raw) = NoValue /\ Loads(Fenced(a.raw)) = NoValue

\* "Recovers what it can and raises a single typed error when it genuinely
\* cannot" (json_parsing.py:7): of an answer that stops anywhere, what is taken is
\* every whole item, in order, and at most one that was cut, with what it had;
\* it is refused, with every whole item in it, when nothing had begun, or when it
\* stops in a name, in a literal, or in an escape, whose string the quote that is
\* added does not close.  Of a lone item in a list without a name nothing is taken.
AnswersAreRecovered ==
  doing = "parsed" =>
    LET items == answer.meant.items
        got == Taken(answer.as.payload)
        whole == Complete(answer)
        Said(i) == [f \in DOMAIN items[i] |->
                      [name |-> items[i][f][1], value |-> Value("scalar", items[i][f][2], <<>>)]]
        StopsInName == Ends(answer.raw, 2, LAMBDA e : e[1] \in {"{", ","} /\ e[2] \in Strings \cup {Opened})
        begun == Places(answer.raw, {"{", "["}) # {}
    IN IF Alone(answer) THEN ~answer.as.malformed /\ got = <<>>
       ELSE /\ answer.as.malformed <=>
                 ~begun \/ StopsInName \/ Ends(answer.raw, 1, LAMBDA e : e[1] \in {Half, Escape})
            /\ ~answer.as.malformed =>
                 /\ Len(got) \in {whole, whole + 1} /\ Len(got) <= Len(items)
                 /\ \A i \in 1 .. whole : got[i].of = Said(i)
                 /\ Len(got) > whole => \A f \in DOMAIN got[whole + 1].of :
                      LET cut == got[whole + 1].of[f]
                      IN \/ cut = Said(whole + 1)[f]
                         \/ cut.name = Said(whole + 1)[f].name /\ cut.value.is = Closed

ReadingInv ==
  ReadingTypeOK /\ PagesAreExplained /\ SectionsCoverTheText /\ MergeIsExact
=============================================================================
