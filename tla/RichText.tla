------------------------------- MODULE RichText -------------------------------
(***************************************************************************)
(* rich_text.rs: the two notations a host may write in, the spans both are *)
(* parsed into, and what each channel makes of the spans.                  *)
(*                                                                         *)
(* A text is a sequence of characters; a complete tag of the markup, and   *)
(* an entity of HTML, count as one character each.  Half a tag is ordinary *)
(* text to the code, so that is what any other character stands for.       *)
(***************************************************************************)
EXTENDS Naturals, Sequences, FiniteSetsExt, SequencesExt

\* The back quote, which this notation cannot spell, and white space.
Tick == "tick"
Whitespace == {" ", "\n"}

TagKinds == {"Bold", "Italic", "Code"}

Span(kind, body) == [kind |-> kind, body |-> body]

\* The literal text gathered so far, if there is any.
Flush(buf) == IF buf = << >> THEN << >> ELSE <<Span("Text", buf)>>

Drop(text, n) == SubSeq(text, n + 1, Len(text))

NoMatch == [span |-> Span("Text", << >>), consumed |-> 0]

TAG_TABLE ==
  [Bold   |-> [open |-> "<b>",    close |-> "</b>"],
   Italic |-> [open |-> "<i>",    close |-> "</i>"],
   Code   |-> [open |-> "<code>", close |-> "</code>"]]

(***************************************************************************)
(* The HTML subset.                                                        *)
(***************************************************************************)
\* Mutant: the first closing tag of any kind ends the run.
TryMatchTagAnyClose(rest) ==
  LET closing == {TAG_TABLE[k].close : k \in TagKinds}
      ends    == {j \in 2..Len(rest) : rest[j] \in closing}
      kinds   == {k \in TagKinds : Head(rest) = TAG_TABLE[k].open /\ ends # {}}
      end     == Min(ends)
  IN IF kinds = {} THEN NoMatch
     ELSE [span |-> Span(CHOOSE k \in kinds : TRUE, SubSeq(rest, 2, end - 1)),
           consumed |-> end]

\* A tag at the head of rest runs to its first closing form, whatever is between.
TryMatchTag(rest) ==
  LET ends(k) == {j \in 2..Len(rest) : rest[j] = TAG_TABLE[k].close}
      kinds   == {k \in TagKinds : Head(rest) = TAG_TABLE[k].open /\ ends(k) # {}}
      kind    == CHOOSE k \in kinds : TRUE
      end     == Min(ends(kind))
  IN IF kinds = {} THEN NoMatch
     ELSE [span |-> Span(kind, SubSeq(rest, 2, end - 1)), consumed |-> end]

\* What a parser has at the start of its loop: the spans it has found, the literal text
\* since the last of them, and what it has not read.
Cursor(spans, buf, rest) == [spans |-> spans, buf |-> buf, rest |-> rest]

\* One round of the loop of parse: a tag, or one character of text.
ParseRound(at) ==
  LET tag == TryMatchTag(at.rest) IN
  IF at.rest = << >> THEN at
  ELSE IF tag # NoMatch
  THEN Cursor(at.spans \o Flush(at.buf) \o <<tag.span>>, << >>, Drop(at.rest, tag.consumed))
  ELSE Cursor(at.spans, Append(at.buf, Head(at.rest)), Tail(at.rest))

\* A round reads a character at least, so there are no more rounds than characters.
Parse(input) ==
  LET at[k \in 0..Len(input)] ==
        IF k = 0 THEN Cursor(<< >>, << >>, input) ELSE ParseRound(at[k - 1])
      end == at[Len(input)]
  IN end.spans \o Flush(end.buf)

(***************************************************************************)
(* The markdown subset.                                                    *)
(***************************************************************************)
MARKDOWN_ESCAPABLE == {"\\", "*", "_", Tick}

MARKDOWN_TABLE ==
  << [delim |-> <<"*", "*">>, kind |-> "Bold"],
     [delim |-> <<"*">>,      kind |-> "Italic"],
     [delim |-> <<Tick>>,      kind |-> "Code"] >>

StartsEscape(rest) ==
  Len(rest) >= 2 /\ rest[1] = "\\" /\ rest[2] \in MARKDOWN_ESCAPABLE

\* Mutant: an escaped delimiter closes the run.
ClosesEscaped(hay, delim, flanking, idx) ==
  LET after == Drop(hay, idx + Len(delim)) IN
  /\ idx > 0
  /\ flanking => /\ hay[idx] \notin Whitespace \cup {"*"}
                 /\ after = << >> \/ Head(after) # "*"

\* Is the delimiter after the first idx characters of hay one that closes a run?
Closes(hay, delim, flanking, idx) ==
  LET after == Drop(hay, idx + Len(delim)) IN
  /\ idx > 0
  /\ hay[idx] # "\\"
  /\ flanking => /\ hay[idx] \notin Whitespace \cup {"*"}
                 /\ after = << >> \/ Head(after) # "*"

\* Where the delimiter stands in hay, by the number of characters before it.
Places(hay, delim, from) ==
  {i \in from..(Len(hay) - Len(delim)) : SubSeq(hay, i + 1, i + Len(delim)) = delim}

\* The length of the body of a run that starts at the head of hay; zero if it has no
\* closer.  A delimiter that does not close is skipped whole.
FindCloser(hay, delim, flanking) ==
  LET closer[from \in 0..Len(hay)] ==
        LET found == Places(hay, delim, from)
            idx   == Min(found)
        IN IF found = {} THEN 0
           ELSE IF Closes(hay, delim, flanking, idx) THEN idx
           ELSE closer[idx + Len(delim)]
  IN closer[0]

\* One round of the loop of unescape_markdown: an escape, or one character.
UnescapeRound(at) ==
  IF at.rest = << >> THEN at
  ELSE IF StartsEscape(at.rest)
  THEN [out |-> Append(at.out, at.rest[2]), rest |-> Drop(at.rest, 2)]
  ELSE [out |-> Append(at.out, Head(at.rest)), rest |-> Tail(at.rest)]

UnescapeMarkdown(text) ==
  LET at[k \in 0..Len(text)] ==
        IF k = 0 THEN [out |-> << >>, rest |-> text] ELSE UnescapeRound(at[k - 1])
  IN at[Len(text)].out

MatchEntry(rest, entry) ==
  LET size      == Len(entry.delim)
      afterOpen == Drop(rest, size)
      flanking  == entry.kind # "Code"
      end       == FindCloser(afterOpen, entry.delim, flanking)
      body      == SubSeq(afterOpen, 1, end)
  IN IF \/ ~IsPrefix(entry.delim, rest)
        \/ flanking /\ afterOpen # << >> /\ Head(afterOpen) \in Whitespace \cup {"*"}
        \/ end = 0
     THEN NoMatch
     ELSE [span |-> Span(entry.kind, IF flanking THEN UnescapeMarkdown(body) ELSE body),
           consumed |-> size + end + size]

\* The first delimiter of the table, longest first, that opens a run here.
TryMatchMarkdown(rest) ==
  LET runs == {k \in DOMAIN MARKDOWN_TABLE : MatchEntry(rest, MARKDOWN_TABLE[k]) # NoMatch}
  IN IF runs = {} THEN NoMatch ELSE MatchEntry(rest, MARKDOWN_TABLE[Min(runs)])

\* One round of the loop of parse_markdown: an escape, a run, or one character of text.
ParseMarkdownRound(at) ==
  LET run == TryMatchMarkdown(at.rest) IN
  IF at.rest = << >> THEN at
  ELSE IF StartsEscape(at.rest)
  THEN Cursor(at.spans, Append(at.buf, at.rest[2]), Drop(at.rest, 2))
  ELSE IF run # NoMatch
  THEN Cursor(at.spans \o Flush(at.buf) \o <<run.span>>, << >>, Drop(at.rest, run.consumed))
  ELSE Cursor(at.spans, Append(at.buf, Head(at.rest)), Tail(at.rest))

ParseMarkdown(input) ==
  LET at[k \in 0..Len(input)] ==
        IF k = 0 THEN Cursor(<< >>, << >>, input) ELSE ParseMarkdownRound(at[k - 1])
      end == at[Len(input)]
  IN end.spans \o Flush(end.buf)

(***************************************************************************)
(* What each channel is given.                                             *)
(***************************************************************************)
Entity ==
  [c \in {"<", ">", "&", "<b>", "</b>", "<i>", "</i>", "<code>", "</code>"} |->
     CASE c = "<"      -> "&lt;"
       [] c = ">"      -> "&gt;"
       [] c = "&"      -> "&amp;"
       [] c = "<b>"    -> "&lt;b&gt;"
       [] c = "</b>"   -> "&lt;/b&gt;"
       [] c = "<i>"    -> "&lt;i&gt;"
       [] c = "</i>"   -> "&lt;/i&gt;"
       [] c = "<code>" -> "&lt;code&gt;"
       [] OTHER        -> "&lt;/code&gt;"]

\* html_escape's encode_text and escape_slack: the three reserved characters become
\* entities, those of a tag included.
EncodeText(text) ==
  [i \in DOMAIN text |-> IF text[i] \in DOMAIN Entity THEN Entity[text[i]] ELSE text[i]]

EscapeSlack(text) == EncodeText(text)

EscapeMarkdown(text) ==
  FlattenSeq([i \in DOMAIN text |->
                IF text[i] \in MARKDOWN_ESCAPABLE THEN <<"\\", text[i]>> ELSE <<text[i]>>])

Tagged(span, body) ==
  IF span.kind = "Text" THEN body
  ELSE <<TAG_TABLE[span.kind].open>> \o body \o <<TAG_TABLE[span.kind].close>>

Marked(span, marks, body) ==
  IF span.kind = "Text" THEN body ELSE marks[span.kind] \o body \o marks[span.kind]

ChatMarks == [Bold |-> <<"*">>, Italic |-> <<"_">>, Code |-> <<Tick>>]

DiscordMarks == [Bold |-> <<"*", "*">>, Italic |-> <<"*">>, Code |-> <<Tick>>]

RenderTelegramHtml(spans) ==
  FlattenSeq([i \in DOMAIN spans |-> Tagged(spans[i], EncodeText(spans[i].body))])

RenderSlackMrkdwn(spans) ==
  FlattenSeq([i \in DOMAIN spans |-> Marked(spans[i], ChatMarks, EscapeSlack(spans[i].body))])

RenderWhatsAppText(spans) ==
  FlattenSeq([i \in DOMAIN spans |-> Marked(spans[i], ChatMarks, spans[i].body)])

\* A code body is verbatim: Discord reads no escapes inside it.
RenderDiscordMarkdown(spans) ==
  FlattenSeq([i \in DOMAIN spans |->
    Marked(spans[i], DiscordMarks,
           IF spans[i].kind = "Code" THEN spans[i].body ELSE EscapeMarkdown(spans[i].body))])

RenderPlain(spans) == FlattenSeq([i \in DOMAIN spans |-> spans[i].body])

RenderRichText(spans) ==
  FlattenSeq([i \in DOMAIN spans |-> Tagged(spans[i], spans[i].body)])
===============================================================================
