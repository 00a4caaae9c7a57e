------------------------------ MODULE Rendering ------------------------------
(***************************************************************************)
(* A host writes a message, one character or one button at a time: a text  *)
(* in the HTML subset, a text in the markdown subset, or a card.  What the *)
(* parsers and renderers make of it must survive every such text.          *)
(***************************************************************************)
EXTENDS Renderers

CONSTANTS HtmlChars, MaxHtml,         \* the characters and the length of a marked-up text
          MarkdownChars, MaxMarkdown, \* the same of a markdown text
          Titles, Bodies, Actions, MaxActions

\* An entity counts as one character only where a renderer writes it: what a host writes
\* as one is an ampersand and letters.
ASSUME HostWritesNoEntity == HtmlChars \cap Range(Entity) = {}

ASSUME CardsAssumption ==
  /\ Titles \cup Bodies \subseteq Seq(STRING)
  /\ Actions \subseteq [type : STRING, label : Seq(STRING), value : Seq(STRING)]

VARIABLES dialect, text, title, actions

vars == <<dialect, text, title, actions>>

Init ==
  /\ actions = << >>
  /\ \/ dialect \in {"html", "markdown"} /\ text = << >> /\ title = << >>
     \/ dialect = "card" /\ text \in Bodies /\ title \in Titles

Type(c) ==
  /\ \/ dialect = "html" /\ c \in HtmlChars /\ Len(text) < MaxHtml
     \/ dialect = "markdown" /\ c \in MarkdownChars /\ Len(text) < MaxMarkdown
  /\ text' = Append(text, c)
  /\ UNCHANGED <<dialect, title, actions>>

AddAction(action) ==
  /\ dialect = "card" /\ Len(actions) < MaxActions
  /\ actions' = Append(actions, action)
  /\ UNCHANGED <<dialect, text, title>>

Next ==
  \/ \E c \in HtmlChars \cup MarkdownChars : Type(c)
  \/ \E action \in Actions : AddAction(action)

Spec == Init /\ [][Next]_vars

------------------------------------------------------------------------------
(***************************************************************************)
(* The readers' side, written apart from the renderers.                    *)
(***************************************************************************)
\* What the spans say: every character with its style.
Meaning(spans) ==
  FlattenSeq([i \in DOMAIN spans |->
    [j \in DOMAIN spans[i].body |-> <<spans[i].kind, spans[i].body[j]>>]])

Tags == {"<b>", "</b>", "<i>", "</i>", "<code>", "</code>"}
Opens(c) == CHOOSE k \in TagKinds : c \in {TAG_TABLE[k].open, TAG_TABLE[k].close}
Decode(c) == IF \E r \in DOMAIN Entity : Entity[r] = c
             THEN CHOOSE r \in DOMAIN Entity : Entity[r] = c ELSE c

\* A reader of Telegram's HTML, which takes no nested tag, no tag left open, and no
\* reserved character outside a tag.
TelegramReadsOne(seen, c) ==
  IF c \in Tags
  THEN IF c = TAG_TABLE[Opens(c)].open
       THEN [seen EXCEPT !.style = Opens(c), !.ok = @ /\ seen.style = "Text"]
       ELSE [seen EXCEPT !.style = "Text", !.ok = @ /\ seen.style = Opens(c)]
  ELSE [seen EXCEPT !.words = Append(@, <<seen.style, Decode(c)>>),
                    !.ok = @ /\ c \notin {"<", ">", "&"}]

TelegramReads(html) ==
  LET seen[k \in 0..Len(html)] ==
        IF k = 0 THEN [style |-> "Text", words |-> << >>, ok |-> TRUE]
        ELSE TelegramReadsOne(seen[k - 1], html[k])
  IN seen[Len(html)]

Touches(body, chars) == body # << >> /\ (Head(body) \in chars \/ Last(body) \in chars)

\* A tree the dialect can spell: no two neighbours that would run together, and no
\* emphasis whose ends hide its delimiters.
WellFormed(spans) ==
  /\ \A i \in DOMAIN spans :
       LET body == spans[i].body IN
       /\ body # << >>
       /\ spans[i].kind \in {"Bold", "Italic"} =>
            ~Touches(body, Whitespace) /\ Last(body) \notin {"\\", "*"}
       /\ spans[i].kind = "Code" => Tick \notin Range(body) /\ Last(body) # "\\"
  /\ \A i \in 1..(Len(spans) - 1) :
       /\ spans[i].kind = "Text" => spans[i + 1].kind # "Text"
       /\ spans[i].kind \in {"Bold", "Italic"} => spans[i + 1].kind \notin {"Bold", "Italic"}

InBold(name) == DiscordMarks.Bold \o EscapeMarkdown(name) \o DiscordMarks.Bold

\* Meta takes an interactive message only within its caps, with a body, and with titles
\* that are there and distinct.
MetaAccepts(p) ==
  LET maxTitle == IF p.shape = "list" THEN MAX_ROW_TITLE ELSE MAX_BUTTON_TITLE
      maxId    == IF p.shape = "list" THEN MAX_ROW_ID ELSE MAX_BUTTON_ID
      most     == IF p.shape = "list" THEN MAX_LIST_ROWS ELSE MAX_REPLY_BUTTONS
  IN /\ Trim(p.text) # << >>
     /\ p.shape # "text" =>
          /\ Len(p.buttons) \in 1..most
          /\ \A i \in DOMAIN p.buttons :
               /\ Len(p.buttons[i].label) <= maxTitle /\ Trim(p.buttons[i].label) # << >>
               /\ Len(p.buttons[i].value) <= maxId
          /\ Cardinality({p.buttons[i].label : i \in DOMAIN p.buttons}) = Len(p.buttons)
          /\ Len(p.header) <= MAX_HEADER_TEXT
          /\ p.shape = "list" => Len(p.opener) \in 1..MAX_LIST_OPEN_LABEL

Shows(words, part) == \E i \in 0..(Len(words) - Len(part)) : IsPrefix(part, Drop(words, i))

\* The i-th control stands for the i-th action, or the text spells the action out.
StandsFor(p, action, i) ==
  IF p.buttons = << >>
  THEN Shows(p.text, action.label) /\ Shows(p.text, action.value)
  ELSE p.buttons[i].value = action.value /\ p.buttons[i].link = (action.type = "url")

------------------------------------------------------------------------------
\* Whatever a host writes in the HTML subset, malformed tags included, no channel loses or
\* invents a word (rich_text.rs:49-84 with the five renderers): the spans spell the text
\* again; Telegram gets HTML it can read, in which every character has the style of its
\* span; Slack gets no bare reserved character; Messenger gets the words Telegram shows;
\* WhatsApp gets what Slack's reader decodes; and a well-formed tree is read back from
\* Discord's markdown.  The same characters sent as plain text are, to Telegram, words only.
MarkupSurvives ==
  dialect = "html" =>
    LET spans    == Parse(text)
        out(ch)  == Render(ch, RichTextOf(text)).text
        telegram == TelegramReads(out("telegram"))
    IN /\ RenderRichText(spans) = text
       /\ telegram.ok /\ telegram.style = "Text" /\ telegram.words = Meaning(spans)
       /\ Range(out("slack")) \cap DOMAIN Entity = {}
       /\ out("messenger") = [i \in DOMAIN telegram.words |-> telegram.words[i][2]]
       /\ [i \in DOMAIN out("slack") |-> Decode(out("slack")[i])] = out("whatsapp")
       /\ WellFormed(spans) => ParseMarkdown(out("discord")) = spans
       /\ TelegramReads(Render("telegram", Text(text)).text).words
            = Meaning(Flush(text))

\* Whatever is written in markdown, stray delimiters and escapes included
\* (rich_text.rs:291-421): the spans survive the way through the HTML subset to a channel
\* and the way back from Discord, if no tag of that subset stands in the text, for it has
\* no escape for one; escaped text is only text; and a name put between the marks of bold
\* is that name in bold, unless white space touches its ends or it ends in a backslash or
\* an asterisk.
MarkdownSurvives ==
  dialect = "markdown" =>
    LET spans == ParseMarkdown(text) IN
    /\ Range(text) \cap Tags = {} =>
         /\ Parse(RenderRichText(spans)) = spans
         /\ ParseMarkdown(Render("discord", RichTextOf(RenderRichText(spans))).text) = spans
    /\ ParseMarkdown(EscapeMarkdown(text)) = Flush(text)
    /\ /\ text # << >> /\ ~Touches(text, Whitespace)
       /\ Last(text) \notin {"\\", "*"}
       => ParseMarkdown(InBold(text)) = <<Span("Bold", text)>>

\* A card sent to WhatsApp reaches its reader with every action usable
\* (whatsapp/renderer.rs:100-263): Meta accepts what it is sent, if the card has any words,
\* and each control, in order, stands for its action's whole value, also where labels are
\* cut, numbered or spelled out.  The caps of the other platforms are not in the code.
WhatsAppCardsAreUsable ==
  dialect = "card" =>
    LET sent == Render("whatsapp", Card(title, text, actions)) IN
    /\ Trim(title) # << >> \/ Trim(RenderPlain(Parse(text))) # << >> => MetaAccepts(sent)
    /\ \A i \in DOMAIN actions : StandsFor(sent, actions[i], i)
==============================================================================
