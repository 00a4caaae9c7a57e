------------------------------ MODULE Renderers ------------------------------
(***************************************************************************)
(* channels/*/renderer.rs: what each channel makes of the content of a     *)
(* message.  A payload keeps what a reader sees and can press: its shape,  *)
(* its words, and its buttons.  The caps are those whatsapp/renderer.rs    *)
(* quotes from Meta; labels, values and titles are sequences of characters *)
(* and their lengths what the caps are about.                              *)
(***************************************************************************)
EXTENDS RichText

CONSTANTS MAX_REPLY_BUTTONS, MAX_LIST_ROWS, MAX_BUTTON_TITLE, MAX_ROW_TITLE,
          MAX_BUTTON_ID, MAX_ROW_ID, MAX_LIST_OPEN_LABEL, MAX_HEADER_TEXT

\* Where a title must make room for an ordinal, that ordinal is one of two digits.
ASSUME CapsAssumption ==
  /\ {MAX_BUTTON_ID, MAX_ROW_ID, MAX_HEADER_TEXT} \subseteq Nat
  /\ {MAX_REPLY_BUTTONS, MAX_LIST_ROWS} \subseteq 1..98
  /\ {MAX_BUTTON_TITLE, MAX_ROW_TITLE} \subseteq Nat \ 0..2
  /\ MAX_LIST_OPEN_LABEL \in Nat \ {0}

Take(text, n) == SubSeq(text, 1, IF n < Len(text) THEN n ELSE Len(text))

Trim(text) ==
  LET ink == {i \in DOMAIN text : text[i] \notin Whitespace}
  IN IF ink = {} THEN << >> ELSE SubSeq(text, Min(ink), Max(ink))

\* MessageContent.  Only cards have a title and actions, only media a MIME type (its first
\* part); the body of a medium is its caption, that of a location its coordinates in words.
Text(body)     == [type |-> "Text", body |-> body]
RichTextOf(body) == [type |-> "RichText", body |-> body]
Media(mime, caption) == [type |-> "Media", mime |-> mime, body |-> caption]
Location(place) == [type |-> "Location", body |-> place]
Card(title, body, actions) ==
  [type |-> "Card", title |-> title, body |-> body, actions |-> actions]

Payload(shape, text, buttons) == [shape |-> shape, text |-> text, buttons |-> buttons]

\* One control per action, in order: a link, or a button that sends its value back.
Button(label, action) ==
  [label |-> label, link |-> action.type = "url", value |-> action.value]

ButtonsOf(actions) == [i \in DOMAIN actions |-> Button(actions[i].label, actions[i])]

RenderTelegram(content) ==
  CASE content.type = "Text" -> Payload("text", EncodeText(content.body), << >>)
    [] content.type = "RichText" ->
         Payload("text", RenderTelegramHtml(Parse(content.body)), << >>)
    [] content.type = "Media" -> Payload("image", content.body, << >>)
    [] content.type = "Location" -> Payload("location", content.body, << >>)
    [] content.type = "Card" ->
         Payload("text",
                 <<"<b>">> \o EncodeText(content.title) \o <<"</b>", "\n", "\n">>
                   \o RenderTelegramHtml(Parse(content.body)),
                 ButtonsOf(content.actions))

RenderDiscord(content) ==
  CASE content.type \in {"Text", "Location"} -> Payload("text", content.body, << >>)
    [] content.type = "RichText" ->
         Payload("text", RenderDiscordMarkdown(Parse(content.body)), << >>)
    [] content.type = "Media" -> Payload("image", content.body, << >>)
    [] content.type = "Card" ->
         Payload("card", content.title \o <<"\n">> \o RenderDiscordMarkdown(Parse(content.body)),
                 ButtonsOf(content.actions))

RenderSlack(content) ==
  CASE content.type \in {"Text", "Location"} -> Payload("text", content.body, << >>)
    [] content.type = "RichText" ->
         Payload("text", RenderSlackMrkdwn(Parse(content.body)), << >>)
    [] content.type = "Media" -> Payload("image", content.body, << >>)
    [] content.type = "Card" ->
         Payload("card", content.title \o <<"\n">> \o RenderSlackMrkdwn(Parse(content.body)),
                 ButtonsOf(content.actions))

\* Messenger's attachment carries no caption.
RenderMessenger(content) ==
  CASE content.type \in {"Text", "Location"} -> Payload("text", content.body, << >>)
    [] content.type = "RichText" -> Payload("text", RenderPlain(Parse(content.body)), << >>)
    [] content.type = "Media" ->
         Payload(IF content.mime \in {"image", "video", "audio"} THEN content.mime ELSE "file",
                 << >>, << >>)
    [] content.type = "Card" ->
         Payload("card", content.title \o <<"\n">> \o RenderPlain(Parse(content.body)),
                 ButtonsOf(content.actions))

(***************************************************************************)
(* WhatsApp: reply buttons, a list, or text.                               *)
(***************************************************************************)
InteractiveEligible(actions) ==
  actions # << >> /\ \A i \in DOMAIN actions :
                        actions[i].type # "url" /\ Trim(actions[i].label) # << >>

IdsFit(actions, max) == \A i \in DOMAIN actions : Len(actions[i].value) <= max

Numeral == [d \in 0..9 |-> <<"0", "1", "2", "3", "4", "5", "6", "7", "8", "9">>[d + 1]]

\* An ordinal in decimal notation.
Digits(n) ==
  IF n < 10 THEN <<Numeral[n]>> ELSE <<Numeral[n \div 10], Numeral[n % 10]>>

\* The label cut to max characters, or to make room for an ordinal at its end.
Candidate(base, ordinal, max) ==
  LET tag  == <<" ">> \o Digits(ordinal)
      keep == IF Len(tag) < max THEN max - Len(tag) ELSE 0
  IN IF ordinal = 1 THEN base ELSE Take(base, keep) \o tag

\* The first candidate that no title so far has taken.
FreshTitle(titles, label, max) ==
  LET base == Take(Trim(label), max)
      free == {n \in 1..(Len(titles) + 2) : Candidate(base, n, max) \notin Range(titles)}
  IN Candidate(base, Min(free), max)

\* Mutant: labels are cut and may become equal.
TitlesCut(actions, max) == [i \in DOMAIN actions |-> Take(Trim(actions[i].label), max)]

UniqueTitles(actions, max) ==
  LET titles[k \in 0..Len(actions)] ==
        IF k = 0 THEN << >>
        ELSE Append(titles[k - 1], FreshTitle(titles[k - 1], actions[k].label, max))
  IN titles[Len(actions)]

CardBodyText(title, body) == IF Trim(body) = << >> THEN title ELSE body

\* The header, empty where none is attached.
Header(title, body) ==
  IF Trim(title) = << >> \/ Trim(body) = << >> THEN << >> ELSE Take(title, MAX_HEADER_TEXT)

Interactive(shape, opener, title, body, actions, max) ==
  LET titles == UniqueTitles(actions, max) IN
  [shape |-> shape, opener |-> opener, header |-> Header(title, body),
   text |-> CardBodyText(title, body),
   buttons |-> [i \in DOMAIN actions |-> Button(titles[i], actions[i])]]

InteractiveButtons(title, body, actions) ==
  Interactive("buttons", << >>, title, body, actions, MAX_BUTTON_TITLE)

InteractiveList(title, body, actions) ==
  Interactive("list",
              IF Trim(title) = << >> THEN <<"Menu">> ELSE Take(title, MAX_LIST_OPEN_LABEL),
              title, body, actions, MAX_ROW_TITLE)

CardAsText(title, body, actions) ==
  Payload("text",
    <<"*">> \o title \o <<"*", "\n", "\n">> \o body \o
      FlattenSeq([i \in DOMAIN actions |->
        <<"\n", "-", " ">> \o actions[i].label \o <<":", " ">> \o actions[i].value]),
    << >>)

RenderCard(title, body, actions) ==
  CASE /\ InteractiveEligible(actions)
       /\ Len(actions) <= MAX_REPLY_BUTTONS /\ IdsFit(actions, MAX_BUTTON_ID) ->
         InteractiveButtons(title, body, actions)
    [] /\ InteractiveEligible(actions)
       /\ ~(Len(actions) <= MAX_REPLY_BUTTONS /\ IdsFit(actions, MAX_BUTTON_ID))
       /\ Len(actions) <= MAX_LIST_ROWS /\ IdsFit(actions, MAX_ROW_ID) ->
         InteractiveList(title, body, actions)
    [] OTHER -> CardAsText(title, body, actions)

RenderWhatsApp(content) ==
  CASE content.type \in {"Text", "Location"} -> Payload("text", content.body, << >>)
    [] content.type = "RichText" ->
         Payload("text", RenderWhatsAppText(Parse(content.body)), << >>)
    [] content.type = "Media" ->
         Payload(IF content.mime \in {"image", "video", "audio"} THEN content.mime ELSE "document",
                 content.body, << >>)
    [] content.type = "Card" ->
         RenderCard(content.title, RenderWhatsAppText(Parse(content.body)), content.actions)

Render(channel, content) ==
  CASE channel = "telegram"  -> RenderTelegram(content)
    [] channel = "discord"   -> RenderDiscord(content)
    [] channel = "slack"     -> RenderSlack(content)
    [] channel = "messenger" -> RenderMessenger(content)
    [] channel = "whatsapp"  -> RenderWhatsApp(content)
==============================================================================
