\* Every text of the HTML subset to five characters and of markdown to six; every card of
\* up to four actions, with the caps scaled down.
SPECIFICATION Spec
CONSTANTS
  HtmlChars <- MCHtmlChars
  MaxHtml = 5
  MarkdownChars <- MCMarkdownChars
  MaxMarkdown = 6
  Titles <- MCTitles
  Bodies <- MCBodies
  Actions <- MCActions
  MaxActions = 4
  MAX_REPLY_BUTTONS = 2
  MAX_LIST_ROWS = 3
  MAX_BUTTON_TITLE = 3
  MAX_ROW_TITLE = 4
  MAX_BUTTON_ID = 3
  MAX_ROW_ID = 2
  MAX_LIST_OPEN_LABEL = 2
  MAX_HEADER_TEXT = 2
INVARIANTS
  MarkupSurvives
  MarkdownSurvives
  WhatsAppCardsAreUsable
CHECK_DEADLOCK FALSE
