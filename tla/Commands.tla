------------------------------- MODULE Commands -------------------------------
(***************************************************************************)
(* The slash commands (commands/registry.rs and commands/matcher.rs): a    *)
(* registry that grows at start-up, a matcher built from it at some        *)
(* moment, the match of a text, and the menu published to Telegram.        *)
(*                                                                         *)
(* A trigger or a text is the sequence of words that spaces separate, in   *)
(* lower case; two spaces in a row enclose the empty word Gap.  A key is   *)
(* thus a prefix of a text at a word boundary exactly if its words are.    *)
(***************************************************************************)
EXTENDS SequencesExt

CONSTANTS
  Definitions,  \* the CommandDefinitions the host may register
  Words,        \* words of the texts
  SlashWords,   \* those that begin with "/"
  Gap,          \* the empty word between two spaces
  MaxWords      \* bound: words in a text that the properties look at

Trigger == Seq(Words \ {Gap}) \ {<< >>}

ASSUME CommandsAssumption ==
  /\ SlashWords \subseteq Words
  /\ Gap \in Words \ SlashWords
  /\ MaxWords \in Nat
  /\ \A d \in Definitions :
       /\ DOMAIN d = {"name", "command", "aliases"}
       /\ d.command \in Trigger
       /\ d.aliases \subseteq Trigger

Names == {d.name : d \in Definitions}

\* What a definition can be reached by.
Keys(d) == {d.command} \cup d.aliases

AllKeys == UNION {Keys(d) : d \in Definitions}

VARIABLES
  definitions,     \* name -> definition
  lookup,          \* command or alias -> name
  sorted_commands, \* the matcher: the keys there were when it was built
  order            \* history: the names in the order they were registered

vars == <<definitions, lookup, sorted_commands, order>>

TypeOK ==
  /\ DOMAIN definitions \subseteq Names
  /\ \A n \in DOMAIN definitions :
       definitions[n] \in Definitions /\ definitions[n].name = n
  /\ DOMAIN lookup \subseteq AllKeys
  /\ \A k \in DOMAIN lookup : lookup[k] \in Names
  /\ sorted_commands \subseteq AllKeys
  /\ order \in Seq(Names)

Nothing == [x \in {} |-> x]

Init ==
  /\ definitions = Nothing
  /\ lookup = Nothing
  /\ sorted_commands = {}
  /\ order = << >>

\* Mutant: a command of several words is indexed by its last word.
InsertLastWord(d) ==
  LET keys == {<<Last(d.command)>>} \cup d.aliases
  IN /\ definitions' = [n \in DOMAIN definitions \cup {d.name} |->
                          IF n = d.name THEN d ELSE definitions[n]]
     /\ lookup' = [k \in DOMAIN lookup \cup keys |->
                     IF k \in keys THEN d.name ELSE lookup[k]]
     /\ order' = Append(order, d.name)
     /\ UNCHANGED sorted_commands

\* Mutant: a key that is taken stays with the definition that has it.
InsertFreeKeys(d) ==
  /\ definitions' = [n \in DOMAIN definitions \cup {d.name} |->
                       IF n = d.name THEN d ELSE definitions[n]]
  /\ lookup' = [k \in DOMAIN lookup \cup Keys(d) |->
                  IF k \in DOMAIN lookup THEN lookup[k] ELSE d.name]
  /\ order' = Append(order, d.name)
  /\ UNCHANGED sorted_commands

\* The definition and all its keys are entered; a key that is taken passes to it.
Insert(d) ==
  /\ definitions' = [n \in DOMAIN definitions \cup {d.name} |->
                       IF n = d.name THEN d ELSE definitions[n]]
  /\ lookup' = [k \in DOMAIN lookup \cup Keys(d) |->
                  IF k \in Keys(d) THEN d.name ELSE lookup[k]]
  /\ order' = Append(order, d.name)
  /\ UNCHANGED sorted_commands

\* Mutant: a name that is taken is registered again.
RegisterAgain(d) == Insert(d)

\* register.  A name that is taken is refused, which changes nothing.
Register(d) ==
  /\ d.name \notin DOMAIN definitions
  /\ Insert(d)

\* CommandMatcher::from_registry
FromRegistry ==
  /\ sorted_commands' = DOMAIN lookup
  /\ UNCHANGED <<definitions, lookup, order>>

Next ==
  \/ \E d \in Definitions : Register(d)
  \/ FromRegistry

Spec == Init /\ [][Next]_vars
------------------------------------------------------------------------------
(***************************************************************************)
(* Matching.                                                               *)
(***************************************************************************)
NoMatch == [name |-> "none"]

Longest(keys) == CHOOSE k \in keys : \A other \in keys : Len(other) <= Len(k)

Drop(k, text) == SubSeq(text, Len(k) + 1, Len(text))

\* longest_prefix: the longest key of the matcher that the registry still knows.
LongestPrefix(text) ==
  LET found == {k \in sorted_commands : IsPrefix(k, text) /\ k \in DOMAIN lookup}
      key == Longest(found)
  IN IF found = {} THEN NoMatch
     ELSE [name |-> lookup[key], key |-> key, rest |-> Drop(key, text)]

\* Mutant: an alias is not resolved again.
CanonicaliseNot(match) == match

\* canonicalise: the text after an alias is looked up again behind the command.
Canonicalise(match) ==
  LET command == definitions[match.name].command
      again == LongestPrefix(command \o match.rest)
  IN IF command = match.key \/ match.rest = << >> \/ again = NoMatch
     THEN match
     ELSE again

Trim(text) ==
  LET filled == {i \in DOMAIN text : text[i] # Gap}
  IN IF filled = {} THEN << >> ELSE SubSeq(text, Min(filled), Max(filled))

\* The words of the rest, without the gaps between them.
Arguments(rest) ==
  LET words[i \in 0..Len(rest)] ==
        IF i = 0 THEN << >>
        ELSE IF rest[i] = Gap THEN words[i - 1] ELSE Append(words[i - 1], rest[i])
  IN words[Len(rest)]

TryMatch(text) ==
  LET trimmed == Trim(text)
      first == LongestPrefix(trimmed)
      match == Canonicalise(first)
  IN IF trimmed = << >> \/ trimmed[1] \notin SlashWords \/ first = NoMatch
     THEN NoMatch
     ELSE [name |-> match.name, args |-> Arguments(match.rest)]
------------------------------------------------------------------------------
(***************************************************************************)
(* The menu.  An entry is one word; d is what its description is taken     *)
(* from.  Of entries with the same word the code keeps one, a command's    *)
(* own before an alias, else the one its hash map happens to yield first.  *)
(***************************************************************************)
Entries(triggers, n) == {[word |-> t[1], name |-> n] : t \in {s \in triggers : Len(s) = 1}}

OwnEntries == UNION {Entries({definitions[n].command}, n) : n \in DOMAIN definitions}

AliasEntries ==
  UNION {Entries(definitions[n].aliases, n) :
           n \in {m \in DOMAIN definitions : Len(definitions[m].command) > 1}}

\* bot_command_list_described: the entries that can be published.
BotCommandList ==
  OwnEntries \cup
  {e \in AliasEntries : \A own \in OwnEntries : own.word # e.word}
------------------------------------------------------------------------------
(***************************************************************************)
(* Properties.                                                             *)
(***************************************************************************)
\* Every key leads to a registered definition that claims it, every claim of a
\* registered definition is a key, and a matcher, however old, holds only keys
\* that still resolve (get_by_command in longest_prefix never fails).
LookupResolves ==
  /\ \A k \in DOMAIN lookup :
       lookup[k] \in DOMAIN definitions /\ k \in Keys(definitions[lookup[k]])
  /\ \A n \in DOMAIN definitions : Keys(definitions[n]) \subseteq DOMAIN lookup
  /\ sorted_commands \subseteq DOMAIN lookup

\* The registered vocabulary is as the documentation takes it to be: no key
\* belongs to two definitions, no command is an alias, and aliases are one word.
Tidy ==
  \A m, n \in DOMAIN definitions :
    /\ m # n => Keys(definitions[m]) \cap Keys(definitions[n]) = {}
    /\ definitions[m].command \notin definitions[m].aliases
    /\ \A a \in definitions[m].aliases : Len(a) = 1

Texts == BoundedSeq(Words, MaxWords)

\* What a trimmed text means, said without the two passes of the code: the longest
\* command it begins with, else the longest command it begins with once its first
\* word, an alias, is spelled out.
Meaning(text) ==
  LET known == {n \in DOMAIN definitions : definitions[n].command \in sorted_commands}
      begun(t) == {n \in known : IsPrefix(definitions[n].command, t)}
      best(t) == CHOOSE n \in begun(t) :
                   definitions[n].command = Longest({definitions[m].command : m \in begun(t)})
      read(t) == [name |-> best(t), args |-> Arguments(Drop(definitions[best(t)].command, t))]
      abbreviated == {n \in known : <<text[1]>> \in definitions[n].aliases}
  IN IF text = << >> \/ text[1] \notin SlashWords THEN NoMatch
     ELSE IF begun(text) # {} THEN read(text)
     ELSE IF abbreviated # {}
          THEN read(definitions[CHOOSE n \in abbreviated : TRUE].command \o Tail(text))
     ELSE NoMatch

\* Greedy matching with a second pass finds the command a text means, subcommands
\* typed after an alias included, also with a matcher older than the registry.
MatchIsMeaning == Tidy => \A text \in Texts : TryMatch(text) = Meaning(Trim(text))

\* Of the definitions registered so far, n is the last that claims k.
LastToClaim(n, k) ==
  \E i \in DOMAIN order :
    /\ order[i] = n /\ k \in Keys(definitions[n])
    /\ \A j \in DOMAIN order : j > i => k \notin Keys(definitions[order[j]])

\* Typing the word, and nothing else, runs the definition that claimed it last.
RunsLastClaimant(w) ==
  \E n \in DOMAIN definitions :
    LastToClaim(n, <<w>>) /\ TryMatch(<<w>>) = [name |-> n, args |-> << >>]

\* Whatever keys collide: an entry describes a definition that claims its word, and
\* tapping it runs the definition that claimed the word last, so the one described
\* unless a later registration took the word.  What a word runs is in the menu, under
\* that word or under its own command.
MenuReachesCommands ==
  /\ \A e \in BotCommandList :
       e.word \in SlashWords =>
         /\ <<e.word>> \in Keys(definitions[e.name])
         /\ <<e.word>> \in sorted_commands => RunsLastClaimant(e.word)
  /\ \A w \in SlashWords :
       <<w>> \in DOMAIN lookup =>
         \E e \in BotCommandList :
           e.word = w \/ <<e.word>> = definitions[lookup[<<w>>]].command
==============================================================================
