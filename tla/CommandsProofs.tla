---------------------------- MODULE CommandsProofs ----------------------------
(***************************************************************************)
(* Theorems about Commands, for every set of definitions the host may      *)
(* register, in any order and with keys that collide.                      *)
(***************************************************************************)
EXTENDS Commands, Integers, SequenceTheorems, WellFoundedInduction, TLAPS

\* An empty registry and matcher are well typed.
LEMMA InitIsTyped == Init => TypeOK
BY DEF Init, TypeOK, Nothing

\* The registry keeps its types: registered definitions are known ones, filed under
\* their own names, and keys are triggers of some definition.
LEMMA TypeIsInductive == TypeOK /\ [Next]_vars => TypeOK'
<1> SUFFICES ASSUME TypeOK, [Next]_vars PROVE TypeOK'
  OBVIOUS
<1>1. ASSUME NEW d \in Definitions, Register(d) PROVE TypeOK'
  <2>1. d.name \in Names /\ Keys(d) \subseteq AllKeys
    BY DEF Names, AllKeys
  <2>2. DOMAIN definitions' = DOMAIN definitions \cup {d.name}
    BY <1>1 DEF Register, Insert
  <2>3. \A n \in DOMAIN definitions' :
          definitions'[n] \in Definitions /\ definitions'[n].name = n
    BY <1>1, <2>2 DEF Register, Insert, TypeOK
  <2>4. DOMAIN lookup' = DOMAIN lookup \cup Keys(d)
    BY <1>1 DEF Register, Insert
  <2>5. \A k \in DOMAIN lookup' : lookup'[k] \in Names
    BY <1>1, <2>1, <2>4 DEF Register, Insert, TypeOK
  <2>6. order' \in Seq(Names)
    BY <1>1, <2>1, AppendProperties DEF Register, Insert, TypeOK
  <2>7. QED
    BY <1>1, <2>1, <2>2, <2>3, <2>4, <2>5, <2>6 DEF Register, Insert, TypeOK
<1>2. CASE FromRegistry
  BY <1>2 DEF FromRegistry, TypeOK
<1>3. CASE UNCHANGED vars
  BY <1>3 DEF vars, TypeOK
<1>4. QED
  BY <1>1, <1>2, <1>3 DEF Next

\* TypeOK holds in every reachable state.
THEOREM TypeCorrect == Spec => []TypeOK
BY InitIsTyped, TypeIsInductive, PTL DEF Spec

\* A registration files every key of the new definition, moves the keys it takes
\* over to it, and leaves no key that leads nowhere.
LEMMA LookupIsInductive ==
  TypeOK /\ LookupResolves /\ [Next]_vars => LookupResolves'
<1> SUFFICES ASSUME TypeOK, LookupResolves, [Next]_vars PROVE LookupResolves'
  OBVIOUS
<1>1. ASSUME NEW d \in Definitions, Register(d) PROVE LookupResolves'
  <2>1. /\ DOMAIN definitions' = DOMAIN definitions \cup {d.name}
        /\ definitions'[d.name] = d
        /\ \A n \in DOMAIN definitions : definitions'[n] = definitions[n]
    BY <1>1 DEF Register, Insert
  <2>2. /\ DOMAIN lookup' = DOMAIN lookup \cup Keys(d)
        /\ \A k \in Keys(d) : lookup'[k] = d.name
        /\ \A k \in DOMAIN lookup \ Keys(d) : lookup'[k] = lookup[k]
    BY <1>1 DEF Register, Insert
  <2>3. ASSUME NEW k \in DOMAIN lookup'
        PROVE  lookup'[k] \in DOMAIN definitions' /\ k \in Keys(definitions'[lookup'[k]])
    <3>1. CASE k \in Keys(d)
      BY <2>1, <2>2, <3>1
    <3>2. CASE k \notin Keys(d)
      <4>1. lookup[k] \in DOMAIN definitions /\ k \in Keys(definitions[lookup[k]])
        BY <2>2, <3>2 DEF LookupResolves
      <4>2. QED
        BY <2>1, <2>2, <3>2, <4>1
    <3>3. QED
      BY <3>1, <3>2
  <2>4. ASSUME NEW n \in DOMAIN definitions'
        PROVE  Keys(definitions'[n]) \subseteq DOMAIN lookup'
    <3>1. CASE n = d.name
      BY <2>1, <2>2, <3>1
    <3>2. CASE n # d.name
      <4>1. n \in DOMAIN definitions /\ definitions'[n] = definitions[n]
        BY <2>1, <3>2
      <4>2. Keys(definitions[n]) \subseteq DOMAIN lookup
        BY <4>1 DEF LookupResolves
      <4>3. QED
        BY <2>2, <4>1, <4>2
    <3>3. QED
      BY <3>1, <3>2
  <2>5. sorted_commands' \subseteq DOMAIN lookup'
    BY <1>1, <2>2 DEF Register, Insert, LookupResolves
  <2>6. QED
    BY <2>3, <2>4, <2>5 DEF LookupResolves, Keys
<1>2. CASE FromRegistry
  BY <1>2 DEF FromRegistry, LookupResolves
<1>3. CASE UNCHANGED vars
  BY <1>3 DEF vars, LookupResolves
<1>4. QED
  BY <1>1, <1>2, <1>3 DEF Next

\* Whatever is registered in whatever order, every key leads to a definition that
\* claims it, no claim is lost, and an old matcher's keys still resolve.
THEOREM LookupsResolve == Spec => []LookupResolves
<1>1. Init => LookupResolves
  BY DEF Init, LookupResolves, Nothing
<1>2. QED
  BY <1>1, TypeCorrect, LookupIsInductive, PTL DEF Spec
-----------------------------------------------------------------------------
(***************************************************************************)
(* Prefixes of a text.  The longest of a set of prefixes exists, and it is *)
(* the only one of its length.                                             *)
(***************************************************************************)
\* Every nonempty set of naturals has a least element.
LEMMA LeastNatural ==
  ASSUME NEW T \in SUBSET Nat, T # {}
  PROVE  \E m \in T : \A k \in T : m <= k
<1> DEFINE R == OpToRel(<, Nat)
<1>1. IsWellFoundedOn(R, Nat)
  BY NatLessThanWellFounded
<1>2. \A x, y \in Nat : <<x, y>> \in R <=> x < y
  BY DEF OpToRel
<1> HIDE DEF R
<1>3. PICK m \in T : \A k \in T : ~ (<<k, m>> \in R)
  BY <1>1, WFMin
<1>4. \A k \in T : k \in Nat /\ m \in Nat /\ ~ (k < m)
  BY <1>2, <1>3
<1>5. QED
  BY <1>4

\* A prefix agrees with the text word by word.
LEMMA PrefixByWords ==
  ASSUME NEW s \in Seq(Words), NEW t \in Seq(Words)
  PROVE  IsPrefix(s, t) <=> Len(s) <= Len(t) /\ \A i \in 1..Len(s) : s[i] = t[i]
<1>1. Len(s) \in Nat /\ Len(t) \in Nat
  OBVIOUS
<1>2. SubSeq(s, 1, Len(s)) = s
  BY SubSeqFull
<1>3. ASSUME Len(s) <= Len(t)
      PROVE  /\ SubSeq(t, 1, Len(s)) \in Seq(Words)
             /\ Len(SubSeq(t, 1, Len(s))) = Len(s)
             /\ \A i \in 1..Len(s) : SubSeq(t, 1, Len(s))[i] = t[i]
  <2>1. \A i \in 1..Len(s) : t[i] \in Words
    BY <1>1, <1>3, ElementOfSeq
  <2>2. QED
    BY <1>1, <1>3, <2>1, SubSeqProperties
<1>4. ASSUME IsPrefix(s, t) PROVE Len(s) <= Len(t) /\ \A i \in 1..Len(s) : s[i] = t[i]
  BY <1>2, <1>3, <1>4 DEF IsPrefix
<1>5. ASSUME Len(s) <= Len(t), \A i \in 1..Len(s) : s[i] = t[i] PROVE IsPrefix(s, t)
  <2>1. SubSeq(t, 1, Len(s)) = s
    BY <1>3, <1>5, SeqEqual
  <2>2. QED
    BY <1>2, <1>5, <2>1 DEF IsPrefix
<1>6. QED
  BY <1>4, <1>5

\* A text has one prefix of each length.
LEMMA PrefixOfLength ==
  ASSUME NEW s \in Seq(Words), NEW u \in Seq(Words), NEW t \in Seq(Words),
         IsPrefix(s, t), IsPrefix(u, t), Len(s) = Len(u)
  PROVE  s = u
<1>1. \A i \in 1..Len(s) : s[i] = u[i]
  BY PrefixByWords
<1>2. QED
  BY <1>1, SeqEqual

\* The first word of a text is a prefix of it.
LEMMA FirstWordIsPrefix ==
  ASSUME NEW t \in Seq(Words), t # << >>
  PROVE  /\ <<t[1]>> \in Seq(Words) /\ Len(<<t[1]>>) = 1
         /\ IsPrefix(<<t[1]>>, t)
<1> DEFINE k == <<t[1]>>
<1>1. Len(t) \in Nat \ {0} /\ t[1] \in Words
  BY EmptySeq, ElementOfSeq
<1>2. k \in Seq(Words) /\ Len(k) = 1 /\ k[1] = t[1]
  BY <1>1
<1> HIDE DEF k
<1>3. Len(k) <= Len(t) /\ \A i \in 1..Len(k) : k[i] = t[i]
  BY <1>1, <1>2
<1>4. IsPrefix(k, t)
  BY <1>2, <1>3, PrefixByWords
<1>5. QED
  BY <1>2, <1>4 DEF k

\* A prefix of one word is the first word.
LEMMA PrefixOfOneWord ==
  ASSUME NEW s \in Seq(Words), NEW t \in Seq(Words), IsPrefix(s, t), Len(s) = 1
  PROVE  s = <<t[1]>>
<1>1. \A i \in 1..Len(s) : s[i] = t[i]
  BY PrefixByWords
<1>2. s[1] = t[1]
  BY <1>1
<1>3. Len(<<t[1]>>) = 1 /\ <<t[1]>>[1] = t[1] /\ t[1] \in Words
  BY <1>2, ElementOfSeq
<1>4. <<t[1]>> \in Seq(Words)
  BY <1>3
<1>5. QED
  BY <1>2, <1>3, <1>4, SeqEqual

\* Longest finds the longest of the prefixes it is given.
LEMMA LongestIsLongest ==
  ASSUME NEW t \in Seq(Words), NEW K \in SUBSET Seq(Words), K # {}, \A k \in K : IsPrefix(k, t)
  PROVE  Longest(K) \in K /\ \A k \in K : Len(k) <= Len(Longest(K))
<1>1. \A k \in K : Len(k) \in Nat /\ Len(t) \in Nat /\ Len(k) <= Len(t)
  BY DEF IsPrefix
<1> DEFINE T == {Len(t) - Len(k) : k \in K}
<1>2. T \in SUBSET Nat /\ T # {}
  BY <1>1
<1>3. PICK m \in T : \A x \in T : m <= x
  BY <1>2, LeastNatural
<1>4. PICK l \in K : m = Len(t) - Len(l)
  BY <1>3
<1>5. \A k \in K : Len(t) - Len(l) <= Len(t) - Len(k)
  BY <1>3, <1>4
<1>6. \A k \in K : Len(k) <= Len(l)
  BY <1>1, <1>5
<1>7. QED
  BY <1>4, <1>6 DEF Longest

\* It is the only one of its length.
LEMMA LongestIsUnique ==
  ASSUME NEW t \in Seq(Words), NEW K \in SUBSET Seq(Words), \A k \in K : IsPrefix(k, t),
         NEW l \in K, \A k \in K : Len(k) <= Len(l)
  PROVE  Longest(K) = l
<1>1. Longest(K) \in K /\ Len(l) <= Len(Longest(K))
  BY LongestIsLongest
<1>2. Len(Longest(K)) = Len(l)
  BY <1>1
<1>3. QED
  BY <1>1, <1>2, PrefixOfLength
-----------------------------------------------------------------------------
(***************************************************************************)
(* Matching.  A matcher is built from a whole registry and definitions are *)
(* never replaced, so with tidy keys it has all keys of a definition or    *)
(* none.  Under that invariant the longest key a text begins with is a     *)
(* command whenever the text begins with a command at all, and otherwise   *)
(* it is an alias, whose text spelled out begins with a command.           *)
(***************************************************************************)
MatcherIsClosed ==
  Tidy => \A n \in DOMAIN definitions :
            \/ Keys(definitions[n]) \subseteq sorted_commands
            \/ Keys(definitions[n]) \cap sorted_commands = {}

\* A registration adds keys no earlier matcher can hold; building a matcher takes all.
LEMMA ClosureIsInductive ==
  TypeOK /\ LookupResolves /\ MatcherIsClosed /\ [Next]_vars => MatcherIsClosed'
<1> SUFFICES ASSUME TypeOK, LookupResolves, MatcherIsClosed, [Next]_vars, Tidy',
                    NEW n \in DOMAIN definitions'
             PROVE  \/ Keys(definitions[n])' \subseteq sorted_commands'
                    \/ Keys(definitions[n])' \cap sorted_commands' = {}
  BY DEF MatcherIsClosed
<1>1. ASSUME NEW d \in Definitions, Register(d)
      PROVE  \/ Keys(definitions[n])' \subseteq sorted_commands'
             \/ Keys(definitions[n])' \cap sorted_commands' = {}
  <2>1. /\ d.name \notin DOMAIN definitions
        /\ DOMAIN definitions' = DOMAIN definitions \cup {d.name}
        /\ definitions'[d.name] = d
        /\ \A m \in DOMAIN definitions : definitions'[m] = definitions[m]
        /\ sorted_commands' = sorted_commands
    BY <1>1 DEF Register, Insert
  <2>2. CASE n \in DOMAIN definitions
    <3>1. Tidy
      BY <2>1 DEF Tidy, Keys
    <3>2. QED
      BY <2>1, <2>2, <3>1 DEF MatcherIsClosed, Keys
  <2>3. CASE n = d.name
    <3>1. ASSUME NEW k \in sorted_commands PROVE k \notin Keys(d)
      <4>1. PICK m \in DOMAIN definitions : k \in Keys(definitions[m])
        BY DEF LookupResolves
      <4>2. Keys(definitions[m])' = Keys(definitions[m]) /\ Keys(definitions[n])' = Keys(d)
        BY <2>1, <2>3 DEF Keys
      <4>3. m \in DOMAIN definitions' /\ n \in DOMAIN definitions' /\ m # n
        BY <2>1, <2>3
      <4>4. QED
        BY <4>1, <4>2, <4>3 DEF Tidy
    <3>2. Keys(definitions[n])' = Keys(d)
      BY <2>1, <2>3 DEF Keys
    <3>3. QED
      BY <2>1, <3>1, <3>2
  <2>4. QED
    BY <2>1, <2>2, <2>3
<1>2. CASE FromRegistry
  <2>1. sorted_commands' = DOMAIN lookup /\ definitions' = definitions
    BY <1>2 DEF FromRegistry
  <2>2. Keys(definitions[n]) \subseteq DOMAIN lookup
    BY <2>1 DEF LookupResolves
  <2>3. QED
    BY <2>1, <2>2 DEF Keys
<1>3. CASE UNCHANGED vars
  BY <1>3 DEF vars, MatcherIsClosed, Tidy, Keys
<1>4. QED
  BY <1>1, <1>2, <1>3 DEF Next

\* The invariants of registry and matcher together.
MatcherInv == TypeOK /\ LookupResolves /\ MatcherIsClosed

\* They hold in every reachable state.
LEMMA MatcherHolds == Spec => []MatcherInv
<1>1. Init => MatcherIsClosed
  BY DEF Init, MatcherIsClosed, Nothing
<1>2. MatcherInv <=> TypeOK /\ LookupResolves /\ MatcherIsClosed
  BY DEF MatcherInv
<1>3. QED
  BY <1>1, <1>2, TypeCorrect, LookupsResolve, ClosureIsInductive, PTL DEF Spec

\* Keys are texts of at least one word and without gaps.
LEMMA KeysAreTriggers ==
  ASSUME TypeOK
  PROVE  /\ sorted_commands \subseteq Trigger
         /\ \A n \in DOMAIN definitions :
              /\ definitions[n].command \in Trigger
              /\ Keys(definitions[n]) \subseteq Trigger
<1>1. \A d \in Definitions : d.command \in Trigger /\ Keys(d) \subseteq Trigger
  BY CommandsAssumption DEF Keys
<1>2. AllKeys \subseteq Trigger
  BY <1>1 DEF AllKeys
<1>3. QED
  BY <1>1, <1>2 DEF TypeOK

LEMMA TriggersAreTexts ==
  ASSUME NEW k \in Trigger
  PROVE  k \in Seq(Words) /\ Len(k) \in Nat \ {0} /\ k # << >>
BY EmptySeq, SeqMonotonic DEF Trigger

\* With tidy keys, a key leads to the definition that claims it.
LEMMA OwnerOfKey ==
  ASSUME LookupResolves, Tidy, NEW n \in DOMAIN definitions, NEW k \in Keys(definitions[n])
  PROVE  k \in DOMAIN lookup /\ lookup[k] = n
<1>1. k \in DOMAIN lookup
  BY DEF LookupResolves
<1>2. lookup[k] \in DOMAIN definitions /\ k \in Keys(definitions[lookup[k]])
  BY <1>1 DEF LookupResolves
<1>3. QED
  BY <1>1, <1>2 DEF Tidy

\* The parts of Meaning.
Known == {n \in DOMAIN definitions : definitions[n].command \in sorted_commands}

Begun(t) == {n \in Known : IsPrefix(definitions[n].command, t)}

Best(t) ==
  CHOOSE n \in Begun(t) :
    definitions[n].command = Longest({definitions[m].command : m \in Begun(t)})

Reading(t) ==
  [name |-> Best(t), args |-> Arguments(Drop(definitions[Best(t)].command, t))]

Abbreviated(t) == {n \in Known : <<t[1]>> \in definitions[n].aliases}

LEMMA MeaningByParts ==
  ASSUME NEW t
  PROVE  Meaning(t) =
           IF t = << >> \/ t[1] \notin SlashWords THEN NoMatch
           ELSE IF Begun(t) # {} THEN Reading(t)
           ELSE IF Abbreviated(t) # {}
                THEN Reading(definitions[CHOOSE n \in Abbreviated(t) : TRUE].command \o Tail(t))
           ELSE NoMatch
BY DEF Meaning, Known, Begun, Best, Reading, Abbreviated

\* The keys of the matcher that a text begins with.
Found(t) == {k \in sorted_commands : IsPrefix(k, t) /\ k \in DOMAIN lookup}

LEMMA LongestPrefixOfFound ==
  ASSUME NEW t
  PROVE  LongestPrefix(t) =
           IF Found(t) = {} THEN NoMatch
           ELSE [name |-> lookup[Longest(Found(t))], key |-> Longest(Found(t)),
                 rest |-> Drop(Longest(Found(t)), t)]
BY DEF LongestPrefix, Found

\* A text that begins with a command: the longest key found is the longest command,
\* for an alias of the same length would be the same key.
LEMMA BegunIsFound ==
  ASSUME MatcherInv, Tidy, NEW t \in Seq(Words), Begun(t) # {}
  PROVE  /\ Best(t) \in Begun(t)
         /\ LongestPrefix(t) = [name |-> Best(t), key |-> definitions[Best(t)].command,
                                rest |-> Drop(definitions[Best(t)].command, t)]
<1> DEFINE commands == {definitions[m].command : m \in Begun(t)}
           longest == Longest(Found(t))
<1> USE DEF MatcherInv
<1>1. /\ Found(t) \in SUBSET Seq(Words) /\ \A k \in Found(t) : IsPrefix(k, t)
      /\ \A k \in Found(t) : k \in Trigger /\ Len(k) \in Nat \ {0}
  BY KeysAreTriggers, TriggersAreTexts DEF Found
<1>2. commands \subseteq Found(t)
  BY OwnerOfKey DEF Found, Begun, Known, Keys
<1>3. longest \in Found(t) /\ \A k \in Found(t) : Len(k) <= Len(longest)
  BY <1>1, <1>2, LongestIsLongest
<1> HIDE DEF longest
<1>4. PICK n \in DOMAIN definitions : longest \in Keys(definitions[n]) /\ lookup[longest] = n
  BY <1>3 DEF Found, LookupResolves
<1>5. longest \in commands
  <2>1. PICK m \in Begun(t) : definitions[m].command \in commands
    OBVIOUS
  <2> DEFINE c == definitions[m].command
  <2>2. c \in Found(t) /\ m \in DOMAIN definitions /\ c \in Keys(definitions[m])
    BY <1>2, <2>1 DEF Begun, Known, Keys
  <2>3. longest # definitions[n].command => longest \in definitions[n].aliases
    BY <1>4 DEF Keys
  <2>4. ASSUME longest \in definitions[n].aliases PROVE FALSE
    <3>1. Len(longest) = 1
      BY <2>4 DEF Tidy
    <3>2. Len(c) = Len(longest)
      BY <1>1, <1>3, <2>2, <3>1
    <3>3. c = longest
      BY <1>1, <1>3, <2>2, <3>2, PrefixOfLength
    <3>4. m = n
      BY <1>4, <2>2, <3>3, OwnerOfKey
    <3>5. QED
      BY <2>4, <3>3, <3>4 DEF Tidy
  <2>5. longest = definitions[n].command
    BY <2>3, <2>4
  <2>6. n \in Begun(t)
    BY <1>3, <2>5 DEF Begun, Known, Found
  <2>7. QED
    BY <2>5, <2>6
<1>6. Longest(commands) = longest
  <2>1. \A k \in commands : Len(k) <= Len(longest)
    BY <1>2, <1>3
  <2>2. commands \in SUBSET Seq(Words) /\ \A k \in commands : IsPrefix(k, t)
    BY <1>1, <1>2
  <2>3. QED
    BY <1>5, <2>1, <2>2, LongestIsUnique
<1>7. Best(t) \in Begun(t) /\ definitions[Best(t)].command = longest
  BY <1>5, <1>6 DEF Best
<1>8. Best(t) = lookup[longest]
  BY <1>7, OwnerOfKey DEF Begun, Known, Keys
<1>9. LongestPrefix(t) = [name |-> lookup[longest], key |-> longest, rest |-> Drop(longest, t)]
  BY <1>3, LongestPrefixOfFound DEF longest
<1>10. QED
  BY <1>7, <1>8, <1>9

\* A text that begins with no command: only its first word can be found, as the alias
\* of one definition.
LEMMA OnlyAliasesAreFound ==
  ASSUME MatcherInv, Tidy, NEW t \in Seq(Words), t # << >>, Begun(t) = {}
  PROVE  /\ Found(t) # {} <=> Abbreviated(t) # {}
         /\ \A k \in Found(t) : k = <<t[1]>>
         /\ \A n \in Abbreviated(t) : n \in Known /\ lookup[<<t[1]>>] = n
<1> USE DEF MatcherInv
<1>1. ASSUME NEW k \in Found(t) PROVE k = <<t[1]>> /\ lookup[k] \in Abbreviated(t)
  <2> DEFINE n == lookup[k]
  <2>1. n \in DOMAIN definitions /\ k \in Keys(definitions[n]) /\ k \in sorted_commands
    BY DEF Found, LookupResolves
  <2>2. n \in Known
    BY <2>1 DEF MatcherIsClosed, Known, Keys
  <2>3. k # definitions[n].command
    BY <2>2 DEF Found, Begun
  <2>4. k \in definitions[n].aliases /\ Len(k) = 1
    BY <2>1, <2>3 DEF Keys, Tidy
  <2>5. k \in Seq(Words) /\ IsPrefix(k, t)
    BY KeysAreTriggers, TriggersAreTexts DEF Found
  <2>6. k = <<t[1]>>
    BY <2>4, <2>5, PrefixOfOneWord
  <2>7. QED
    BY <2>2, <2>4, <2>6 DEF Abbreviated
<1>2. ASSUME NEW n \in Abbreviated(t) PROVE <<t[1]>> \in Found(t) /\ lookup[<<t[1]>>] = n
  <2> DEFINE k == <<t[1]>>
  <2>1. n \in DOMAIN definitions /\ k \in Keys(definitions[n]) /\ n \in Known
    BY DEF Abbreviated, Known, Keys
  <2>2. k \in sorted_commands
    BY <2>1 DEF MatcherIsClosed, Known, Keys
  <2>3. k \in DOMAIN lookup /\ lookup[k] = n
    BY <2>1, OwnerOfKey
  <2>4. IsPrefix(k, t)
    BY FirstWordIsPrefix
  <2>5. QED
    BY <2>2, <2>3, <2>4 DEF Found
<1>3. QED
  BY <1>1, <1>2 DEF Abbreviated

\* Dropping a prefix leaves the words behind it.
LEMMA DropByWords ==
  ASSUME NEW k \in Seq(Words), NEW t \in Seq(Words), Len(k) <= Len(t)
  PROVE  /\ Drop(k, t) \in Seq(Words)
         /\ Len(Drop(k, t)) = Len(t) - Len(k)
         /\ \A i \in 1..(Len(t) - Len(k)) : Drop(k, t)[i] = t[Len(k) + i]
<1>1. Len(k) \in Nat /\ Len(t) \in Nat
  OBVIOUS
<1>2. \A i \in (Len(k) + 1)..Len(t) : t[i] \in Words
  BY <1>1, ElementOfSeq
<1>3. /\ SubSeq(t, Len(k) + 1, Len(t)) \in Seq(Words)
      /\ Len(SubSeq(t, Len(k) + 1, Len(t)))
           = IF Len(k) + 1 <= Len(t) THEN Len(t) - (Len(k) + 1) + 1 ELSE 0
      /\ \A i \in 1..(Len(t) - (Len(k) + 1) + 1) :
           SubSeq(t, Len(k) + 1, Len(t))[i] = t[Len(k) + 1 + i - 1]
  BY <1>1, <1>2, SubSeqProperties
<1> DEFINE rest == SubSeq(t, Len(k) + 1, Len(t))
<1> HIDE DEF rest
<1>4. /\ rest \in Seq(Words)
      /\ Len(rest) = IF Len(k) + 1 <= Len(t) THEN Len(t) - (Len(k) + 1) + 1 ELSE 0
      /\ \A i \in 1..(Len(t) - (Len(k) + 1) + 1) : rest[i] = t[Len(k) + 1 + i - 1]
  BY <1>3 DEF rest
<1>5. Len(rest) = Len(t) - Len(k)
  BY <1>1, <1>4
<1>6. \A i \in 1..(Len(t) - Len(k)) : rest[i] = t[Len(k) + i]
  <2> SUFFICES ASSUME NEW i \in 1..(Len(t) - Len(k)) PROVE rest[i] = t[Len(k) + i]
    OBVIOUS
  <2>1. Len(k) + 1 + i - 1 = Len(k) + i
    BY <1>1
  <2>2. i \in 1..(Len(t) - (Len(k) + 1) + 1)
    BY <1>1
  <2>3. rest[i] = t[Len(k) + 1 + i - 1]
    BY <1>4, <2>2
  <2>4. QED
    BY <2>1, <2>3
<1>7. QED
  BY <1>4, <1>5, <1>6 DEF Drop, rest

\* Behind its first word a text has its tail.
LEMMA DropFirstWord ==
  ASSUME NEW t \in Seq(Words), t # << >>
  PROVE  Drop(<<t[1]>>, t) = Tail(t)
BY TailIsSubSeq DEF Drop

\* A command is the longest command that begins it, with nothing behind it.
LEMMA ReadingOfCommand ==
  ASSUME MatcherInv, Tidy, NEW n \in Known
  PROVE  LET c == definitions[n].command
         IN Best(c) = n /\ Begun(c) # {} /\ Drop(c, c) = << >>
<1> USE DEF MatcherInv
<1> DEFINE c == definitions[n].command
           commands == {definitions[m].command : m \in Begun(c)}
<1>1. c \in Seq(Words) /\ Len(c) \in Nat /\ n \in DOMAIN definitions
  BY KeysAreTriggers, TriggersAreTexts DEF Known
<1>2. IsPrefix(c, c)
  BY <1>1, PrefixByWords
<1>3. n \in Begun(c)
  BY <1>2 DEF Begun
<1>4. commands \in SUBSET Seq(Words) /\ \A k \in commands : IsPrefix(k, c)
  BY KeysAreTriggers, TriggersAreTexts DEF Begun, Known
<1>5. \A k \in commands : Len(k) <= Len(c)
  BY <1>4 DEF IsPrefix
<1>6. Longest(commands) = c
  BY <1>1, <1>3, <1>4, <1>5, LongestIsUnique
<1>7. Best(c) \in Begun(c) /\ definitions[Best(c)].command = c
  BY <1>3, <1>6 DEF Best
<1>8. lookup[c] = n /\ lookup[c] = Best(c)
  BY <1>1, <1>7, OwnerOfKey DEF Begun, Known, Keys
<1>9. Drop(c, c) = << >>
  BY <1>1, DropByWords, EmptySeq
<1>10. QED
  BY <1>3, <1>8, <1>9

\* A match is not the answer that nothing matched.
LEMMA MatchIsAMatch ==
  ASSUME NEW n, NEW k, NEW r
  PROVE  [name |-> n, key |-> k, rest |-> r] # NoMatch
<1>1. "key" \in DOMAIN [name |-> n, key |-> k, rest |-> r] /\ "key" \notin DOMAIN NoMatch
  BY DEF NoMatch
<1>2. QED
  BY <1>1

\* What the two passes make of a text is what it means.
LEMMA PassesFindTheMeaning ==
  ASSUME MatcherInv, Tidy, NEW t \in Seq(Words), t # << >>
  PROVE  LET first == LongestPrefix(t)
             match == Canonicalise(first)
         IN IF first = NoMatch THEN Begun(t) = {} /\ Abbreviated(t) = {}
            ELSE [name |-> match.name, args |-> Arguments(match.rest)]
                   = IF Begun(t) # {} THEN Reading(t)
                     ELSE Reading(definitions[CHOOSE n \in Abbreviated(t) : TRUE].command
                                    \o Tail(t))
<1> DEFINE first == LongestPrefix(t)
           match == Canonicalise(first)
<1> HIDE DEF first, match
<1>1. CASE Begun(t) # {}
  <2> DEFINE c == definitions[Best(t)].command
  <2>1. first = [name |-> Best(t), key |-> c, rest |-> Drop(c, t)]
    BY <1>1, BegunIsFound DEF first
  <2>2. match = first
    BY <2>1 DEF match, Canonicalise
  <2>3. first # NoMatch
    BY <2>1, MatchIsAMatch
  <2>4. [name |-> match.name, args |-> Arguments(match.rest)] = Reading(t)
    BY <2>1, <2>2 DEF Reading
  <2>5. QED
    BY <1>1, <2>3, <2>4 DEF first, match
<1>2. CASE Begun(t) = {} /\ Abbreviated(t) = {}
  <2>1. Found(t) = {}
    BY <1>2, OnlyAliasesAreFound
  <2>2. first = NoMatch
    BY <2>1, LongestPrefixOfFound DEF first
  <2>3. QED
    BY <1>2, <2>2 DEF first
<1>3. CASE Begun(t) = {} /\ Abbreviated(t) # {}
  <2> DEFINE n == CHOOSE m \in Abbreviated(t) : TRUE
             k == <<t[1]>>
             c == definitions[n].command
             spelled == c \o Tail(t)
  <2>1. n \in Abbreviated(t) /\ n \in Known /\ lookup[k] = n /\ k \in definitions[n].aliases
    BY <1>3, OnlyAliasesAreFound DEF Abbreviated
  <2>2. Found(t) # {} /\ \A f \in Found(t) : f = k
    BY <1>3, OnlyAliasesAreFound
  <2>3. Longest(Found(t)) = k
    <3>1. k \in Seq(Words) /\ Len(k) <= Len(k) /\ IsPrefix(k, t)
      BY FirstWordIsPrefix
    <3>2. k \in Found(t) /\ Found(t) = {k}
      BY <2>2
    <3> HIDE DEF k
    <3>3. Longest({k}) = k
      BY <3>1, LongestIsUnique
    <3>4. QED
      BY <3>2, <3>3
  <2>4. first = [name |-> n, key |-> k, rest |-> Tail(t)]
    BY <2>1, <2>2, <2>3, LongestPrefixOfFound, DropFirstWord DEF first
  <2>5. first # NoMatch
    BY <2>4, MatchIsAMatch
  <2>6. c # k
    BY <2>1 DEF Tidy, Known
  <2>7. c \in Seq(Words) /\ Tail(t) \in Seq(Words)
    BY <2>1, KeysAreTriggers, TriggersAreTexts, HeadTailProperties DEF Known, MatcherInv
  <2>8. [name |-> match.name, args |-> Arguments(match.rest)] = Reading(spelled)
    <3>1. CASE Tail(t) = << >>
      <4>1. match = first
        BY <2>4, <3>1 DEF match, Canonicalise
      <4>2. spelled = c
        BY <2>7, <3>1, ConcatEmptySeq
      <4>3. Best(c) = n /\ Drop(c, c) = << >>
        BY <2>1, ReadingOfCommand
      <4>4. Reading(c) = [name |-> n, args |-> Arguments(<< >>)]
        BY <4>3 DEF Reading
      <4>5. QED
        BY <2>4, <3>1, <4>1, <4>2, <4>4
    <3>2. CASE Tail(t) # << >>
      <4> DEFINE b == definitions[Best(spelled)].command
      <4>1. spelled \in Seq(Words) /\ IsPrefix(c, spelled)
        <5>1. /\ spelled \in Seq(Words) /\ Len(spelled) = Len(c) + Len(Tail(t))
              /\ \A i \in 1..(Len(c) + Len(Tail(t))) :
                   spelled[i] = IF i <= Len(c) THEN c[i] ELSE Tail(t)[i - Len(c)]
          BY <2>7, ConcatProperties
        <5>2. Len(c) \in Nat /\ Len(Tail(t)) \in Nat
          BY <2>7
        <5> HIDE DEF spelled, c
        <5>3. Len(c) <= Len(spelled) /\ \A i \in 1..Len(c) : c[i] = spelled[i]
          BY <5>1, <5>2
        <5>4. QED
          BY <2>7, <5>1, <5>3, PrefixByWords
      <4>2. n \in Begun(spelled)
        BY <2>1, <4>1 DEF Begun
      <4>3. LongestPrefix(spelled) = [name |-> Best(spelled), key |-> b, rest |-> Drop(b, spelled)]
        BY <4>1, <4>2, BegunIsFound
      <4>4. LongestPrefix(spelled) # NoMatch
        BY <4>3, MatchIsAMatch
      <4>5. match = LongestPrefix(spelled)
        BY <2>4, <2>6, <3>2, <4>4 DEF match, Canonicalise
      <4>6. QED
        BY <4>3, <4>5 DEF Reading
    <3>3. QED
      BY <3>1, <3>2
  <2>9. QED
    BY <1>3, <2>5, <2>8 DEF first, match
<1>4. QED
  BY <1>1, <1>2, <1>3

\* Trimming a text, from its first word to its last, leaves a text.
LEMMA TrimmedIsText ==
  ASSUME NEW text \in Seq(Words)
  PROVE  Trim(text) \in Seq(Words)
<1> DEFINE filled == {i \in DOMAIN text : text[i] # Gap}
<1>1. Len(text) \in Nat /\ DOMAIN text = 1..Len(text)
  BY LenProperties
<1>2. CASE filled = {}
  BY <1>2 DEF Trim
<1>3. CASE filled # {}
  <2>1. filled \in SUBSET Nat
    BY <1>1
  <2>2. Min(filled) \in filled
    <3>1. PICK m \in filled : \A y \in filled : m <= y
      BY <1>3, <2>1, LeastNatural
    <3> HIDE DEF filled
    <3>2. QED
      BY <3>1 DEF Min
  <2>3. Max(filled) \in filled
    <3> DEFINE T == {Len(text) - i : i \in filled}
    <3>1. T \in SUBSET Nat /\ T # {}
      BY <1>1, <1>3
    <3>2. PICK x \in T : \A y \in T : x <= y
      BY <3>1, LeastNatural
    <3>3. PICK m \in filled : x = Len(text) - m
      BY <3>2
    <3>4. \A y \in filled : Len(text) - m <= Len(text) - y
      BY <3>2, <3>3
    <3>5. \A y \in filled : m >= y
      BY <1>1, <2>1, <3>4
    <3> HIDE DEF filled
    <3>6. QED
      BY <3>5 DEF Max
  <2>4. Min(filled) \in 1..Len(text) /\ Max(filled) \in 1..Len(text)
    BY <1>1, <2>2, <2>3
  <2> DEFINE a == Min(filled)
             b == Max(filled)
  <2>5. Trim(text) = SubSeq(text, a, b)
    BY <1>3 DEF Trim
  <2> HIDE DEF a, b
  <2>6. a \in 1..Len(text) /\ b \in 1..Len(text)
    BY <2>4 DEF a, b
  <2>7. \A i \in a..b : text[i] \in Words
    BY <1>1, <2>6, ElementOfSeq
  <2>8. SubSeq(text, a, b) \in Seq(Words)
    BY <1>1, <2>6, <2>7, SubSeqProperties
  <2>9. QED
    BY <2>5, <2>8
<1>4. QED
  BY <1>2, <1>3

\* Greedy matching with a second pass finds the command a text means, for any set of
\* definitions with tidy keys, any text of any length and a matcher of any age.
LEMMA MatchIsTheMeaning ==
  ASSUME MatcherInv, Tidy, NEW text \in Seq(Words)
  PROVE  TryMatch(text) = Meaning(Trim(text))
<1> DEFINE t == Trim(text)
           first == LongestPrefix(t)
           match == Canonicalise(first)
<1>1. t \in Seq(Words)
  BY TrimmedIsText
<1>2. TryMatch(text) =
        IF t = << >> \/ t[1] \notin SlashWords \/ first = NoMatch THEN NoMatch
        ELSE [name |-> match.name, args |-> Arguments(match.rest)]
  BY DEF TryMatch
<1>3. CASE t = << >> \/ t[1] \notin SlashWords
  BY <1>2, <1>3, MeaningByParts
<1>4. CASE t # << >> /\ t[1] \in SlashWords
  <2>1. IF first = NoMatch THEN Begun(t) = {} /\ Abbreviated(t) = {}
        ELSE [name |-> match.name, args |-> Arguments(match.rest)]
               = IF Begun(t) # {} THEN Reading(t)
                 ELSE Reading(definitions[CHOOSE n \in Abbreviated(t) : TRUE].command \o Tail(t))
    BY <1>1, <1>4, PassesFindTheMeaning
  <2>2. first # NoMatch => Begun(t) # {} \/ Abbreviated(t) # {}
    <3>1. CASE Begun(t) = {} /\ Abbreviated(t) = {}
      BY <1>1, <1>4, <3>1, OnlyAliasesAreFound, LongestPrefixOfFound
    <3>2. QED
      BY <3>1
  <2> HIDE DEF t, first, match
  <2>3. QED
    BY <1>2, <1>4, <2>1, <2>2, MeaningByParts DEF t
<1>5. QED
  BY <1>3, <1>4

\* In every reachable state, matching a text finds the command it means.
THEOREM MatchingIsRight == Spec => []MatchIsMeaning
<1>1. MatcherInv => MatchIsMeaning
  <2> SUFFICES ASSUME MatcherInv, Tidy, NEW text \in Texts
               PROVE  TryMatch(text) = Meaning(Trim(text))
    BY DEF MatchIsMeaning
  <2>1. text \in Seq(Words)
    BY CommandsAssumption DEF Texts, BoundedSeq, SeqOf
  <2>2. QED
    BY <2>1, MatchIsTheMeaning
<1>2. QED
  BY <1>1, MatcherHolds, PTL
-----------------------------------------------------------------------------
(***************************************************************************)
(* The menu.  The word of an entry is a key of the definition it names.    *)
(***************************************************************************)
\* No words, no arguments.
LEMMA NoArguments == Arguments(<< >>) = << >>
<1> DEFINE Step(f, i) ==
             IF i = 0 THEN << >>
             ELSE IF << >>[i] = Gap THEN f[i - 1] ELSE Append(f[i - 1], << >>[i])
           words == CHOOSE f : f = [i \in 0..Len(<< >>) |-> Step(f, i)]
           none == [i \in 0..0 |-> << >>]
<1>1. Len(<< >>) = 0
  OBVIOUS
<1>2. none = [i \in 0..Len(<< >>) |-> Step(none, i)]
  BY <1>1
<1>3. words = [i \in 0..Len(<< >>) |-> Step(words, i)]
  BY <1>2
<1>4. words[0] = << >>
  BY <1>1, <1>3
<1>5. Arguments(<< >>) = words[0]
  BY <1>1 DEF Arguments
<1>6. QED
  BY <1>4, <1>5

\* A text of one word that is no gap is trimmed already.
LEMMA OneWordIsTrimmed ==
  ASSUME NEW w \in Words, w # Gap
  PROVE  Trim(<<w>>) = <<w>>
<1> DEFINE filled == {i \in DOMAIN <<w>> : <<w>>[i] # Gap}
<1>1. filled = {1}
  OBVIOUS
<1>2. Min({1}) = 1 /\ Max({1}) = 1
  BY DEF Min, Max
<1>3. Trim(<<w>>) = SubSeq(<<w>>, 1, 1)
  BY <1>1, <1>2 DEF Trim
<1>4. <<w>> \in Seq(Words) /\ Len(<<w>>) = 1
  OBVIOUS
<1>5. QED
  BY <1>3, <1>4, SubSeqFull

\* An entry is a key of one word of the definition it names: its command, or an alias
\* of a command of several words.
LEMMA EntriesAreKeys ==
  ASSUME MatcherInv, NEW e \in BotCommandList
  PROVE  /\ e.name \in DOMAIN definitions
         /\ \/ <<e.word>> = definitions[e.name].command
            \/ /\ <<e.word>> \in definitions[e.name].aliases
               /\ Len(definitions[e.name].command) # 1
<1>1. \A k \in Trigger : Len(k) = 1 => k = <<k[1]>>
  BY TriggersAreTexts
<1>2. CASE e \in OwnEntries
  <2>1. PICK n \in DOMAIN definitions : e \in Entries({definitions[n].command}, n)
    BY <1>2 DEF OwnEntries
  <2>2. e = [word |-> definitions[n].command[1], name |-> n] /\ Len(definitions[n].command) = 1
    BY <2>1 DEF Entries
  <2>3. definitions[n].command \in Trigger
    BY KeysAreTriggers DEF MatcherInv
  <2>4. QED
    BY <1>1, <2>2, <2>3
<1>3. CASE e \in AliasEntries
  <2>1. PICK n \in DOMAIN definitions : /\ e \in Entries(definitions[n].aliases, n)
                                        /\ Len(definitions[n].command) # 1
    <3>1. ASSUME NEW m \in DOMAIN definitions, Len(definitions[m].command) > 1
          PROVE  Len(definitions[m].command) # 1
      <4> DEFINE length == Len(definitions[m].command)
      <4> HIDE DEF length
      <4>1. length \in Nat /\ length > 1
        BY <3>1, KeysAreTriggers, TriggersAreTexts DEF MatcherInv, length
      <4>2. length # 1
        BY <4>1
      <4>3. QED
        BY <4>2 DEF length
    <3>2. QED
      BY <1>3, <3>1 DEF AliasEntries
  <2>2. PICK k \in definitions[n].aliases : e = [word |-> k[1], name |-> n] /\ Len(k) = 1
    BY <2>1 DEF Entries
  <2>3. k \in Trigger
    BY KeysAreTriggers DEF MatcherInv, Keys
  <2>4. QED
    BY <1>1, <2>1, <2>2, <2>3
<1>4. QED
  BY <1>2, <1>3 DEF BotCommandList

\* The row of a definition whose command is one word.
LEMMA OwnEntryOf ==
  ASSUME MatcherInv, NEW n \in DOMAIN definitions, Len(definitions[n].command) = 1
  PROVE  \E e \in BotCommandList : <<e.word>> = definitions[n].command
<1> DEFINE e == [word |-> definitions[n].command[1], name |-> n]
<1>1. e \in BotCommandList
  BY DEF BotCommandList, OwnEntries, Entries
<1>2. definitions[n].command \in Trigger
  BY KeysAreTriggers DEF MatcherInv
<1>3. definitions[n].command = <<definitions[n].command[1]>>
  BY <1>2, TriggersAreTexts
<1>4. QED
  BY <1>1, <1>3

\* What a word runs is in the menu: under its command if that is one word; else under
\* the word, as its alias or as the command of another definition.
LEMMA MenuIsComplete ==
  ASSUME MatcherInv, NEW w, <<w>> \in DOMAIN lookup
  PROVE  \E e \in BotCommandList :
           e.word = w \/ <<e.word>> = definitions[lookup[<<w>>]].command
<1> USE DEF MatcherInv
<1> DEFINE n == lookup[<<w>>]
<1>1. n \in DOMAIN definitions /\ <<w>> \in Keys(definitions[n])
  BY DEF LookupResolves
<1>2. CASE Len(definitions[n].command) = 1
  BY <1>1, <1>2, OwnEntryOf
<1>3. CASE Len(definitions[n].command) # 1
  <2> DEFINE e == [word |-> w, name |-> n]
  <2>1. <<w>> \in definitions[n].aliases
    BY <1>1, <1>3 DEF Keys
  <2>2. e \in AliasEntries
    <3> DEFINE length == Len(definitions[n].command)
    <3>1. definitions[n].command \in Trigger
      BY <1>1, KeysAreTriggers
    <3>2. length \in Nat \ {0}
      BY <3>1, TriggersAreTexts
    <3>3. length # 1
      BY <1>3
    <3> HIDE DEF length
    <3>4. length > 1
      BY <3>2, <3>3
    <3>5. Len(<<w>>) = 1 /\ <<w>>[1] = w
      OBVIOUS
    <3>6. e \in Entries(definitions[n].aliases, n)
      BY <2>1, <3>5 DEF Entries
    <3>7. QED
      BY <1>1, <3>4, <3>6 DEF AliasEntries, length
  <2>3. CASE \A own \in OwnEntries : own.word # e.word
    BY <2>2, <2>3 DEF BotCommandList
  <2>4. CASE \E own \in OwnEntries : own.word = e.word
    BY <2>4 DEF BotCommandList
  <2>5. QED
    BY <2>3, <2>4
<1>4. QED
  BY <1>2, <1>3

\* A key leads to the definition that claimed it last: a registration comes last and
\* takes every key it claims, and definitions are never replaced.
LastClaimantHasKey ==
  /\ \A i \in DOMAIN order : order[i] \in DOMAIN definitions
  /\ \A k \in DOMAIN lookup : LastToClaim(lookup[k], k)

LEMMA LastClaimIsInductive ==
  TypeOK /\ LastClaimantHasKey /\ [Next]_vars => LastClaimantHasKey'
<1> SUFFICES ASSUME TypeOK, LastClaimantHasKey, [Next]_vars PROVE LastClaimantHasKey'
  OBVIOUS
<1>1. ASSUME NEW d \in Definitions, Register(d) PROVE LastClaimantHasKey'
  <2> DEFINE last == Len(order) + 1
  <2>1. /\ d.name \notin DOMAIN definitions
        /\ DOMAIN definitions' = DOMAIN definitions \cup {d.name}
        /\ definitions'[d.name] = d
        /\ \A m \in DOMAIN definitions : definitions'[m] = definitions[m]
    BY <1>1 DEF Register, Insert
  <2>2. /\ DOMAIN lookup' = DOMAIN lookup \cup Keys(d)
        /\ \A k \in Keys(d) : lookup'[k] = d.name
        /\ \A k \in DOMAIN lookup \ Keys(d) : lookup'[k] = lookup[k]
    BY <1>1 DEF Register, Insert
  <2>3. /\ Len(order) \in Nat /\ DOMAIN order = 1..Len(order)
        /\ DOMAIN order' = 1..last
        /\ order'[last] = d.name
        /\ \A i \in DOMAIN order : order'[i] = order[i]
    <3>1. order \in Seq(Names) /\ d.name \in Names /\ order' = Append(order, d.name)
      BY <1>1 DEF Register, Insert, TypeOK, Names
    <3>2. QED
      BY <3>1, AppendProperties, LenProperties
  <2> HIDE DEF last
  <2>4. last \in Nat /\ \A i \in DOMAIN order' : i \in DOMAIN order \/ i = last
    BY <2>3 DEF last
  <2>5. \A i \in DOMAIN order : i \in DOMAIN order' /\ i < last
    BY <2>3 DEF last
  <2>6. \A i \in DOMAIN order' : order'[i] \in DOMAIN definitions'
    BY <2>1, <2>3, <2>4 DEF LastClaimantHasKey
  <2>7. ASSUME NEW k \in DOMAIN lookup' PROVE LastToClaim(lookup[k], k)'
    <3>1. CASE k \in Keys(d)
      <4>1. last \in DOMAIN order' /\ order'[last] = lookup'[k]
        BY <2>2, <2>3, <2>4, <3>1 DEF last
      <4>2. k \in Keys(definitions'[lookup'[k]])
        BY <2>1, <2>2, <3>1
      <4>3. \A j \in DOMAIN order' : ~ (j > last)
        BY <2>3, <2>4
      <4>4. QED
        BY <4>1, <4>2, <4>3 DEF LastToClaim, Keys
    <3>2. CASE k \notin Keys(d)
      <4>1. k \in DOMAIN lookup /\ lookup'[k] = lookup[k]
        BY <2>2, <3>2
      <4>2. LastToClaim(lookup[k], k)
        BY <4>1 DEF LastClaimantHasKey
      <4>3. PICK i \in DOMAIN order :
              /\ order[i] = lookup[k] /\ k \in Keys(definitions[lookup[k]])
              /\ \A j \in DOMAIN order : j > i => k \notin Keys(definitions[order[j]])
        BY <4>2 DEF LastToClaim
      <4>4. lookup[k] \in DOMAIN definitions
        BY <4>3 DEF LastClaimantHasKey
      <4>5. k \in Keys(definitions'[lookup'[k]])
        BY <2>1, <4>1, <4>3, <4>4
      <4>6. ASSUME NEW j \in DOMAIN order', j > i
            PROVE  k \notin Keys(definitions'[order'[j]])
        <5>1. CASE j \in DOMAIN order
          BY <2>1, <2>3, <4>3, <4>6, <5>1 DEF LastClaimantHasKey
        <5>2. CASE j = last
          BY <2>1, <2>3, <3>2, <5>2
        <5>3. QED
          BY <2>4, <5>1, <5>2
      <4>7. i \in DOMAIN order' /\ order'[i] = lookup'[k]
        BY <2>3, <2>5, <4>1, <4>3
      <4>8. QED
        BY <4>5, <4>6, <4>7 DEF LastToClaim, Keys
    <3>3. QED
      BY <3>1, <3>2
  <2>8. QED
    BY <2>6, <2>7 DEF LastClaimantHasKey
<1>2. CASE FromRegistry
  BY <1>2 DEF FromRegistry, LastClaimantHasKey, LastToClaim
<1>3. CASE UNCHANGED vars
  BY <1>3 DEF vars, LastClaimantHasKey, LastToClaim
<1>4. QED
  BY <1>1, <1>2, <1>3 DEF Next

\* It holds in every reachable state.
LEMMA LastClaimHolds == Spec => []LastClaimantHasKey
<1>1. Init => LastClaimantHasKey
  BY DEF Init, LastClaimantHasKey, Nothing
<1>2. QED
  BY <1>1, TypeCorrect, LastClaimIsInductive, PTL DEF Spec

\* Typing one word that the matcher knows runs what the word leads to: no longer key
\* fits, and with nothing after it there is no second pass.
LEMMA OneWordRuns ==
  ASSUME MatcherInv, NEW w \in SlashWords, <<w>> \in sorted_commands
  PROVE  TryMatch(<<w>>) = [name |-> lookup[<<w>>], args |-> << >>]
<1> USE DEF MatcherInv
<1> DEFINE t == <<w>>
           first == LongestPrefix(t)
<1>1. t \in Seq(Words) /\ t # << >> /\ t[1] = w /\ Len(t) = 1 /\ Trim(t) = t
  BY OneWordIsTrimmed, CommandsAssumption
<1>2. Found(t) = {t}
  <2>1. t \in Found(t)
    <3>1. IsPrefix(t, t)
      BY <1>1, FirstWordIsPrefix
    <3>2. QED
      BY <3>1 DEF Found, LookupResolves
  <2>2. ASSUME NEW k \in Found(t) PROVE k = t
    <3>1. k \in Seq(Words) /\ Len(k) \in Nat \ {0} /\ IsPrefix(k, t)
      BY KeysAreTriggers, TriggersAreTexts DEF Found
    <3>2. Len(k) = 1
      BY <1>1, <3>1 DEF IsPrefix
    <3>3. QED
      BY <1>1, <3>1, <3>2, PrefixOfOneWord
  <2>3. QED
    BY <2>1, <2>2
<1>3. Longest(Found(t)) = t
  <2>1. Longest(Found(t)) \in Found(t)
    <3>1. Found(t) \in SUBSET Seq(Words) /\ Found(t) # {} /\ \A k \in Found(t) : IsPrefix(k, t)
      BY <1>1, <1>2 DEF Found
    <3>2. QED
      BY <1>1, <3>1, LongestIsLongest
  <2>2. QED
    BY <1>2, <2>1
<1>4. Drop(t, t) = << >>
  BY <1>1, SubSeqProperties DEF Drop
<1>5. first = [name |-> lookup[t], key |-> t, rest |-> << >>]
  BY <1>2, <1>3, <1>4, LongestPrefixOfFound
<1>6. first # NoMatch
  BY <1>5, MatchIsAMatch
<1>7. Canonicalise(first) = first
  BY <1>5 DEF Canonicalise
<1>8. QED
  BY <1>1, <1>5, <1>6, <1>7, NoArguments DEF TryMatch

\* Whatever keys collide: an entry describes a definition that claims its word, tapping
\* it runs the last that claimed the word, and what a word runs is in the menu.
THEOREM MenuIsRight == Spec => []MenuReachesCommands
<1>1. MatcherInv /\ LastClaimantHasKey => MenuReachesCommands
  <2> SUFFICES ASSUME MatcherInv, LastClaimantHasKey PROVE MenuReachesCommands
    OBVIOUS
  <2>1. ASSUME NEW e \in BotCommandList, e.word \in SlashWords
        PROVE  /\ <<e.word>> \in Keys(definitions[e.name])
               /\ <<e.word>> \in sorted_commands => RunsLastClaimant(e.word)
    <3>1. <<e.word>> \in Keys(definitions[e.name])
      BY EntriesAreKeys DEF Keys
    <3>2. ASSUME <<e.word>> \in sorted_commands PROVE RunsLastClaimant(e.word)
      <4>1. /\ <<e.word>> \in DOMAIN lookup
            /\ lookup[<<e.word>>] \in DOMAIN definitions
        BY <3>2 DEF MatcherInv, LookupResolves
      <4>2. LastToClaim(lookup[<<e.word>>], <<e.word>>)
        BY <4>1 DEF LastClaimantHasKey
      <4>3. TryMatch(<<e.word>>) = [name |-> lookup[<<e.word>>], args |-> << >>]
        BY <2>1, <3>2, OneWordRuns
      <4>4. QED
        BY <4>1, <4>2, <4>3 DEF RunsLastClaimant
    <3>3. QED
      BY <3>1, <3>2
  <2>2. QED
    BY <2>1, MenuIsComplete DEF MenuReachesCommands
<1>2. QED
  BY <1>1, MatcherHolds, LastClaimHolds, PTL
==============================================================================
