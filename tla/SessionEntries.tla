---------------------------- MODULE SessionEntries ----------------------------
(***************************************************************************)
(* Session discovery (src/src/desktopentry.cpp): which desktop entries are   *)
(* offered as sessions, in which order, and the command each one runs.      *)
(*                                                                          *)
(* Text is a sequence of characters.  A character that means something to   *)
(* the code is itself ("%", ";", a quote, a backslash, white space);        *)
(* any other token, up to a whole word such as "Application", stands for     *)
(* text that is only compared or passed on.  A file is a sequence of lines, *)
(* a directory a function from the identifiers of its *.desktop files,      *)
(* which are numbers in the order of their names; a file that cannot be     *)
(* read has no lines.                                                       *)
(***************************************************************************)
EXTENDS SequencesExt

CONSTANT Collation  \* QString::localeAwareCompare: the rank of each text it orders

Quote == "\""
Backslash == "\\"
Spaces == {" ", "\t", "\n", "\r"}

\* The elements of a set, sorted by a total order.
InOrder(S, Before(_, _)) ==
  [i \in 1..Cardinality(S) |-> CHOOSE x \in S : Cardinality({y \in S : Before(y, x)}) = i - 1]

Group(name) == [kind |-> "group", name |-> name, value |-> <<>>]
Pair(key, value) == [kind |-> "pair", name |-> key, value |-> value]
NoPair == [kind |-> "other", name |-> "", value |-> <<>>]   \* no "=" in it
Comment == [kind |-> "comment", name |-> "", value |-> <<>>] \* or an empty line

\* A file has only such lines.
IsFile(file) ==
  /\ file \in Seq(ToSet(file))
  /\ \A l \in ToSet(file) : l \in {Group(l.name), Pair(l.name, l.value), NoPair, Comment}

StringKeys == {"Type", "Name", "Exec", "TryExec", "Icon", "Hidden", "NoDisplay"}
ListKeys == {"OnlyShowIn", "NotShowIn"}

-----------------------------------------------------------------------------
(* The value of a key: decodeDesktopValue(). *)

Escapes == [c \in {"s", "n", "t", "r", Backslash} |->
              CASE c = "s" -> " " [] c = "n" -> "\n" [] c = "t" -> "\t" [] c = "r" -> "\r"
                [] c = Backslash -> Backslash]

DecodeChar(list, d, c) ==
  IF d.escape
  THEN LET e == [d EXCEPT !.escape = FALSE]
       IN CASE c \in DOMAIN Escapes -> [e EXCEPT !.word = Append(@, Escapes[c])]
            [] c = ";" /\ list -> [e EXCEPT !.word = Append(@, c)]
            [] OTHER -> [e EXCEPT !.bad = TRUE]
  ELSE CASE c = Backslash -> [d EXCEPT !.escape = TRUE]
         [] c = ";" /\ list -> [d EXCEPT !.words = Append(@, d.word), !.word = <<>>]
         [] OTHER -> [d EXCEPT !.word = Append(@, c)]

\* The characters of a text, one after the other.
DecodeText(list, start, text) ==
  LET d[i \in 0..Len(text)] == IF i = 0 THEN start ELSE DecodeChar(list, d[i - 1], text[i])
  IN d[Len(text)]

Decode(value, list) ==
  LET d == DecodeText(list, [words |-> <<>>, word |-> <<>>, escape |-> FALSE, bad |-> FALSE], value)
  IN [bad |-> d.bad \/ d.escape,
      words |-> IF ~list \/ d.word # <<>> THEN Append(d.words, d.word) ELSE d.words]

-----------------------------------------------------------------------------
(* The entry of a file: readDesktopEntry() and appendDesktopValue(). *)

NoEntry == <<>>

\* An entry with one more key.
With(entry, key, words) ==
  [k \in DOMAIN entry \cup {key} |-> IF k = key THEN words ELSE entry[k]]

\* A key of the entry is given a value, once.
AppendValue(r, line) ==
  LET d == Decode(line.value, line.name \in ListKeys)
  IN IF line.name \in DOMAIN r.entry \/ d.bad THEN [r EXCEPT !.bad = TRUE]
     ELSE [r EXCEPT !.entry = With(@, line.name, d.words)]

ReadLine(r, line) ==
  CASE line.kind = "comment" -> r
    [] line.kind = "group" ->
         LET here == line.name = "Desktop Entry"
         IN [r EXCEPT !.inside = here, !.found = @ \/ here, !.bad = @ \/ (here /\ r.found)]
    [] line.kind \in {"pair", "other"} /\ ~r.inside -> r
    [] line.kind = "other" /\ r.inside -> [r EXCEPT !.bad = TRUE]
    [] line.kind = "pair" /\ r.inside ->
         IF line.name \in StringKeys \cup ListKeys THEN AppendValue(r, line) ELSE r

ReadEntry(file) ==
  LET read[i \in 0..Len(file)] ==
        IF i = 0 THEN [inside |-> FALSE, found |-> FALSE, bad |-> FALSE, entry |-> NoEntry]
        ELSE ReadLine(read[i - 1], file[i])
      r == read[Len(file)]
  IN IF r.bad THEN NoEntry ELSE r.entry

Words(entry, key) == IF key \in DOMAIN entry THEN entry[key] ELSE <<>>
Text(entry, key) == IF Words(entry, key) = <<>> THEN <<>> ELSE Head(Words(entry, key))

-----------------------------------------------------------------------------
(* The command of an entry: parseDesktopExec() and expandExecWords(). *)

EndWord(s) == IF s.word = <<>> THEN s
              ELSE [s EXCEPT !.words = Append(@, s.word), !.word = <<>>]

\* Mutant: a quote is a quote, escaped or not.
SplitQuotesFirst(s, c) ==
  IF c = Quote THEN [s EXCEPT !.quoted = ~@, !.escaped = FALSE]
  ELSE IF s.escaped THEN [s EXCEPT !.word = Append(@, c), !.escaped = FALSE]
  ELSE CASE c = Backslash -> [s EXCEPT !.escaped = TRUE]
         [] c \in Spaces /\ ~s.quoted -> EndWord(s)
         [] OTHER -> [s EXCEPT !.word = Append(@, c)]

SplitChar(s, c) ==
  IF s.escaped THEN [s EXCEPT !.word = Append(@, c), !.escaped = FALSE]
  ELSE CASE c = Backslash -> [s EXCEPT !.escaped = TRUE]
         [] c = Quote -> [s EXCEPT !.quoted = ~@]
         [] c \in Spaces /\ ~s.quoted -> EndWord(s)
         [] OTHER -> [s EXCEPT !.word = Append(@, c)]

SplitText(start, text) ==
  LET s[i \in 0..Len(text)] == IF i = 0 THEN start ELSE SplitChar(s[i - 1], text[i])
  IN s[Len(text)]

\* What the character after "%" adds to the word.
Expansion(code, name, file) ==
  CASE code = "%" -> <<"%">>
    [] code = "c" -> name
    [] code = "k" -> file
    [] OTHER -> <<>>

ExpandChar(name, file, e, c) ==
  IF e.code
  THEN LET d == [e EXCEPT !.code = FALSE]
       IN CASE c \in {"%", "c", "k", "f", "F", "u", "U"} ->
                 [d EXCEPT !.out = @ \o Expansion(c, name, file)]
            [] c = "i" /\ e.token = <<"%", "i">> -> d
            [] OTHER -> [d EXCEPT !.bad = TRUE]
  ELSE IF c = "%" THEN [e EXCEPT !.code = TRUE] ELSE [e EXCEPT !.out = Append(@, c)]

ExpandText(name, file, start, text) ==
  LET e[i \in 0..Len(text)] == IF i = 0 THEN start ELSE ExpandChar(name, file, e[i - 1], text[i])
  IN e[Len(text)]

\* The arguments one word expands to.
ExpandWord(word, name, file, icon) ==
  LET start == [token |-> word, out |-> <<>>, code |-> FALSE, bad |-> FALSE]
      e == ExpandText(name, file, start, word)
  IN [bad |-> e.bad \/ e.code,
      arguments |-> IF word = <<"%", "i">> /\ icon # <<>> THEN << <<"--icon">>, icon >>
                    ELSE IF e.out # <<>> THEN <<e.out>> ELSE <<>>]

\* The argument vector, empty when the entry runs nothing.
ParseExec(exec, name, file, icon) ==
  LET s == EndWord(SplitText([words |-> <<>>, word |-> <<>>, quoted |-> FALSE, escaped |-> FALSE],
                             exec))
      expanded == [i \in DOMAIN s.words |-> ExpandWord(s.words[i], name, file, icon)]
  IN IF s.quoted \/ s.escaped \/ \E i \in DOMAIN expanded : expanded[i].bad THEN <<>>
     ELSE FlattenSeq([i \in DOMAIN expanded |-> expanded[i].arguments])

-----------------------------------------------------------------------------
(* The sessions: discoverSessions().  m is the machine: its directories in   *)
(* order, the include and exclude lists (an empty include list includes      *)
(* all), the desktops of XDG_CURRENT_DESKTOP and the programs in the path.   *)

Filtered(m, id) == (m.include # {} /\ id \notin m.include) \/ id \in m.exclude

VisibleForDesktop(m, entry) ==
  /\ Words(entry, "OnlyShowIn") # <<>> =>
       \E desktop \in m.desktops : desktop \in ToSet(Words(entry, "OnlyShowIn"))
  /\ \A desktop \in m.desktops : desktop \notin ToSet(Words(entry, "NotShowIn"))

\* A session that is to be offered, if it runs anything.
Offerable(m, entry) ==
  /\ Text(entry, "Type") = <<"Application">>
  /\ Text(entry, "Hidden") # <<"true">> /\ Text(entry, "NoDisplay") # <<"true">>
  /\ VisibleForDesktop(m, entry)
  /\ Text(entry, "Name") # <<>>
  /\ Text(entry, "TryExec") = <<>> \/ Text(entry, "TryExec") \in m.programs

\* The command of a file that is a session to offer, else empty.
Command(m, entry) ==
  IF Offerable(m, entry)
  THEN ParseExec(Text(entry, "Exec"), Text(entry, "Name"), <<"path">>, Text(entry, "Icon"))
  ELSE <<>>

\* Mutant: an identifier counts as seen only when its entry is offered.
VisitOffered(m, dir, acc, id) ==
  LET entry == ReadEntry(dir[id])
      command == Command(m, entry)
  IN IF id \in acc.seen \/ Filtered(m, id) \/ command = <<>> THEN acc
     ELSE [seen |-> acc.seen \cup {id},
           found |-> acc.found \cup {[id |-> id, name |-> Text(entry, "Name"),
                                     command |-> command]}]

\* One file of one directory: an identifier that was seen before is masked,
\* whatever became of it.
Visit(m, dir, acc, id) ==
  LET entry == ReadEntry(dir[id])
      command == Command(m, entry)
  IN IF id \in acc.seen THEN acc
     ELSE [seen |-> acc.seen \cup {id},
           found |-> IF Filtered(m, id) \/ command = <<>> THEN acc.found
                     ELSE acc.found \cup {[id |-> id, name |-> Text(entry, "Name"),
                                          command |-> command]}]

ByNameThenId(l, r) ==
  \/ Collation[l.name] < Collation[r.name]
  \/ Collation[l.name] = Collation[r.name] /\ l.id < r.id

\* The files of a directory, by name.
EntryList(dir) == InOrder(DOMAIN dir, LAMBDA i, j : i < j)

\* One directory.
VisitAll(m, dir, acc) ==
  LET files == EntryList(dir)
      visited[i \in 0..Len(files)] ==
        IF i = 0 THEN acc ELSE Visit(m, dir, visited[i - 1], files[i])
  IN visited[Len(files)]

\* All directories, and the sessions in order, which settles the order of what
\* was found: no two have the same identifier.
DiscoverSessions(m) ==
  LET walk[d \in 0..Len(m.directories)] ==
        IF d = 0 THEN [seen |-> {}, found |-> {}]
        ELSE VisitAll(m, m.directories[d], walk[d - 1])
  IN InOrder(walk[Len(m.directories)].found, ByNameThenId)

-----------------------------------------------------------------------------
(* What the code is compared with: a file read by its positions, and a        *)
(* command written by the rules of the desktop entry specification.           *)

Headers(file) == {i \in DOMAIN file : file[i] = Group("Desktop Entry")}
InEntry(file) ==
  {i \in DOMAIN file : file[i].kind \in {"pair", "other"} /\
     \E h \in Headers(file) : h < i /\ \A j \in h + 1..i : file[j].kind # "group"}
Given(file, key) == {i \in InEntry(file) : file[i] = Pair(key, file[i].value)}

\* One group, nothing in it but keys, each known key once and readable.
WellFormed(file) ==
  /\ Cardinality(Headers(file)) <= 1
  /\ \A i \in InEntry(file) : file[i].kind = "pair"
  /\ \A key \in StringKeys \cup ListKeys :
       /\ Cardinality(Given(file, key)) <= 1
       /\ \A i \in Given(file, key) : ~Decode(file[i].value, key \in ListKeys).bad

\* The values a well-formed file gives.
Said(file) ==
  [key \in {k \in StringKeys \cup ListKeys : Given(file, k) # {}} |->
     Decode(file[CHOOSE i \in Given(file, key) : TRUE].value, key \in ListKeys).words]

\* An argument is written between quotes, with "%c" for the entry's name and a
\* backslash before what is special between quotes.
Reserved == {Quote, Backslash, "backquote", "$"}
WrittenChar(c) ==
  CASE c = "%" -> <<"%", "%">>
    [] c = "%c" -> <<"%", "c">>
    [] c \in Reserved -> <<Backslash, c>>
    [] OTHER -> <<c>>
MapChars(Op(_), text) == FlattenSeq([i \in DOMAIN text |-> Op(text[i])])
WrittenArgument(a) == <<Quote>> \o MapChars(WrittenChar, a) \o <<Quote, " ">>

\* The value of Exec for an argument vector: a string, with its backslashes
\* escaped once more.
WrittenExec(arguments) ==
  MapChars(LAMBDA c : IF c = Backslash THEN <<c, c>> ELSE <<c>>,
           FlattenSeq([i \in DOMAIN arguments |-> WrittenArgument(arguments[i])]))

\* The argument vector that was meant.
Meant(arguments, name) ==
  [i \in DOMAIN arguments |->
     MapChars(LAMBDA c : IF c = "%c" THEN name ELSE <<c>>, arguments[i])]
=============================================================================
