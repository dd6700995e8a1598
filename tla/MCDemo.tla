-------------------------------- MODULE MCDemo --------------------------------
(* Families of machines, each varying one thing: the scenario and the listed  *)
(* accounts, the commands, the lines of a file, the files of two directories, *)
(* what an entry is visible for, and the account sources.                     *)
EXTENDS DemoLogin

a == <<"a">>
b == <<"b">>
HN == <<"HN">>
App == Pair("Type", <<"Application">>)
Exec == Pair("Exec", <<"x">>)
Entry(name, rest) == <<Group("Desktop Entry"), App, Pair("Name", name)>> \o rest
Plain(name) == Entry(name, <<Exec>>)

Base ==
  [scenario |-> "default", profile |-> "single", default |-> 1, written |-> <<>>,
   directories |-> <<1 :> Plain(a)>>, include |-> {}, exclude |-> {},
   desktops |-> {HN}, programs |-> {<<"found">>},
   process |-> <<"me">>, cached |-> <<>>, passwd |-> <<>>, shadow |-> {},
   includeUsers |-> {}, excludeUsers |-> {}, minUid |-> 1, maxUid |-> 2]

OneFile(file) == [Base EXCEPT !.directories = <<1 :> file>>]

ScriptMachines ==
  {[Base EXCEPT !.scenario = s, !.profile = p, !.directories = <<1 :> Plain(a) @@ 2 :> Plain(b)>>] :
     s \in Scenarios, p \in {"single", "multiple"}}

\* Argument vectors of one or two arguments of one or two characters, in
\* entries whose name has a blank and a percent sign.
Arguments == {<<c>> : c \in {"a", " ", "$", Quote, Backslash, "%", "%c"}}
             \cup {<<c, d>> : c, d \in {"a", " ", "$", Quote, Backslash, "%", "%c"}}
CommandMachines ==
  {[OneFile(Entry(<<"n", " ", "%">>, <<Pair("Exec", WrittenExec(w))>>)) EXCEPT !.written = w] :
     w \in {<<x>> : x \in Arguments} \cup {<<x, y>> : x, y \in Arguments}}

\* Commands as they may be found: quotes and field codes in any place.
RawExec == UNION {[1..n -> {"a", " ", Quote, Backslash, "%", "i"}] : n \in 1..3}
RawMachines == {OneFile(Entry(a, <<Pair("Exec", e), Pair("Icon", <<"icon">>)>>)) : e \in RawExec}

Lines == {Group("Desktop Entry"), Group("Other"), Pair("Name", a), Pair("Name", b),
          Pair("Unknown", a), Pair("Hidden", <<"true">>), Pair("Icon", <<Backslash, "q">>),
          NoPair, Comment}
LineMachines ==
  {OneFile(<<Group("Desktop Entry"), App, Exec>> \o ls) : ls \in UNION {[1..n -> Lines] : n \in 0..3}}

Files == {<<>>, Plain(a), Plain(b), Entry(a, <<Exec, Pair("Hidden", <<"true">>)>>), Entry(a, <<Exec, Exec>>)}
Directory == UNION {[ids -> Files] : ids \in SUBSET {1, 2}}
DirectoryMachines ==
  {[Base EXCEPT !.directories = <<d, e>>, !.include = i[1], !.exclude = i[2]] :
     d, e \in Directory, i \in {<<{}, {}>>, <<{1}, {}>>, <<{}, {1}>>, <<{1, 2}, {2}>>}}

Desktops == {<<>>, <<"HN">>, <<"KDE">>, <<"KDE", ";", "HN">>, <<"HN", ";">>,
             <<"HN", Backslash, ";", "KDE">>}
VisibleMachines ==
  {[OneFile(Entry(a, <<Exec, Pair("OnlyShowIn", o), Pair("NotShowIn", n), Pair("TryExec", t)>>))
      EXCEPT !.desktops = d] :
     o, n \in Desktops, t \in {<<>>, <<"found">>, <<"missing">>},
     d \in {{}, {HN}, {HN, <<"KDE">>}}}

AccountMachines ==
  {[Base EXCEPT !.profile = "system",
      !.cached = [n \in {c \in {a, b} : cache[c] # "absent"} |->
                    [uid |-> 1, display |-> n, locked |-> cache[n] = "locked"]],
      !.passwd = [n \in {a, b} |-> [uid |-> uid[n], display |-> a]],
      !.shadow = s, !.includeUsers = i, !.excludeUsers = e] :
     cache \in [{a, b} -> {"absent", "open", "locked"}], uid \in [{a, b} -> {0, 1, 3}],
     s \in SUBSET {a, b}, i \in {{}, {a}, {b, <<"nobody">>}}, e \in {{}, {a}}}

MCMachines == ScriptMachines \cup CommandMachines \cup RawMachines \cup LineMachines
              \cup DirectoryMachines \cup VisibleMachines \cup AccountMachines

Ranks == << <<>>, a, b, <<"n", " ", "%">>, <<"alice">>, <<"bob">>, <<"charlie">> >>
MCCollation == [t \in ToSet(Ranks) |-> CHOOSE i \in DOMAIN Ranks : Ranks[i] = t]
MCCodeOrder == MCCollation
=============================================================================
