---------------------------- MODULE NamingRules ----------------------------
(***************************************************************************)
(* The external names of a device's components: FactoryBaseImpl keeps the  *)
(* rules in force (src/factoryBaseImpl.cpp:197-346), every component joins *)
(* its parent's name, a separator and its own, shaped by a rule, when it   *)
(* is initialized, and keeps the result.                                   *)
(*                                                                         *)
(* Rules may be loaded and chosen at any time, by other threads too; a     *)
(* component reads them in one step here.  Names stay below the 1023       *)
(* characters to which the code cuts them, and a rule has at most one "%s".*)
(***************************************************************************)
EXTENDS IniFileParser

CONSTANTS
  Tokens,           \* what texts are sequences of
  Components,       \* the nodes and PVs of one device
  Order,            \* the components in the order of initialization
  Parent,           \* Parent[c], NoParent for the root
  Kind,             \* Kind[c]: its type, see Chain
  Ports,            \* the nodes that are ports
  OwnName,          \* OwnName[c]: the name it was constructed with
  Renames,          \* setExternalName: pairs of a component and a name
  Files,            \* what is loaded first: sequences of lines
  Reloads,          \* what is loaded then
  RuleNames,        \* arguments of setNamingRules
  DefaultSeparator, \* DefaultSeparator[n]: getDefaultSeparator of the control system
  Upper, Lower,     \* toupper and tolower of the words
  Means,            \* Means[l]: what line l is, by the naming rules page
  MaxLoads,         \* bound: calls of loadNamingRules
  MaxChoices,       \* bound: calls of setNamingRules
  NoParent, NoRules, Nameless

VARIABLES
  loading,    \* the lines the parser was constructed on
  rules,      \* m_namingRules
  rulesName,  \* m_namingRulesName
  inForce,    \* the lines m_namingRules was made of
  external,   \* external[c]: m_externalName
  full,       \* full[c]: m_cachedFullExternalName
  fromPort,   \* fromPort[c]: m_cahcedFullExternalNameFromPort
  ruledBy,    \* ruledBy[c]: rules and name c was initialized with
  device,     \* "new", "initializing", "ready", or how it ended
  loads, choices

ruleVars == <<loading, rules, rulesName, inForce, loads, choices>>
nameVars == <<external, full, fromPort, ruledBy, device>>
vars     == <<parserVars, ruleVars, nameVars>>

-----------------------------------------------------------------------------
(* The rules                                                                *)

NoRulesApply == rules = NoRules \/ rulesName = <<>>

\* A section that is not there: every getString throws.
MissingSection == ~NoRulesApply /\ rulesName \notin GetSections(rules)

Defined(key) == KeyExists(rules, rulesName, <<key>>)
Rule(key, default) == GetString(rules, rulesName, <<key>>, default)

SeparatorKey(level) == "separator" \o ToString(level)

\* Mutant of Separator: a level without a rule has the default separator.
Mut_SeparatorOwn(level) ==
  IF NoRulesApply THEN DefaultSeparator[level]
  ELSE Rule(SeparatorKey(level), DefaultSeparator[level])

\* getSeparator: once separator0 or separator1 is defined, a level without a
\* separator has that of the level above.
Separator(level) ==
  LET inherit == Defined("separator1") \/ Defined("separator0")
      from[n \in 0..level] ==
        Rule(SeparatorKey(n), IF inherit /\ n > 0 THEN from[n - 1] ELSE DefaultSeparator[n])
  IN IF NoRulesApply THEN DefaultSeparator[level] ELSE from[level]

\* getRootNodeName ... getDecimationPVName: the rules a type looks for, in this
\* order.
Chain == [
  root           |-> <<"rootNode", "genericNode">>,
  generic        |-> <<"genericNode">>,
  inputChannel   |-> <<"inputNode", "sourceNode", "genericNode">>,
  outputChannel  |-> <<"outputNode", "sinkNode", "genericNode">>,
  dataSource     |-> <<"sourceNode", "inputNode", "genericNode">>,
  dataSink       |-> <<"sinkNode", "outputNode", "genericNode">>,
  stateMachine   |-> <<"stateMachineNode", "genericNode">>,
  inputPV        |-> <<"inputPV", "genericPV">>,
  outputPV       |-> <<"outputPV", "genericPV">>,
  setState       |-> <<"setStatePV", "outputPV", "genericPV">>,
  getState       |-> <<"getStatePV", "inputPV", "genericPV">>,
  getGlobalState |-> <<"getGlobalStatePV", "inputPV", "genericPV">>,
  setDecimation  |-> <<"setDecimationPV", "outputPV", "genericPV">> ]

\* A node is initialized before what is below it.  Renames, cases and rules are
\* texts, and the keys of the first two separators are what getSeparator asks for.
ASSUME NamingAssumption ==
  /\ {"0", "%s", "-"} \subseteq Tokens
  /\ Order \in Seq(Components) /\ ToSet(Order) = Components /\ Len(Order) = Cardinality(Components)
  /\ \A i \in DOMAIN Order :
       Parent[Order[i]] = NoParent \/ \E j \in 1..i-1 : Order[j] = Parent[Order[i]]
  /\ NoParent \notin Components /\ Kind \in [Components -> DOMAIN Chain]
  /\ OwnName \in [Components -> Seq(Tokens)] /\ Renames \subseteq Components \X Seq(Tokens)
  /\ \A w \in DOMAIN Upper : Upper[w] \in Tokens
  /\ \A w \in DOMAIN Lower : Lower[w] \in Tokens
  /\ DefaultSeparator \in [0..Len(Order)-1 -> Seq(Tokens)]
  /\ RuleNames \subseteq Seq(Tokens)
  /\ Files \cup Reloads \subseteq Seq(DOMAIN Means)
  /\ \A l \in DOMAIN Means :
       Means[l] \in [kind : {"nothing", "section", "key", "syntax error", "terminated"},
                     name : Seq(Tokens), value : Seq(Tokens)]
  /\ SeparatorKey(0) = "separator0" /\ SeparatorKey(1) = "separator1"

ApplyCase(case, name) ==
  [i \in DOMAIN name |-> IF name[i] \in DOMAIN case THEN case[name[i]] ELSE name[i]]

\* snprintf with the one argument name.
Format(rule, name) ==
  IF "%s" \notin ToSet(rule) THEN rule
  ELSE LET i == FirstOf(rule, {"%s"}, 1)
       IN SubSeq(rule, 1, i - 1) \o name \o SubSeq(rule, i + 1, Len(rule))

\* buildNameFromRule: the first rule that is defined, the name in upper or in
\* lower case (toLower wins), spaces replaced in the result.
BuildName(kind, name) ==
  LET defined == { i \in DOMAIN Chain[kind] : Defined(Chain[kind][i]) }
      rule    == IF defined = {} THEN <<"%s">> ELSE Rule(Chain[kind][Min(defined)], <<>>)
      case    == IF Rule("toLower", <<"0">>) = <<"1">> THEN Lower
                 ELSE IF Rule("toUpper", <<"0">>) = <<"1">> THEN Upper ELSE <<>>
      text    == Format(rule, ApplyCase(case, name))
  IN IF NoRulesApply THEN name
     ELSE [i \in DOMAIN text |-> IF text[i] = " " THEN "0" ELSE text[i]]

-----------------------------------------------------------------------------
(* The names                                                                *)

\* A component and its ancestors, the root last.
Path[c \in Components] ==
  IF Parent[c] = NoParent THEN <<c>> ELSE <<c>> \o Path[Parent[c]]

Level(c) == Len(Path[c]) - 1

\* The part a component adds to the name of its parent; nothing, not even the
\* separator, when its own name comes out empty.
NodePart(c) ==
  LET name == BuildName(Kind[c], external[c])
  IN IF name = <<>> THEN <<>> ELSE Separator(Level(c)) \o name

PVPartIn(c)  == NodePart(c)
PVPartOut(c) == NodePart(c)

RootPart(c) == Separator(0) \o BuildName("root", external[c])

InputKinds  == {"inputPV", "getState", "getGlobalState"}
OutputKinds == {"outputPV", "setState", "setDecimation"}

Part(c) ==
  CASE Parent[c] = NoParent     -> RootPart(c)
    [] Parent[c] # NoParent /\ Kind[c] \in InputKinds  -> PVPartIn(c)
    [] Parent[c] # NoParent /\ Kind[c] \in OutputKinds -> PVPartOut(c)
    [] OTHER                    -> NodePart(c)

Joined(path) == FoldLeft(LAMBDA name, c : Part(c) \o name, <<>>, path)

\* Mutant of FromPort: the name begins at the outermost port.
Mut_FromOutermost(c) ==
  LET outside == { i \in DOMAIN Path[c] : Path[c][i] \in Ports }
  IN IF outside = {} THEN Joined(Path[c]) ELSE Joined(SubSeq(Path[c], 1, Max(outside) - 1))

FullExternalName(c) == Joined(Path[c])

\* ... from the nearest port, which itself has no name.
FromPort(c) ==
  LET outside == { i \in DOMAIN Path[c] : Path[c][i] \in Ports }
  IN IF outside = {} THEN Joined(Path[c]) ELSE Joined(SubSeq(Path[c], 1, Min(outside) - 1))

\* The names inside of NDS, which no rule shapes: the constructors' names, joined
\* with "-" from the root, or from the nearest port, which itself has no name.
Dashed(path) ==
  FoldRight(LAMBDA c, name : (IF name = <<>> THEN name ELSE name \o <<"-">>) \o OwnName[c],
            path, <<>>)

FullName(c) == Dashed(Path[c])

FullNameFromPort(c) ==
  LET outside == { i \in DOMAIN Path[c] : Path[c][i] \in Ports }
  IN Dashed(IF outside = {} THEN Path[c] ELSE SubSeq(Path[c], 1, Min(outside) - 1))

-----------------------------------------------------------------------------
(* The factory's rules and the device                                       *)

Init ==
  /\ ParserInit
  /\ loading = <<>> /\ rules = NoRules /\ rulesName = <<>> /\ inForce = <<>>
  /\ loads = 0 /\ choices = 0
  /\ external = OwnName
  /\ full     = [c \in Components |-> Nameless]
  /\ fromPort = [c \in Components |-> Nameless]
  /\ ruledBy  = [c \in Components |-> Nameless]
  /\ device   = "new"

LoadNamingRules(lines) ==
  /\ loads < MaxLoads /\ ConstructParser(lines)
  /\ loads' = loads + 1 /\ loading' = lines
  /\ UNCHANGED <<rules, rulesName, inForce, choices, nameVars>>

\* A single section takes effect at once, of several one has to be chosen.
FinishLoad ==
  /\ Parsed
  /\ rules' = sections /\ inForce' = loading /\ parse' = "idle"
  /\ rulesName' = IF Cardinality(GetSections(sections)) = 1
                    THEN CHOOSE s \in GetSections(sections) : TRUE ELSE <<>>
  /\ UNCHANGED <<unread, sections, lastSection, loading, loads, choices, nameVars>>

\* The constructor threw: m_namingRules is what it was.
FailLoad ==
  /\ parse = "syntax error"
  /\ parse' = "idle"
  /\ UNCHANGED <<unread, sections, lastSection, ruleVars, nameVars>>

SetNamingRules(name) ==
  /\ choices < MaxChoices
  /\ rulesName' = name /\ choices' = choices + 1
  /\ UNCHANGED <<parserVars, loading, rules, inForce, loads, nameVars>>

SetExternalName(c, name) ==
  /\ external[c] # name
  /\ external' = [external EXCEPT ![c] = name]
  /\ UNCHANGED <<parserVars, ruleVars, full, fromPort, ruledBy, device>>

\* BaseImpl::initialize of the next component caches its names.
Initialize(c) ==
  /\ device \in {"new", "initializing"}
  /\ \E i \in DOMAIN Order :
       /\ c = Order[i] /\ full[c] = Nameless
       /\ \A j \in 1..i-1 : full[Order[j]] # Nameless
  /\ ~MissingSection
  /\ full'     = [full EXCEPT ![c] = FullExternalName(c)]
  /\ fromPort' = [fromPort EXCEPT ![c] = FromPort(c)]
  /\ ruledBy'  = [ruledBy EXCEPT ![c] = [file |-> inForce, name |-> rulesName, words |-> external]]
  /\ device'   = IF c = Last(Order) THEN "ready" ELSE "initializing"
  /\ UNCHANGED <<parserVars, ruleVars, external>>

\* INIParserMissingSection leaves initialize.
InitializeThrows ==
  /\ device \in {"new", "initializing"}
  /\ MissingSection
  /\ device' = "failed"
  /\ UNCHANGED <<parserVars, ruleVars, external, full, fromPort, ruledBy>>

\* The process goes on: no throw without an exception so far.
Alive == parse # "terminated"

Idle == (parse = "idle" \/ ~Alive) /\ UNCHANGED vars

Next ==
  \/ \E f \in IF loads = 0 THEN Files ELSE Reloads : LoadNamingRules(f)
  \/ ReadLine /\ UNCHANGED <<ruleVars, nameVars>>
  \/ FinishLoad
  \/ FailLoad
  \/ Alive /\ \E n \in RuleNames : SetNamingRules(n)
  \/ Alive /\ \E r \in Renames : SetExternalName(r[1], r[2])
  \/ Alive /\ \E c \in Components : Initialize(c)
  \/ Alive /\ InitializeThrows
  \/ Idle

Spec == Init /\ [][Next]_vars
-----------------------------------------------------------------------------
(* Properties                                                               *)

\* Each line of the files is read as the page on naming rules means it, by itself.
LinesAsMeant ==
  \A file \in Files \cup Reloads : \A i \in DOMAIN file : LineOf(file[i]) = Means[file[i]]

\* What a file says according to the documentation, line by line.
KeyLines(lines) == { i \in DOMAIN lines : Means[lines[i]].kind = "key" }

SectionAt(lines, i) ==
  LET headers == { j \in 1..i-1 : Means[lines[j]].kind = "section" }
  IN IF headers = {} THEN <<>> ELSE Means[lines[Max(headers)]].name

LinesFor(lines, section, key) ==
  { i \in KeyLines(lines) : SectionAt(lines, i) = section /\ Means[lines[i]].name = key }

Says(lines, section, key) == Means[lines[Max(LinesFor(lines, section, key))]].value

\* The parser finds in a file the sections, keys and values that the page on
\* naming rules reads in it: comments, quotes, escapes, empty sections and keys
\* that are defined twice included; and it refuses the files that have an error.
SectionsAsWritten ==
  /\ Parsed =>
       /\ \A i \in DOMAIN loading : Means[loading[i]].kind \in {"section", "key", "nothing"}
       /\ DOMAIN sections = { SectionAt(loading, i) : i \in KeyLines(loading) }
       /\ \A s \in DOMAIN sections :
            /\ DOMAIN sections[s] =
                 { Means[loading[i]].name : i \in {j \in KeyLines(loading) : SectionAt(loading, j) = s} }
            /\ \A k \in DOMAIN sections[s] : sections[s][k] = Says(loading, s, k)
  /\ parse = "syntax error" =>
       \E i \in DOMAIN loading : Means[loading[i]].kind = "syntax error"

\* The name a component ought to have: by is what was in force, and chosen, when
\* it was initialized.
Has(by, key) == LinesFor(by.file, by.name, <<key>>) # {}
Of(by, key)  == Says(by.file, by.name, <<key>>)

DueSeparator(by, level) ==
  LET defined == { n \in 0..level : Has(by, SeparatorKey(n)) }
      inherit == level > 0 /\ (Has(by, "separator0") \/ Has(by, "separator1"))
  IN IF inherit \/ level \in defined THEN Of(by, SeparatorKey(Max(defined)))
     ELSE DefaultSeparator[level]

DueWords(by, kind, words) ==
  LET defined == { i \in DOMAIN Chain[kind] : Has(by, Chain[kind][i]) }
      lower   == Has(by, "toLower") /\ Of(by, "toLower") = <<"1">>
      upper   == Has(by, "toUpper") /\ Of(by, "toUpper") = <<"1">>
      shaped  == ApplyCase(IF lower THEN Lower ELSE IF upper THEN Upper ELSE <<>>, words)
      text    == IF defined = {} THEN shaped ELSE Format(Of(by, Chain[kind][Min(defined)]), shaped)
  IN [i \in DOMAIN text |-> IF text[i] = " " THEN "0" ELSE text[i]]

DuePart(by, c) ==
  LET plain == by.file = <<>> \/ by.name = <<>>
      level == Level(c)
      kind  == IF level = 0 THEN "root" ELSE Kind[c]
      words == IF plain THEN by.words[c] ELSE DueWords(by, kind, by.words[c])
      apart == IF plain THEN DefaultSeparator[level] ELSE DueSeparator(by, level)
  IN IF level > 0 /\ words = <<>> THEN <<>> ELSE apart \o words

\* Every component has the name that the rules give it which were in force when
\* it was initialized: those of the last file that was loaded without an error,
\* whatever failed since, in the section that was chosen, and never a mixture.
NamesFollowRules ==
  \A c \in Components :
    full[c] # Nameless =>
      full[c] = FlattenSeq([i \in 1..Len(Path[c]) |->
                              DuePart(ruledBy[c], Path[c][Len(Path[c]) + 1 - i])])

\* What control systems rely on that address a PV by its port and the rest: the
\* name of the port followed by the name from the port is the full name, as long
\* as one set of rules was in force for both; and the same of the names that
\* subscribe and replicate look for.
PortSplitsName ==
  \A c \in Components :
    LET ports == { i \in DOMAIN Path[c] : Path[c][i] \in Ports } IN
    ports # {} =>
      LET port == Path[c][Min(ports)] IN
      /\ full[c] # Nameless /\ ruledBy[port] = ruledBy[c] => full[c] = full[port] \o fromPort[c]
      /\ c # port => FullName(c) = FullName(port) \o <<"-">> \o FullNameFromPort(c)
=============================================================================
