--------------------------- MODULE IniFileParser ---------------------------
(***************************************************************************)
(* IniFileParserImpl (src/iniFileParserImpl.cpp): the constructor reads a  *)
(* stream line by line into a map of sections, each a map of keys.         *)
(*                                                                         *)
(* A text is a sequence of tokens: the characters the parser looks at, and *)
(* words, which it never looks into.  Positions count from 1, and 0 stands *)
(* for std::string::npos.                                                  *)
(***************************************************************************)
EXTENDS Naturals, Sequences, FiniteSets, SequencesExt, TLC

VARIABLES
  unread,       \* the lines of the stream that are still to be read
  sections,     \* m_sections
  lastSection,  \* the section of the last header
  parse         \* "idle", "reading", or how the constructor was left

parserVars == <<unread, sections, lastSection, parse>>

-----------------------------------------------------------------------------
(* Texts                                                                    *)

Spaces       == {" ", "\t", "\r", "\n"}
Quotes       == {"'", "\""}
CommentStart == {"#", ";"}

\* find_first_of from a position on.
FirstOf(text, tokens, from) ==
  LET found == { i \in from..Len(text) : text[i] \in tokens }
  IN IF found = {} THEN 0 ELSE Min(found)

Trim(text) ==
  LET ink == { i \in 1..Len(text) : text[i] \notin Spaces }
  IN IF ink = {} THEN <<>> ELSE SubSeq(text, Min(ink), Max(ink))

\* findFirstUnescapedChar: the first that has no backslash before it.
FirstUnescaped(text, token, from) ==
  LET found == { i \in from..Len(text) :
                   text[i] = token /\ (i = 1 \/ text[i - 1] # "\\") }
  IN IF found = {} THEN 0 ELSE Min(found)

-----------------------------------------------------------------------------
(* Lines                                                                    *)

Nothing         == [kind |-> "nothing", name |-> <<>>, value |-> <<>>]
Header(n)       == [Nothing EXCEPT !.kind = "section", !.name = n]
Assigned(k, v)  == [kind |-> "key", name |-> k, value |-> v]
SyntaxError     == [Nothing EXCEPT !.kind = "syntax error"]
\* A "throw" without an exception: std::terminate.
Terminated      == [Nothing EXCEPT !.kind = "terminated"]

\* getSection: what stands between the brackets, and nothing if they are not
\* both there.  What follows the closing one is ignored.
SectionOf(line) ==
  LET section == Trim(line)
      end     == FirstUnescaped(section, "]", 1)
  IN IF section = <<>> \/ section[1] # "[" \/ end = 0 THEN <<>>
     ELSE Trim(SubSeq(section, 2, end - 1))

\* The value of a key: up to the closing quote, or up to the first space.
ValueOf(key, value) ==
  LET quoted == value # <<>> /\ value[1] \in Quotes
      end    == IF quoted THEN FirstUnescaped(value, value[1], 2) ELSE FirstOf(value, Spaces, 1)
  IN CASE quoted /\ end = 0 -> Terminated
       [] quoted            -> Assigned(key, SubSeq(value, 2, end - 1))
       [] ~quoted /\ end = 0 -> Assigned(key, value)
       [] OTHER             -> Assigned(key, SubSeq(value, 1, end - 1))

\* getKeyValue: a line without an equal sign is empty, a comment or an error.
KeyValueOf(line) ==
  LET equal == FirstUnescaped(line, "=", 1)
      text  == Trim(line)
      key   == Trim(SubSeq(line, 1, equal - 1))
  IN IF equal = 0
       THEN IF text = <<>> \/ text[1] \in CommentStart THEN Nothing ELSE SyntaxError
       ELSE IF key = <<>> THEN Terminated
            ELSE ValueOf(key, Trim(SubSeq(line, equal + 1, Len(line))))

LineOf(line) ==
  IF SectionOf(line) # <<>> THEN Header(SectionOf(line)) ELSE KeyValueOf(line)

-----------------------------------------------------------------------------
(* The constructor                                                          *)

NoKeys == <<>>

Put(map, key, value) == [k \in DOMAIN map \cup {key} |-> IF k = key THEN value ELSE map[k]]

KeysOf(section) == IF section \in DOMAIN sections THEN sections[section] ELSE NoKeys

ParserInit == unread = <<>> /\ sections = NoKeys /\ lastSection = <<>> /\ parse = "idle"

\* The parser is constructed on a stream of these lines.
ConstructParser(lines) ==
  /\ parse = "idle"
  /\ unread' = lines /\ sections' = NoKeys /\ lastSection' = <<>> /\ parse' = "reading"

\* Mutant of ReadLine: a section is recorded when its header is read.
Mut_ReadHeader ==
  LET line == LineOf(Head(unread)) IN
  /\ parse = "reading" /\ unread # <<>>
  /\ unread' = Tail(unread)
  /\ lastSection' = IF line.kind = "section" THEN line.name ELSE lastSection
  /\ sections' = CASE line.kind = "key" ->
                        Put(sections, lastSection, Put(KeysOf(lastSection), line.name, line.value))
                   [] line.kind = "section" -> Put(sections, line.name, KeysOf(line.name))
                   [] OTHER -> sections
  /\ parse' = IF line.kind \in {"syntax error", "terminated"} THEN line.kind ELSE parse

\* One turn of the loop.  A section exists once it has a key; keys before the
\* first header go to the section without a name.
ReadLine ==
  LET line == LineOf(Head(unread)) IN
  /\ parse = "reading" /\ unread # <<>>
  /\ unread' = Tail(unread)
  /\ lastSection' = IF line.kind = "section" THEN line.name ELSE lastSection
  /\ sections' = IF line.kind = "key"
                   THEN Put(sections, lastSection, Put(KeysOf(lastSection), line.name, line.value))
                   ELSE sections
  /\ parse' = IF line.kind \in {"syntax error", "terminated"} THEN line.kind ELSE parse

\* The constructed map, and getString and keyExists on it.
Parsed == parse = "reading" /\ unread = <<>>

KeyExists(map, section, key) == key \in DOMAIN map[section]

GetString(map, section, key, default) ==
  IF KeyExists(map, section, key) THEN map[section][key] ELSE default

GetSections(map) == DOMAIN map
=============================================================================
