--------------------------- MODULE ModuleFolders ---------------------------
(***************************************************************************)
(* Which files NdsFactoryImpl considers: separateFoldersList and listFiles *)
(* (src/ndsFactoryImpl.cpp:413-495).                                       *)
(*                                                                         *)
(* The value of an environment variable is a sequence of tokens: the       *)
(* separators, the quotes, and words.  A file is a model value, and the    *)
(* prefix and suffix of its name are its type.                             *)
(***************************************************************************)
EXTENDS Naturals, Sequences, FiniteSets, SequencesExt

Separators == {":", ";", " "}
QuoteMarks == {"'", "\""}
NoQuote    == "none"

\* One turn of the loop: s has the open quote, where the current name starts and
\* the names so far.  Between quotes nothing separates; empty names are dropped;
\* the quotes stay part of the name.
TakeToken(text, s, i) ==
  LET token == text[i] IN
  IF token = s.quote THEN [s EXCEPT !.quote = NoQuote]
  ELSE IF s.quote # NoQuote THEN s
  ELSE IF token \in QuoteMarks THEN [s EXCEPT !.quote = token]
  ELSE IF token \in Separators
         THEN [s EXCEPT !.start = i + 1,
                        !.folders = IF i = s.start THEN @
                                    ELSE Append(@, SubSeq(text, s.start, i - 1))]
         ELSE s

SeparateFolders(text) ==
  LET after[i \in 0 .. Len(text)] ==
        IF i = 0 THEN [quote |-> NoQuote, start |-> 1, folders |-> <<>>]
        ELSE TakeToken(text, after[i - 1], i)
      last == after[Len(text)]
  IN IF last.start = Len(text) + 1 THEN last.folders
     ELSE Append(last.folders, SubSeq(text, last.start, Len(text)))

\* The first folder that opendir cannot open throws.
CanList(folders, contents) == ToSet(folders) \subseteq DOMAIN contents

\* The names that getNextFileName returns until it has no more: readdir goes
\* through a folder in any order.
Listings(files) == SetToSeqs(files)

\* The results of listFiles: folder by folder.
FileLists(folders, contents, matching) ==
  LET here(k) == Listings(contents[folders[k]] \cap matching)
  IN { FlattenSeq(lists) : lists \in { l \in [DOMAIN folders -> UNION { here(k) : k \in DOMAIN folders }] :
                                         \A k \in DOMAIN folders : l[k] \in here(k) } }
=============================================================================
