--------------------------- MODULE MCNamingRules ---------------------------
(* Rule files built from a few lines, and a device of five components.      *)
EXTENDS NamingRules

CONSTANTS root, channel, machine, state, setpoint

\* channel is a port inside of the root port; machine and state have no port of
\* their own.
Device    == <<root, channel, machine, state, setpoint>>
Parents   == root :> NoParent @@ channel :> root @@ machine :> channel @@ state :> machine
             @@ setpoint :> root
Kinds     == root :> "generic" @@ channel :> "inputChannel" @@ machine :> "stateMachine"
             @@ state :> "getState" @@ setpoint :> "outputPV"
Names     == root :> <<"dev">> @@ channel :> <<"ch">> @@ machine :> <<"sm">>
             @@ state :> <<"get">> @@ setpoint :> <<"set", " ", "it">>
Renaming  == { <<channel, <<>>>> }
Strings    == STRING
Separators == [n \in 0..4 |-> IF n = 0 THEN <<>> ELSE <<"-">>]
UpperCase == "dev" :> "DEV" @@ "sm" :> "SM"
LowerCase == "dev" :> "dev" @@ "sm" :> "sm"
SectionNames == { <<"B">> }

Key(words, tail) == words \o <<" ", "=">> \o tail

\* Lines and what they say.
Headers == <<"[", "A", "]", " ", "#", "rules">>  :> Header(<<"A">>)
        @@ <<" ", "[", " ", "B", "]">>           :> Header(<<"B">>)
Notes   == <<"#", " ", "rules">> :> Nothing @@ <<" ", "\t">> :> Nothing
Errors  == <<"rules">> :> SyntaxError
Quits   == <<" ", "=", "rules">> :> Terminated
Comment == <<"#", "toUpper", "=", "1">> :> Nothing
Rules   ==
     Key(<<"separator0">>, <<>>)                           :> Assigned(<<"separator0">>, <<>>)
  @@ Key(<<"separator1">>, <<" ", "/", " ", "#", "note">>) :> Assigned(<<"separator1">>, <<"/">>)
  @@ Key(<<" ", "separator2">>, <<" ", "'", ":", "'">>)    :> Assigned(<<"separator2">>, <<":">>)
  @@ Key(<<"separator2">>, <<"+">>)                        :> Assigned(<<"separator2">>, <<"+">>)
  @@ Key(<<"toUpper">>, <<"1", "\r">>)                     :> Assigned(<<"toUpper">>, <<"1">>)
  @@ Key(<<"rootNode">>, <<"\"", "D_", "%s", "\"">>)       :> Assigned(<<"rootNode">>, <<"D_", "%s">>)
  @@ Key(<<"genericNode">>, <<" ", "\"", "\"">>)           :> Assigned(<<"genericNode">>, <<>>)
  @@ Key(<<"stateMachineNode">>, <<"%s">>)                 :> Assigned(<<"stateMachineNode">>, <<"%s">>)
  @@ Key(<<"inputPV">>, <<"\"", "\\", "\"", "%s", "\"">>)  :> Assigned(<<"inputPV">>, <<"\\", "\"", "%s">>)
  @@ Key(<<"getStatePV">>, <<"'", "G", " ", "%s", "'">>)   :> Assigned(<<"getStatePV">>, <<"G", " ", "%s">>)

Meaning      == Headers @@ Notes @@ Errors @@ Quits @@ Rules
WithComments == Meaning @@ Comment

A == <<"[", "A", "]", " ", "#", "rules">>

\* One that replaces the rules, one that has an error at its end, and one that
\* has two sections.
In  == Key(<<"inputPV">>, <<"\"", "\\", "\"", "%s", "\"">>)
Up  == Key(<<"toUpper">>, <<"1", "\r">>)
Sep == Key(<<"separator1">>, <<" ", "/", " ", "#", "note">>)
B   == <<" ", "[", " ", "B", "]">>
LaterFiles == { <<B, In>>, <<A, Sep, <<"rules">>>>, <<A, Up, B, Sep>> }

\* A section with a rule and the change of case, one with a line of any other
\* kind, and a rule without a section.
FirstFiles == { <<A, r, Up>> : r \in DOMAIN Rules }
         \cup { <<A, Sep, l>> : l \in DOMAIN Meaning \ DOMAIN Rules }
         \cup { <<In, l>> : l \in DOMAIN Headers }

\* The theorems about the names assume as much of the files: LinesAsMeant.
ASSUME LinesRead ==
  \A file \in FirstFiles \cup LaterFiles : \A i \in DOMAIN file :
    LineOf(file[i]) = Meaning[file[i]]

\* A comment with an equal sign before the first section.
CommentedFiles == { <<(<<"#", "toUpper", "=", "1">>), A, Sep>> }
=============================================================================
