----------------------------- MODULE LogStreams -----------------------------
(***************************************************************************)
(* The log streams of a control system, which all components that were     *)
(* initialized with it use: LogStreamGetterImpl (src/logStreamGetterImpl   *)
(* .cpp) keeps one stream per level and thread, in a pthread key per level.*)
(* A key belongs to a getter, so a stream is named by its getter, the      *)
(* level and the thread it was created for.                                *)
(***************************************************************************)
EXTENDS Naturals, FiniteSets

CONSTANTS
  Threads,
  Getters,
  Levels,
  MaxStreams,  \* bound: streams at a time
  NoStream

VARIABLES
  slot,     \* slot[g][l][t]: the specific value of the key for level l
  streams,  \* the streams that have been created and not been deleted
  writing   \* writing[t]: what t asked for and the stream getLogger returned

Stream(g, l, t) == [getter |-> g, level |-> l, thread |-> t]
Quiet == [wanted |-> NoStream, got |-> NoStream]

LogInit ==
  /\ slot    = [g \in Getters |-> [l \in Levels |-> [t \in Threads |-> NoStream]]]
  /\ streams = {}
  /\ writing = [t \in Threads |-> Quiet]

\* Mutant of GetLogStream: the keys of all levels are the same one.
Mut_GetOneKey(t, g, l) ==
  LET key  == CHOOSE k \in Levels : TRUE
      have == slot[g][key][t]
      got  == IF have = NoStream THEN Stream(g, l, t) ELSE have
  IN /\ writing[t] = Quiet /\ Cardinality(streams \cup {got}) <= MaxStreams
     /\ slot'    = [slot EXCEPT ![g][key][t] = got]
     /\ streams' = streams \cup {got}
     /\ writing' = [writing EXCEPT ![t] = [wanted |-> Stream(g, l, t), got |-> got]]

\* getLogStream: the thread's own stream, created when it first logs at a level.
GetLogStream(t, g, l) ==
  LET have == slot[g][l][t]
      got  == IF have = NoStream THEN Stream(g, l, t) ELSE have
  IN /\ writing[t] = Quiet /\ Cardinality(streams \cup {got}) <= MaxStreams
     /\ slot'    = [slot EXCEPT ![g][l][t] = got]
     /\ streams' = streams \cup {got}
     /\ writing' = [writing EXCEPT ![t] = [wanted |-> Stream(g, l, t), got |-> got]]

\* The expression that writes to the stream ends.
Written(t) ==
  /\ writing[t] # Quiet
  /\ writing' = [writing EXCEPT ![t] = Quiet]
  /\ UNCHANGED <<slot, streams>>

\* deleteLogger, for every key that still exists.
ThreadEnds(t) ==
  /\ writing[t] = Quiet
  /\ streams' = streams \ { slot[g][l][t] : g \in Getters, l \in Levels }
  /\ slot'    = [g \in Getters |-> [l \in Levels |-> [slot[g][l] EXCEPT ![t] = NoStream]]]
  /\ UNCHANGED writing

\* The destructors of getters: only the streams of the thread that runs them are
\* deleted, those of the others are forgotten with the keys.
DestroyGetters(t, gone) ==
  /\ streams' = streams \ { slot[g][l][t] : g \in gone, l \in Levels }
  /\ slot'    = [g \in Getters |-> IF g \in gone THEN [l \in Levels |-> [s \in Threads |-> NoStream]]
                                   ELSE slot[g]]
  /\ UNCHANGED writing

-----------------------------------------------------------------------------
\* A thread writes to a stream that exists, is that of the component's control
\* system and of the level that was asked for, and that no other thread gets.
StreamIsOwn ==
  \A t \in Threads :
    writing[t] # Quiet => writing[t].got = writing[t].wanted /\ writing[t].got \in streams

\* Streams outlive neither their thread nor their control system (the code keeps
\* them when a getter is destroyed: see README, "Divergences").
NoneForgotten ==
  \A s \in streams : slot[s.getter][s.level][s.thread] = s
=============================================================================
