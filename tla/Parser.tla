------------------------------- MODULE Parser -------------------------------
(***************************************************************************)
(* The parser of Power.log: a line becomes at most one event, and the      *)
(* event of a line that opens a block of tags is held back until the block *)
(* is known to be over.  A line is known by its position in the log and by *)
(* its kind; the text of a line, the names and the values it carries, and  *)
(* the time stamps are left out.                                           *)
(***************************************************************************)
EXTENDS Integers, Sequences, FiniteSets

\* The kinds of lines, in the order of the switch of Feed; a foreign line is
\* not one of GameState.DebugPrintPower or DebugPrintGame, an other line is,
\* and matches no pattern.
Immediate == {"create", "playerName", "complete", "turn", "tag"}
Held      == {"playerDef", "entity"}
LineKind  == Immediate \cup Held \cup
             {"gameEntity", "blockTag", "blockStart", "blockEnd", "other", "foreign"}

\* An event: the kind and the position of the line it comes from, the tag
\* lines it took, and the line that opened the innermost block around it.
Event(kind, i, source) == [kind |-> kind, of |-> i, tags |-> {}, source |-> source]
NoEvent == Event("other", 0, 0)
Tagged(e, i) == [e EXCEPT !.tags = @ \cup {i}]

New == [inBlock |-> FALSE, pending |-> NoEvent, blockStack |-> <<>>,
        inCreate |-> FALSE, createTags |-> NoEvent]

\* What an event and a parser are made of.
EventType  == [kind : LineKind, of : Nat, tags : SUBSET Nat, source : Nat]
ParserType == [inBlock : BOOLEAN, pending : EventType, blockStack : Seq(Nat),
               inCreate : BOOLEAN, createTags : EventType]

\* A parser together with the events it has emitted on the way.
With(p, events) == [parser |-> p, events |-> events]

\* applyBlockContext; only entities and tag changes are attributed.
Source(p, kind) ==
  IF kind \in {"entity", "tag"} /\ p.blockStack # <<>>
    THEN p.blockStack[Len(p.blockStack)] ELSE 0

flushCreateGameEntityTags(p) ==
  With([p EXCEPT !.inCreate = FALSE, !.createTags = NoEvent],
       IF p.inCreate /\ p.createTags.tags # {} THEN <<p.createTags>> ELSE <<>>)

flushPending(p) ==
  With([p EXCEPT !.inBlock = FALSE, !.pending = NoEvent],
       IF p.inBlock THEN <<p.pending>> ELSE <<>>)

Reset(p) == [p EXCEPT !.inBlock = FALSE, !.pending = NoEvent, !.blockStack = <<>>]

\* The line is not a tag line: what was held back is emitted, unless a new
\* game begins, which discards it.
\* mutant: a new game flushes the block that was left open
X_Leave(p, kind) == flushPending(p)
Leave(p, kind) ==
  IF p.inBlock /\ kind = "create" THEN With(Reset(p), <<>>) ELSE flushPending(p)

Open(p, i, kind) ==
  CASE kind = "blockEnd" /\ p.blockStack # <<>> ->
         With([p EXCEPT !.blockStack = SubSeq(@, 1, Len(@) - 1)], <<>>)
    [] kind = "blockStart" -> With([p EXCEPT !.blockStack = Append(@, i)], <<>>)
    [] kind = "create"     -> With(Reset(p), <<Event(kind, i, 0)>>)
    [] kind = "gameEntity" ->
         With([p EXCEPT !.inCreate = TRUE, !.createTags = Event(kind, i, 0)], <<>>)
    [] kind \in Held ->
         With([p EXCEPT !.inBlock = TRUE, !.pending = Event(kind, i, Source(p, kind))], <<>>)
    [] kind \in Immediate \ {"create"} -> With(p, <<Event(kind, i, Source(p, kind))>>)
    [] OTHER -> With(p, <<>>)

Feed(p, i, kind) ==
  CASE kind = "foreign" -> With(p, <<>>)
    [] kind = "blockTag" /\ p.inCreate ->
         With([p EXCEPT !.createTags = Tagged(@, i)], <<>>)
    [] kind = "blockTag" /\ ~p.inCreate /\ p.inBlock ->
         With([p EXCEPT !.pending = Tagged(@, i)], <<>>)
    [] OTHER ->
         LET ended == flushCreateGameEntityTags(p)
             left  == Leave(ended.parser, kind)
             done  == Open(left.parser, i, kind)
         IN  With(done.parser, ended.events \o left.events \o done.events)

Flush(p) ==
  LET ended == flushCreateGameEntityTags(p)
      left  == flushPending(ended.parser)
  IN  With(left.parser, ended.events \o left.events)

(***************************************************************************)
(* What the events of a log are, said of the whole log at once.            *)
(***************************************************************************)
Passed(log, i, j) == \A k \in (i + 1)..(j - 1) : log[k] \in {"blockTag", "foreign"}

\* The tag lines that follow line i, with nothing but foreign lines between.
Body(log, i) == {j \in (i + 1)..Len(log) : log[j] = "blockTag" /\ Passed(log, i, j)}

\* The line that ends the block of line i, if the log has one.
Ends(log, i) == {j \in (i + 1)..Len(log) : log[j] \notin {"blockTag", "foreign"} /\ Passed(log, i, j)}

\* Block starts that are not closed, nor forgotten at a new game, before i.
Depth(log, j, i) == Cardinality({k \in j..i : log[k] = "blockStart"})
                    - Cardinality({k \in j..i : log[k] = "blockEnd"})
Around(log, i) ==
  {j \in 1..(i - 1) : /\ log[j] = "blockStart"
                      /\ \A k \in j..(i - 1) : Depth(log, j, k) > 0 /\ log[k] # "create"}

Attributed(log, i) ==
  IF log[i] \in {"entity", "tag"} /\ Around(log, i) # {}
    THEN CHOOSE j \in Around(log, i) : \A k \in Around(log, i) : k <= j
    ELSE 0

\* The lines that have their event by the end of the log, flushed or not.
HasEvent(log, flushed, i) ==
  LET over == flushed \/ Ends(log, i) # {}
  IN  \/ log[i] \in Immediate
      \/ log[i] \in Held /\ over /\ \A j \in Ends(log, i) : log[j] # "create"
      \/ log[i] = "gameEntity" /\ over /\ Body(log, i) # {}

ExpectedEvent(log, i) ==
  [kind |-> log[i], of |-> i, source |-> Attributed(log, i),
   tags |-> IF log[i] \in Immediate THEN {} ELSE Body(log, i)]
=============================================================================
