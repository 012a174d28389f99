----------------------------- MODULE LogConfig -----------------------------
(***************************************************************************)
(* Hearthstone's log.config: sections with fields, of which some must have *)
(* certain values for the game to write its logs.  Names of sections and   *)
(* fields are compared without regard to case in some places and with      *)
(* regard to it in others, so a name is a pair of the name proper and      *)
(* whether it is spelled as the program spells it.                         *)
(***************************************************************************)
EXTENDS Naturals, SequencesExt

Name(n)  == [name |-> n, exact |-> TRUE]
Other(n) == [name |-> n, exact |-> FALSE]

Section(name, fields) == [name |-> name, fields |-> fields]

\* getRequiredSections.  "Level" stands for the four fields of every section, and
\* "Verbose" for the one only Power has; "Zone" for the other three sections.
RequiredFields(name) == {Name("Level")} \cup IF name = "Power" THEN {Name("Verbose")} ELSE {}
RequiredSections == <<"Power", "Zone">>

\* findSection: the first of that name, in any spelling.
Matches(c, name) == {i \in DOMAIN c : c[i].name.name = name}
FindSection(c, name) == CHOOSE i \in Matches(c, name) : \A j \in Matches(c, name) : i <= j

Value(s, k) == IF k \in DOMAIN s.fields THEN s.fields[k] ELSE "none"

IsComplete(c) ==
  \A i \in DOMAIN RequiredSections :
    LET name == RequiredSections[i]
    IN  /\ Matches(c, name) # {}
        /\ \A k \in RequiredFields(name) : Value(c[FindSection(c, name)], k) = "on"

\* Merge adds a section that is missing and sets the required fields of one that is
\* there, whatever else it holds.
Patched_replaced(fields, name) == [k \in RequiredFields(name) |-> "on"] \* mutant: drops others
Patched(fields, name) ==
  [k \in RequiredFields(name) \cup DOMAIN fields |->
     IF k \in RequiredFields(name) THEN "on" ELSE fields[k]]

MergeSection(c, name) ==
  IF Matches(c, name) = {}
  THEN Append(c, Section(Name(name), [k \in RequiredFields(name) |-> "on"]))
  ELSE [c EXCEPT ![FindSection(c, name)].fields = Patched(@, name)]

Merge(c) == FoldLeft(MergeSection, c, RequiredSections)

\* Write: the fields the program knows, as it spells them, and then the others,
\* except those that are a known field in another spelling.
Written(s) ==
  LET Kept(k) == k.exact \/ Name(k.name) \notin RequiredFields(s.name.name)
  IN  Section(s.name, [k \in {k \in DOMAIN s.fields : Kept(k)} |-> s.fields[k]])

\* What is on disk after CheckAndPatch.
CheckAndPatch(c) ==
  IF IsComplete(c) THEN c
  ELSE LET merged == Merge(c) IN [i \in DOMAIN merged |-> Written(merged[i])]
=============================================================================
