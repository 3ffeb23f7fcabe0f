---------------------------- MODULE ManifestText ----------------------------
(***************************************************************************)
(* Manifests written as text: the translator of indented "key: value"      *)
(* lines into nested mappings (parse_yaml_to_json_value).  A setting that  *)
(* got lost on the way would silently have its default.                    *)
(***************************************************************************)
EXTENDS Integers, FiniteSets, Sequences

CONSTANTS
    Indents,  \* the depths of lines, 0 among them
    Keys,     \* what may stand before a colon
    MaxLines  \* bound

VARIABLE lines  \* without blanks and comments

\* A line without a colon has no key; one that opens a mapping has no value.
Lines == [indent : Indents, key : Keys, value : {"", "v"}]
            \cup [indent : Indents, key : {""}, value : {""}]

Refused == [ok |-> "no"]

\* Mutant: the last of two equal keys wins.
TakesAny(key, entries) == TRUE

\* A mapping takes a key once.
Takes(key, entries) == \A entry \in entries : entry.path # <<key>>

\* parse_yaml_map, from line i at one depth: the entries it found, each with
\* the keys that lead to it, and the line that it leaves to its caller.
ParseMap(text) ==
    LET map[i \in 1..(Len(text) + 1), depth \in Indents] ==
            IF i > Len(text) THEN [ok |-> "yes", next |-> i, entries |-> {}]
            ELSE IF text[i].indent < depth THEN [ok |-> "yes", next |-> i, entries |-> {}]
            ELSE IF text[i].indent > depth \/ text[i].key = "" THEN Refused
            ELSE LET opens == /\ text[i].value = ""
                              /\ i < Len(text)
                              /\ text[i + 1].indent > depth
                     child == IF opens THEN map[i + 1, text[i + 1].indent]
                              ELSE [ok |-> "yes", next |-> i + 1, entries |-> {}]
                     rest == IF child = Refused THEN Refused ELSE map[child.next, depth]
                     key == text[i].key
                 IN  IF rest = Refused THEN Refused
                     ELSE IF ~Takes(key, rest.entries) THEN Refused
                     ELSE [rest EXCEPT !.entries =
                              rest.entries \cup {[path |-> <<key>>, value |-> text[i].value]}
                                \cup {[entry EXCEPT !.path = <<key>> \o entry.path] :
                                         entry \in child.entries}]
    IN  map[1, 0]

\* parse_yaml_to_json_value
Parsed(text) == IF text = <<>> THEN Refused ELSE ParseMap(text)

-----------------------------------------------------------------------------
(* A document grows line by line *)

Init == lines = <<>>

Next ==
    /\ Len(lines) < MaxLines
    /\ \E line \in Lines : lines' = Append(lines, line)

Spec == Init /\ [][Next]_lines

-----------------------------------------------------------------------------
(* What indentation means *)

\* The line that line i stands under.
Parents(text, i) == {j \in 1..(i - 1) : /\ text[j].indent < text[i].indent
                                        /\ \A k \in (j + 1)..(i - 1) :
                                              text[k].indent >= text[i].indent}

PathTo(text) ==
    LET path[i \in 1..Len(text)] ==
            IF Parents(text, i) = {} THEN <<text[i].key>>
            ELSE Append(path[CHOOSE j \in Parents(text, i) : TRUE], text[i].key)
    IN  path

\* Lines of one mapping have one depth, only a line without a value has lines
\* below it, and no two lines name the same setting.
WellFormed(text) ==
    /\ text # <<>> /\ text[1].indent = 0
    /\ \A i \in DOMAIN text : text[i].key # ""
    /\ \A i \in 2..Len(text) :
          IF text[i].indent > text[i - 1].indent THEN text[i - 1].value = ""
          ELSE \E j \in 1..(i - 1) : /\ text[j].indent = text[i].indent
                                     /\ Parents(text, j) = Parents(text, i)
    /\ \A i, j \in DOMAIN text : i # j => PathTo(text)[i] # PathTo(text)[j]

\* Every line of an accepted text is a setting of the manifest, under the keys
\* its indentation says, and the texts that are refused are those for which
\* indentation says nothing: no line is lost, moved or overwritten.
EveryLineIsASetting ==
    LET result == Parsed(lines)
    IN  /\ result.ok = "yes" <=> WellFormed(lines)
        /\ result.ok = "yes" =>
              result.entries = {[path |-> PathTo(lines)[i], value |-> lines[i].value] :
                                   i \in DOMAIN lines}
=============================================================================
