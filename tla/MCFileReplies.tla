---------------------------- MODULE MCFileReplies ----------------------------
\* Files and calls of the editing tools; one batch over three files, the first
\* of which is not there, and a text that is looked for in two places which share
\* a line.
EXTENDS FileEdits
CONSTANTS f1, f2, f3, a, a_indented, b, m1, m2, m3, m4, m5, m6

MCAnchor == [line \in {a, a_indented, b, Marker, m1, m2, m3, m4, m5, m6} |->
               IF line = a_indented THEN a ELSE line]

Edit(anchor, after, op, text) == [anchor |-> anchor, after |-> after, op |-> op, text |-> text]

File(path, edits, mark) == [path |-> path, edits |-> edits, mark |-> mark]

Call(tool, files) ==
  [tool |-> tool, files |-> files, old |-> <<>>, new |-> <<>>, replace_all |-> FALSE,
   after |-> <<>>, before |-> <<>>, content |-> <<>>]

GapStarts == {f1 :> Absent @@ f2 :> <<a, b>> @@ f3 :> <<b>>}
GapCalls ==
  {Call("batch_edit", <<File(f1, <<>>, m1), File(f2, <<>>, m2), File(f3, <<>>, m3)>>)}

OverlapStarts == {f1 :> <<a, a, a>> @@ f2 :> Absent @@ f3 :> Absent}
OverlapCalls ==
  {[Call("str_replace", <<File(f1, <<>>, m1)>>) EXCEPT !.old = <<a, a>>, !.new = <<a, m1>>]}
=============================================================================
