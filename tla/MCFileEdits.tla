----------------------------- MODULE MCFileEdits -----------------------------
\* Two turns over two files.  A line repeats in one, another differs from its
\* twin in indentation only.
EXTENDS MCFileReplies

MCStarts == {f1 :> <<a, b, a>> @@ f2 :> <<a, b>>, f1 :> <<a, b, a_indented>> @@ f2 :> Absent}

EitherTurn == Permutations(Actors)

MCCalls ==
  { Call("edit_files", <<File(f1, <<Edit(a, b, "insert_after", <<m1>>),
                                    Edit(b, None, "insert_before", <<m1>>)>>, m1),
                         File(f2, <<Edit(a, None, "delete", <<>>),
                                    Edit(b, a, "replace", <<b, m1>>)>>, m1)>>),
    [Call("str_replace", <<File(f2, <<>>, m2), File(f1, <<>>, m2)>>)
       EXCEPT !.old = <<a>>, !.new = <<a, m2>>, !.after = <<b>>],
    [Call("str_replace", <<File(f1, <<>>, m3)>>)
       EXCEPT !.old = <<a>>, !.new = <<m3>>, !.replace_all = TRUE, !.before = <<b>>],
    [Call("write_file", <<File(f2, <<>>, m4)>>) EXCEPT !.content = <<a, b, a, m4>>],
    Call("batch_edit", <<File(f1, <<>>, m5), File(f2, <<>>, m6)>>),
    Call("batch_edit", <<File(f2, <<>>, m6)>>) }

\* What the theorems about the reports ask of the calls.
ASSUME CallsLeaveNoneOut == NoneLeftOut
=============================================================================
