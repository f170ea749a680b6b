------------------------------- MODULE MCDump -------------------------------
(***************************************************************************)
(* An instance of Dump: a page of six words, and variables and names of    *)
(* directories that fit and that do not.                                   *)
(***************************************************************************)
EXTENDS Dump

MCTypes ==
  { <<>>, <<"i32", "none", "i64">>, <<"v128", "f64", "none">>, <<"v128", "f32">>,
    <<"f32", "i64", "none", "i32">>, <<"v128", "f64", "i32">> }

\* Directories: --dir=data, --dir=., --dir=./data, one with a long name and one
\* with a name longer than the page
data == [dot |-> FALSE, len |-> 1, dir |-> "elsewhere"]
dotData == [dot |-> TRUE, len |-> 2, dir |-> "elsewhere"]
long == [dot |-> FALSE, len |-> 4, dir |-> "elsewhere"]
tooLong == [dot |-> FALSE, len |-> 10, dir |-> "elsewhere"]

MCOptions ==
  { <<>>, <<data>>, <<dotData>>, <<data, WorkingDirectory>>, <<dotData, WorkingDirectory>>,
    <<long, data, WorkingDirectory>>, <<tooLong, dotData>>, <<WorkingDirectory, dotData>> }
=============================================================================
