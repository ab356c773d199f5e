----------------------------- MODULE MCDataPath -----------------------------
(***************************************************************************)
(* An instance of DataPath for TLC: every input of at most four lines out  *)
(* of four that differ in what the code looks at.                          *)
(***************************************************************************)
EXTENDS DataPath

Line(doc, words) == [doc |-> doc, words |-> words]

\* A blank line, a line without a tab, a word that is repeated, and a word that
\* cleaning removes; the ids of the documents are words as well.
SampleLines ==
  {Line(None, <<>>), Line(None, <<1>>), Line(1, <<2, 2>>), Line(2, <<0, 1>>)}

ShortInputs == BoundedSeq(SampleLines, 4)
=============================================================================
