---------------------------- MODULE MCWinDiskFs ----------------------------
(* WinDiskFs with two names, one of them in three spellings: "a" and "A"  *)
(* have the same length in UTF-8, "x" is one byte longer.                 *)
EXTENDS WinDiskFs

MCSpelling == {"a", "A", "x", "b"}
MCFold == [s \in MCSpelling |-> IF s = "b" THEN "b" ELSE "A"]
MCRank == [s \in MCSpelling |-> CASE s = "A" -> 1 [] s = "b" -> 2 [] s = "a" -> 3 [] s = "x" -> 4]
MCBytes == [s \in MCSpelling |-> IF s = "x" THEN 3 ELSE 2]
MCPath == {<<"a">>, <<"x">>, <<"b">>, <<"A", "b">>}
MCBuffer == {<<1, 2>>}
\* Bound: MaxWork is for a single node; with more nodes, or tangled tables, a state is
\* checked, but followed only while less work has been done.
Followed ==
  LET created == next_id - 2
  IN created > 1 => created + writes < MaxWork - (IF tangled THEN 1 ELSE 0)
=============================================================================
