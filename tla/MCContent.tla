----------------------------- MODULE MCContent -----------------------------
(***************************************************************************)
(* Small instances of ContentAPI for TLC: documents with links of a type   *)
(* that is queried on its own, of one that is queried in a group, and of   *)
(* the last type, with lists that are out of order or name an href twice.  *)
(***************************************************************************)
EXTENDS ContentAPI

CONSTANTS t1, a, b, c1, c2

L(href, title) == [href |-> href, title |-> title]

Lists == { <<>>, <<L(2, a), L(1, b)>>, <<L(1, a), L(1, b)>> }

Few == { [type \in Types |-> IF type \in some THEN list ELSE <<>>] :
           some \in {{"spotlight"}, {"articles"}, {"articles", "timeseries"}},
           list \in Lists }

FewDocuments == [current : Few \cup {Nil}, next : Few \cup {Nil}]

=============================================================================
