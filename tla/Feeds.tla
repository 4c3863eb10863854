------------------------------- MODULE Feeds -------------------------------
(***************************************************************************)
(* The numbered feeds of the two servers' GET routes: the entries of a log *)
(* that a route selects, from the newest or from the oldest on, and how a  *)
(* client reads them page by page, following cursors.                      *)
(***************************************************************************)
EXTENDS Integers, FiniteSets, Sequences

\* The k-th largest of a set of numbers.
NthLast(S, k) == CHOOSE i \in S : Cardinality({j \in S : j >= i}) = k

\* The members of a set of numbers from the largest down, and from the smallest up.
FromLast(S) == [k \in 1..Cardinality(S) |-> NthLast(S, k)]
FromFirst(S) == [k \in 1..Cardinality(S) |-> NthLast(S, Cardinality(S) + 1 - k)]

\* A page from a place of a feed on, and the place the next one starts from, 0
\* when there is none.
PageFrom(feed, from, limit) ==
  LET upTo == IF from + limit - 1 < Len(feed) THEN from + limit - 1 ELSE Len(feed)
  IN [items |-> SubSeq(feed, from, upTo),
      next |-> IF from <= upTo /\ upTo < Len(feed) THEN upTo + 1 ELSE 0]

\* A feed as a client reads it, from the page at the first cursor on.
Read(pages, first) ==
  LET rest[c \in DOMAIN pages] ==
        pages[c].items \o (IF pages[c].next = 0 THEN <<>> ELSE rest[pages[c].next])
  IN rest[first]
=============================================================================
