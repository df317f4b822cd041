------------------------------ MODULE FifoCache ------------------------------
(* The insertion-ordered bounded dictionary that every cache layer of the   *)
(* package is made of: a Python dict whose oldest entry is dropped with     *)
(* cache.pop(next(iter(cache))), or the C map with its parallel order list. *)
(* A cache is the sequence of its entries, oldest first.                    *)
EXTENDS Naturals, Sequences

Empty == <<>>

KeysOf(c) == {c[i].key : i \in DOMAIN c}

Has(c, k) == \E i \in DOMAIN c : c[i].key = k

Lookup(c, k) == c[CHOOSE i \in DOMAIN c : c[i].key = k].val

\* d[k] = v: an assignment to a key that is present keeps its position.
Assign(c, k, v) ==
  IF Has(c, k)
  THEN [i \in DOMAIN c |-> IF c[i].key = k THEN [key |-> k, val |-> v] ELSE c[i]]
  ELSE Append(c, [key |-> k, val |-> v])

\* "while len(cache) > n: cache.pop(next(iter(cache)))"
TrimTo(c, n) == IF Len(c) > n THEN SubSeq(c, Len(c) - n + 1, Len(c)) ELSE c

\* "if len(cache) >= n: cache.pop(next(iter(cache)))", for n > 0
MakeRoom(c, n) == IF Len(c) >= n THEN Tail(c) ELSE c
=============================================================================
