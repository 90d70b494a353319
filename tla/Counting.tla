------------------------------ MODULE Counting ------------------------------
(* Counting the occurrences of a value in a sequence. *)
EXTENDS Naturals, FiniteSets, Sequences

(* How often v occurs among the first n elements of s. *)
Count(s, v, n) == Cardinality({i \in 1..n : s[i] = v})

Occurrences(s, v) == Count(s, v, Len(s))

(* s[i] is the Rank(s, i)-th occurrence of its value. *)
Rank(s, i) == Count(s, s[i], i)
=============================================================================
