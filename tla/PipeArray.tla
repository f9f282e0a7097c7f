----------------------------- MODULE PipeArray -----------------------------
(***************************************************************************)
(* array_t (libzmq/src/array.hpp), the array of pipes of fq_t, lb_t and    *)
(* dist_t: an item knows its place and is removed in constant time.        *)
(* Places count from 0.                                                    *)
(***************************************************************************)
EXTENDS Integers, Sequences

Place(items, p) == (CHOOSE i \in DOMAIN items : items[i] = p) - 1

Swap(items, i, j) == [items EXCEPT ![i + 1] = items[j + 1], ![j + 1] = items[i + 1]]

(* The last item moves into the hole. *)
Erase(items, i) == SubSeq(Swap(items, i, Len(items) - 1), 1, Len(items) - 1)

(* The pipes in the first n places. *)
First(items, n) == {items[i] : i \in 1 .. n}
=============================================================================
