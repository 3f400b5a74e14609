-------------------------------- MODULE Heap --------------------------------
(***************************************************************************)
(* The heaps of go/turbodata/internal/iter: container/heap over items that *)
(* are compared by their key.  What it does with items of equal keys       *)
(* decides the order they come in, so it is modelled move by move: an item *)
(* that is sifted goes along a trail of places, and each one it passes     *)
(* takes the place before.                                                 *)
(***************************************************************************)
EXTENDS Integers, Sequences

Less(x, y) == x.key < y.key

(* The places from i on, next[k] being the one after k and 0 if k is the   *)
(* last.                                                                   *)
Trail(next, i) ==
  LET from[k \in DOMAIN next] == {k} \cup IF next[k] = 0 THEN {} ELSE from[next[k]]
  IN  from[i]

Moved(h, next, i) ==
  LET trail == Trail(next, i)
  IN  [k \in DOMAIN h |-> IF k \notin trail THEN h[k] ELSE IF next[k] = 0 THEN h[i] ELSE h[next[k]]]

(* Up from the last place: an item moves over its parent only if it is less. *)
Up(h) == [k \in DOMAIN h |-> IF k > 1 /\ Less(h[Len(h)], h[k \div 2]) THEN k \div 2 ELSE 0]

(* Down from the root: the lesser child moves up, the left one if they are *)
(* equal.                                                                  *)
Child(h, k) == IF 2 * k + 1 <= Len(h) /\ Less(h[2 * k + 1], h[2 * k]) THEN 2 * k + 1 ELSE 2 * k

Down(h) == [k \in DOMAIN h |-> IF 2 * k <= Len(h) /\ Less(h[Child(h, k)], h[1]) THEN Child(h, k) ELSE 0]

SiftUp(h) == Moved(h, Up(h), Len(h))
SiftDown(h) == IF h = <<>> THEN h ELSE Moved(h, Down(h), 1)

Pushed(h, item) == SiftUp(Append(h, item))

(* The heap without its root, whose place the last item takes. *)
Popped(h) == SiftDown([k \in 1 .. Len(h) - 1 |-> h[IF k = 1 THEN Len(h) ELSE k]])
=============================================================================
