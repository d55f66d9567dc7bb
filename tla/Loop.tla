-------------------------------- MODULE Loop --------------------------------
(***************************************************************************)
(* A loop of the code that runs for a known number of turns: over the bits *)
(* of a bitmap, the commands of a pipe, the buckets of a hash map.  The    *)
(* body of the loop is, for every turn, 1 the first, a function from the   *)
(* state before it to the state after it.                                  *)
(***************************************************************************)
EXTENDS Integers, Sequences

(* The state after n turns.                                                *)
After(body, init, n) ==
  LET after[i \in 0 .. n] == IF i = 0 THEN init ELSE body[i][after[i - 1]]
  IN  after[n]

(* A loop over a list: apply[c] is what a turn does with the element c.    *)
Turns(apply, list) == [i \in 1 .. Len(list) |-> apply[list[i]]]

AfterAll(apply, init, list) == After(Turns(apply, list), init, Len(list))

=============================================================================
