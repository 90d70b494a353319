-------------------------------- MODULE User --------------------------------
(***************************************************************************)
(* The items of a User (User.h).  A user has at most one entry per item    *)
(* id; its count is a C++ int, which nothing keeps positive: an item that  *)
(* is not there yet is entered with whatever count is added.               *)
(***************************************************************************)
EXTENDS Integers

CONSTANTS INT_MAX,            \* the greatest int: 2^31 - 1 in the program
          NoItem              \* the user has no entry for an item

Int32 == (-INT_MAX - 1)..INT_MAX

ASSUME IntAssumption == INT_MAX \in Nat \ {0} /\ NoItem \notin Int

(* What is in the place of an item: an entry with a count, or none. *)
Held == Int32 \union {NoItem}

(* The sum or the difference of two ints as the processor leaves it. *)
Wrapped(n) == CASE n > INT_MAX      -> n - 2 * (INT_MAX + 1)
                [] n < -INT_MAX - 1 -> n + 2 * (INT_MAX + 1)
                [] OTHER            -> n

(* AddItemCount: an entry with nothing left, or less, is erased. *)
Added(held, n) == IF held = NoItem THEN n
                  ELSE LET sum == Wrapped(held + n)
                       IN  IF sum <= 0 THEN NoItem ELSE sum
=============================================================================
