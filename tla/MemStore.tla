------------------------------ MODULE MemStore ------------------------------
(***************************************************************************)
(* What every allocator of the monitor owes its clients: each owner has    *)
(* some of the memory, nobody else has any of that, and a call on behalf   *)
(* of one owner never moves, cuts or takes away the memory of another.     *)
(***************************************************************************)
CONSTANTS
  Memory,       (* the addresses there are                                 *)
  Owners

VARIABLE owned  (* owner -> the addresses it has                           *)
store == <<owned>>

OthersOf(o) == UNION {owned[p] : p \in Owners \ {o}}

StoreInit ==
  /\ owned \in [Owners -> SUBSET Memory]
  /\ \A o \in Owners : owned[o] \cap OthersOf(o) = {}

(* Owner o gets memory, gives it back, or has its memory moved or resized. *)
Serve(o) ==
  /\ owned' = [owned EXCEPT ![o] = owned'[o]]
  /\ owned'[o] \subseteq Memory \ OthersOf(o)

StoreNext == \E o \in Owners : Serve(o)
StoreSpec == StoreInit /\ [][StoreNext]_owned
=============================================================================
