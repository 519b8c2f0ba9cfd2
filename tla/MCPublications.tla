--------------------------- MODULE MCPublications ---------------------------
(* Instances of Publications for TLC. *)
EXTENDS Publications, TLC

CONSTANTS i1, i2

None == "none"
Ask(op, of, n) == [op |-> op, of |-> of, n |-> n]

MCModes == i1 :> {"create"} @@ i2 :> {"append", "overwrite"}
AppendOnly == i1 :> {"append"} @@ i2 :> {"append"}

MCRequests == {Ask("complete", i1, 1), Ask("complete", i2, 1), Ask("optimize", None, 1),
               Ask("expire", None, 1), Ask("drop", None, 1)}

RefreshRequests == {Ask("complete", i1, 1), Ask("complete", i2, 1),
                    Ask("refresh", FALSE, 1), Ask("refresh", FALSE, 2)}

OnceEach == {Ask("complete", i1, 1), Ask("complete", i2, 1)}
=============================================================================
