------------------------------ MODULE MCVoucher ------------------------------
(* An activity for one user on the first day, and the same for two users   *)
(* on the two days after it.                                               *)
EXTENDS Voucher, TLC

Content(starts, ends, quota) ==
    [enabled |-> TRUE, starts |-> starts, ends |-> ends, quota |-> quota]

MCContents == {Content(0, 0, 1), Content(1, 2, 2)}
MCRequests == 1..3
Symmetric == Permutations(Users)
==============================================================================
