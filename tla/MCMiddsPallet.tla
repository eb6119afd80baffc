--------------------------- MODULE MCMiddsPallet ---------------------------
(***************************************************************************)
(* Small instances of MiddsPallet.  The payloads are two versions of one   *)
(* identifier's record, a short and a long one, and a record under another *)
(* identifier; sizes are in units of the per-byte price.                   *)
(***************************************************************************)
EXTENDS MiddsPallet

CONSTANTS alice, bob, A, B

Short == [ident |-> A, size |-> 2]
Long  == [ident |-> A, size |-> 3]
Other == [ident |-> B, size |-> 1]
Malformed == [ident |-> A, size |-> 4]

Half == [num |-> 1, den |-> 2]
Unit == [num |-> 1, den |-> 1]
Triple == [num |-> 3, den |-> 1]

-----------------------------------------------------------------------------
(* Self-deposits of one account against a Treasury that starts empty. *)
LedgerPayloads == {Short, Long, Other, Malformed}
LedgerValid == {Short, Long, Other}
LedgerMultipliers == {Unit}
LedgerFree == [a \in {alice, Treasury} |-> IF a = alice THEN 14 ELSE 0]

-----------------------------------------------------------------------------
(* Records of alice sponsored by bob, with the authorizations alice signs. *)
Sign(action, item, id, n, until) ==
  [action |-> action, owner |-> alice, operator |-> bob, item |-> item,
   id |-> id, nonce |-> n, valid_until |-> until]

SponsorPayloads == {Short, Long}
SponsorSigned ==
  {Sign("Deposit", Short, 0, 0, 1), Sign("Deposit", Long, 0, 0, 1),
   Sign("Update", Short, 0, 1, 2), Sign("Update", Long, 0, 1, 3),
   Sign("Remove", Short, 0, 1, 3)}
SponsorMultipliers == {Half, Unit, Triple}
SponsorFree == [a \in {alice, bob, Treasury} |-> IF a = Treasury THEN 0 ELSE 18]
=============================================================================
