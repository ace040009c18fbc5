------------------------- MODULE MCPricePublication -------------------------
(* Small instances of PricePublication. *)
EXTENDS PricePublication

CONSTANTS n1, n2, n3

Rotate(s, k) == [i \in 1 .. Len(s) |-> s[1 + ((i - 1 + k) % Len(s))]]

OrderOf(rounds) ==
  [r \in DOMAIN rounds |-> [b \in 0 .. MaxBlock |-> Rotate(rounds[r], b)]]

\* One round of all three nodes, or a second round that leaves one of them out.
OneRound  == OrderOf(<< <<n1, n2, n3>> >>)
TwoRounds == OrderOf(<< <<n1, n2, n3>>, <<n3, n2>> >>)
OneOfTwo  == OrderOf(<< <<n1, n2>> >>)

OnePerBlock == <<1, 2>>   \* entering amounts: one more fallback per block
OneFallback == <<1>>      \* entering amounts: one fallback
=============================================================================
