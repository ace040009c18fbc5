----------------------------- MODULE SelectNext -----------------------------
(***************************************************************************)
(* The order in which the selected oracles may publish after a             *)
(* publication: select_next.py.  Its input is the hash of the              *)
(* publication's block, hashed once more, and the list of the selected     *)
(* oracles with their stakes; nodes and signers compute it from the view   *)
(* they have, and it must be an order of all of them in which the first    *)
(* one holds the draw.                                                     *)
(***************************************************************************)
EXTENDS Integers, Sequences, SequencesExt

CONSTANTS Selection,   \* the selected oracles
          Stakes,      \* bound: their stakes
          Byte         \* bound: a byte of the hash is in 0 .. Byte - 1

ASSUME SelectionAssumption ==
  /\ IsFiniteSet(Selection) /\ Selection # {}
  /\ Stakes \subseteq Nat
  /\ Byte \in Nat \ {0, 1}

VARIABLES hash,      \* the hash of the hash of the block of the last publication
          stake,     \* what the selected oracles have at stake
          infos      \* the list of the selected oracles

selVars == <<hash, stake, infos>>

Size == Cardinality(Selection)
Hash == [1 .. Size -> 0 .. Byte - 1]

-----------------------------------------------------------------------------
\* Defect: the oracle at the place is taken and left in the list.
TakeAndLeave(list, i) == IF Len(list) = 1 THEN <<>> ELSE Tail(list)

\* What l1.pop leaves.
Take(list, i) == RemoveAt(list, i)

\* After k places, the oracles that are left (l1) and those taken (l2): a byte of
\* the hash for each place picks one of those left.
Picked[k \in 0 .. Size] ==
  IF k = 0 THEN [left |-> infos, taken |-> <<>>]
  ELSE LET before == Picked[k - 1]
           i      == 1 + (hash[k] % Len(before.left))
       IN  [left |-> Take(before.left, i), taken |-> Append(before.taken, before.left[i])]

Shuffled == Picked[Size].taken

\* stake_buckets: the running sums of the stakes in that order.
Buckets[k \in 0 .. Size] == IF k = 0 THEN 0 ELSE Buckets[k - 1] + stake[Shuffled[k]]

\* The hash as a number, and the largest there is.
Number(bytes) == LET value[k \in 0 .. Size] == IF k = 0 THEN 0 ELSE value[k - 1] * Byte + bytes[k]
                 IN  value[Size]
MaxInt == Number([k \in 1 .. Size |-> Byte - 1])

\* rnd_stake * max_int
Draw == Buckets[Size] * Number(hash)

\* Defect: a draw at the limit of a bucket belongs to the next one.
BeyondFrom(k) == Draw >= Buckets[k] * MaxInt

Beyond(k) == Draw > Buckets[k] * MaxInt

\* idx: how many buckets the draw is beyond, one after the other.
Chosen == LET passed == {k \in 1 .. Size : \A j \in 1 .. k : Beyond(j)} IN Cardinality(passed)

\* select_next
Turns == [i \in 1 .. Size |-> Shuffled[1 + ((Chosen + i - 1) % Size)]]

-----------------------------------------------------------------------------
SelInit ==
  /\ hash \in Hash
  /\ stake \in [Selection -> Stakes]
  /\ infos = SetToSeq(Selection)

Publication == \E h \in Hash : hash' = h /\ UNCHANGED <<stake, infos>>

StakeMoves(o) == \E s \in Stakes : stake' = [stake EXCEPT ![o] = s] /\ UNCHANGED <<hash, infos>>

SelNext == Publication \/ \E o \in Selection : StakeMoves(o)

SelSpec == SelInit /\ [][SelNext]_selVars

-----------------------------------------------------------------------------
(* Properties *)

\* Every selected oracle has its turn, and has it once: nobody is left out of the
\* fallback sequence, which counts places of this list, and nobody is in it twice.
EveryoneOnce == \A o \in Selection : Cardinality({i \in 1 .. Size : Turns[i] = o}) = 1

\* An oracle with nothing at stake is not chosen, but by a draw of zero or when
\* nobody has anything at stake.
StakelessIsNotChosen == stake[Turns[1]] = 0 => Draw = 0
=============================================================================
