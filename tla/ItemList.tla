------------------------------ MODULE ItemList ------------------------------
(***************************************************************************)
(* What List.h promises: a sequence of items and one cursor over it.       *)
(* Removing the item under the cursor leaves the cursor anywhere until the *)
(* next getFirstItem or searchItem: List.h says nothing about it.          *)
(***************************************************************************)
EXTENDS Integers, Sequences

CONSTANTS Items, Null

VARIABLES
  seq,   \* the items, in order
  pos,   \* index of the cursor, 0 past the end, Lost when unspecified
  ret    \* what the last call gave back

vars == <<seq, pos, ret>>

Lost == -1
Anywhere == {Lost} \union 0..Len(seq')

IndexOf(x) == CHOOSE i \in DOMAIN seq : seq[i] = x /\ \A j \in 1..(i - 1) : seq[j] # x
Has(x) == \E i \in DOMAIN seq : seq[i] = x

Init == seq = <<>> /\ pos = 0 /\ ret = Null

addItem(x) ==
  /\ seq' = Append(seq, x)
  /\ IF pos = Lost THEN pos' \in Anywhere ELSE UNCHANGED pos
  /\ UNCHANGED ret

removeItem(x) ==
  /\ Has(x)
  /\ LET i == IndexOf(x) IN
       /\ seq' = SubSeq(seq, 1, i - 1) \o SubSeq(seq, i + 1, Len(seq))
       /\ IF seq' = <<>> THEN pos' = 0
          ELSE IF pos \in {Lost, i} THEN pos' \in Anywhere
          ELSE pos' = IF pos > i THEN pos - 1 ELSE pos
  /\ UNCHANGED ret

getFirstItem ==
  /\ pos' = IF seq = <<>> THEN 0 ELSE 1
  /\ ret' = IF seq = <<>> THEN Null ELSE seq[1]
  /\ UNCHANGED seq

getNextItem ==
  /\ pos # Lost
  /\ pos' = IF pos \in 1..(Len(seq) - 1) THEN pos + 1 ELSE 0
  /\ ret' = IF pos' = 0 THEN Null ELSE seq[pos']
  /\ UNCHANGED seq

searchItem(x) ==
  /\ pos' = IF Has(x) THEN IndexOf(x) ELSE 0
  /\ ret' = IF Has(x) THEN x ELSE Null
  /\ UNCHANGED seq

Next == \/ getFirstItem \/ getNextItem
        \/ \E x \in Items : addItem(x) \/ removeItem(x) \/ searchItem(x)

Spec == Init /\ [][Next]_vars
=============================================================================
