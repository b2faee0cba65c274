-------------------------------- MODULE List --------------------------------
(***************************************************************************)
(* The doubly linked list of user-modules/List.h and List_tpp.h, pointer   *)
(* by pointer, as the broker uses it: one call at a time, items that are   *)
(* not null.  The limit _numItems can only be left at its initial value    *)
(* 0xFFFFFFFF (setLimit names an exception that does not exist, so it      *)
(* compiles in no program), and is never reached.                          *)
(***************************************************************************)
EXTENDS Naturals, Sequences, FiniteSets

CONSTANTS
  HeapSize,  \* ListItem blocks malloc can hand out
  Items

ASSUME HeapAssumption == HeapSize \in Nat \ {0}

Nodes == 1..HeapSize
Null  == 0

VARIABLES
  alloc,   \* allocated blocks
  prev, next, item,              \* the fields of struct ListItem
  first, last, search, count,    \* the fields of List
  ret,     \* what the last getFirstItem, getNextItem or searchItem returned
  life     \* "alive", "dying" in the destructor, "dead", or "fault"

links == <<prev, next, item>>
ends  == <<first, last, count>>
vars  == <<alloc, links, ends, search, ret, life>>

-----------------------------------------------------------------------------
(* Reading the structure. *)

\* The nodes met from _first by following next.
NodeAt[i \in Nodes] ==
  IF i = 1 THEN first ELSE IF NodeAt[i - 1] = Null THEN Null ELSE next[NodeAt[i - 1]]
ChainLength == Cardinality({i \in Nodes : NodeAt[i] # Null})
Chain == [i \in 1..ChainLength |-> NodeAt[i]]
InChain(n) == \E i \in DOMAIN Chain : Chain[i] = n
Contents == [i \in DOMAIN Chain |-> item[Chain[i]]]

\* The node removeItem(T*) and searchItem(T*) stop at: the first one with item x.
Holding(x) == {i \in DOMAIN Chain : Contents[i] = x}
LastHolding(x)  == Chain[CHOOSE i \in Holding(x) : \A j \in Holding(x) : i >= j]  \* mutant
FirstHolding(x) == Chain[CHOOSE i \in Holding(x) : \A j \in Holding(x) : i <= j]

ItemOf(n) == IF n = Null THEN Null ELSE item[n]

-----------------------------------------------------------------------------
\* addItem: malloc's null is not examined, and writing through it is a fault.
addItem(x) ==
  /\ life = "alive"
  /\ \/ \E n \in Nodes \ alloc :
          /\ alloc' = alloc \union {n}
          /\ item' = [item EXCEPT ![n] = x]
          /\ IF count = 0
               THEN /\ first' = n /\ last' = n
                    /\ prev' = [prev EXCEPT ![n] = Null]
                    /\ next' = [next EXCEPT ![n] = Null]
               ELSE /\ next' = [next EXCEPT ![last] = n, ![n] = Null]
                    /\ prev' = [prev EXCEPT ![n] = last]
                    /\ last' = n /\ UNCHANGED first
          /\ count' = count + 1
          /\ UNCHANGED <<search, ret, life>>
     \/ /\ alloc = Nodes
        /\ life' = "fault"
        /\ UNCHANGED <<alloc, links, ends, search, ret>>

\* Mutants: _last keeps pointing to the freed node; free is forgotten.
LastKept(n) == last
NotFreed(n) == alloc

LastWithout(n) == IF next[n] = Null THEN prev[n] ELSE last
Freed(n) == alloc \ {n}

\* The private removeItem(ListItem*): _search is only reset with the last node.
Unlink(n) ==
  /\ IF prev[n] = Null
       THEN IF next[n] = Null
              THEN /\ first' = Null /\ last' = Null /\ count' = 0 /\ search' = Null
                   /\ UNCHANGED <<prev, next>>
              ELSE /\ first' = next[n]
                   /\ prev' = [prev EXCEPT ![next[n]] = Null]
                   /\ count' = count - 1
                   /\ UNCHANGED <<next, last, search>>
       ELSE /\ next' = [next EXCEPT ![prev[n]] = next[n]]
            /\ prev' = IF next[n] = Null THEN prev ELSE [prev EXCEPT ![next[n]] = prev[n]]
            /\ last' = LastWithout(n)
            /\ count' = count - 1
            /\ UNCHANGED <<first, search>>
  /\ alloc' = Freed(n)
  /\ UNCHANGED item

\* removeItem(T*): the do-while reads _first->item before it looks for null.
removeItem(x) ==
  /\ life = "alive" /\ UNCHANGED ret
  /\ IF first = Null
       THEN life' = "fault" /\ UNCHANGED <<alloc, links, ends, search>>
       ELSE /\ UNCHANGED life
            /\ IF Holding(x) = {}
                 THEN UNCHANGED <<alloc, links, ends, search>>   \* ITEM_NOT_FOUND
                 ELSE Unlink(FirstHolding(x))

getFirstItem ==
  /\ life = "alive"
  /\ search' = first /\ ret' = ItemOf(first)
  /\ UNCHANGED <<alloc, links, ends, life>>

\* A freed node under the cursor is read all the same.
getNextItem ==
  /\ life = "alive"
  /\ IF search \in {Null} \union alloc
       THEN /\ search' = IF search = Null THEN Null ELSE next[search]
            /\ ret' = ItemOf(search')
            /\ UNCHANGED life
       ELSE life' = "fault" /\ UNCHANGED <<search, ret>>
  /\ UNCHANGED <<alloc, links, ends>>

searchItem(x) ==
  /\ life = "alive"
  /\ search' = IF Holding(x) = {} THEN Null ELSE FirstHolding(x)
  /\ ret' = IF Holding(x) = {} THEN Null ELSE x
  /\ UNCHANGED <<alloc, links, ends, life>>

\* ~List: while(_first) removeItem(_last)
Destroy ==
  /\ life = "alive" /\ life' = "dying"
  /\ UNCHANGED <<alloc, links, ends, search, ret>>

DestroyStep ==
  /\ life = "dying" /\ UNCHANGED ret
  /\ IF first = Null
       THEN life' = "dead" /\ UNCHANGED <<alloc, links, ends, search>>
       ELSE Unlink(last) /\ UNCHANGED life

Init ==
  /\ alloc = {} /\ first = Null /\ last = Null /\ search = Null /\ count = 0
  /\ prev = [n \in Nodes |-> Null] /\ next = [n \in Nodes |-> Null]
  /\ item = [n \in Nodes |-> Null]
  /\ ret = Null /\ life = "alive"

Calls == \/ getFirstItem \/ getNextItem
         \/ \E x \in Items : addItem(x) \/ removeItem(x) \/ searchItem(x)

Next == Calls \/ Destroy \/ DestroyStep

Spec == Init /\ [][Next]_vars
FairSpec == Spec /\ WF_vars(DestroyStep)

-----------------------------------------------------------------------------
(* Properties *)

\* The links mirror each other from _first to _last, _count is their number,
\* and every block malloc handed out is linked: nothing leaks.
WellFormed ==
  /\ count = ChainLength
  /\ alloc = {Chain[i] : i \in DOMAIN Chain}
  /\ IF count = 0 THEN first = Null /\ last = Null
     ELSE prev[first] = Null /\ last = Chain[count] /\ next[last] = Null
  /\ \A i \in 2..count : prev[Chain[i]] = Chain[i - 1]

\* The destructor frees every node and ends.
Destroyed == life = "dying" ~> life = "dead" /\ alloc = {}

\* The list is the sequence List.h describes, with its cursor, while it lives.
Position == CHOOSE i \in 0..ChainLength : IF i = 0 THEN search = Null ELSE Chain[i] = search
Cursor == IF search = Null \/ InChain(search) THEN Position ELSE 0 - 1
Promise == INSTANCE ItemList WITH seq <- Contents, pos <- Cursor
ImplementsItemList == Promise!Init /\ [][life = "alive" => Promise!Next]_<<Contents, Cursor, ret>>
=============================================================================
