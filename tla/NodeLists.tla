------------------------------ MODULE NodeLists ------------------------------
(***************************************************************************)
(* The lists of nodes the runtime keeps: the stack of nodes of an          *)
(* executor (std::vector<Node*>), the waiting lists of an agent and the    *)
(* list of the nodes an event is being dispatched to (NodeLinkedList).     *)
(* A list is a sequence of nodes.                                          *)
(***************************************************************************)
EXTENDS Naturals, Sequences

\* What std::vector::erase(std::remove(...)) leaves of s, and what unlinking
\* every node of S leaves of an intrusive list: the other nodes, in order.
\* Kept(s, S)[i] is what is left of the first i of s.
Kept(s, S) ==
  LET kept[i \in 0..Len(s)] ==
        IF i = 0 THEN <<>>
        ELSE IF s[i] \in S THEN kept[i-1] ELSE Append(kept[i-1], s[i])
  IN  kept

Without(s, S) == Kept(s, S)[Len(s)]

Elements(s) == {s[i] : i \in 1..Len(s)}

NoRepeats(s) == \A i, j \in 1..Len(s) : s[i] = s[j] => i = j

\* The elements of T are in s at most once.
Once(s, T) == \A i, j \in 1..Len(s) : s[i] = s[j] /\ s[i] \in T => i = j

Last(s) == s[Len(s)]

Reversed(s) == [i \in 1..Len(s) |-> s[Len(s) - i + 1]]

Front(s) == SubSeq(s, 1, Len(s) - 1)

\* s with the first occurrence of each element only.
Firsts(s) ==
  LET again == {i \in 1..Len(s) : \E j \in 1..Len(s) : j < i /\ s[j] = s[i]}
      first == Without([i \in 1..Len(s) |-> i], again)
  IN  [j \in 1..Len(first) |-> s[first[j]]]
=============================================================================
