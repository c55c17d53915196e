------------------------------ MODULE MenuList ------------------------------
(***************************************************************************)
(* What menu.c promises its callers: an ordered collection of menus with a *)
(* cursor, each with an ordered collection of entries and a cursor.  Adding*)
(* appends, moving goes round, and each is one indivisible step.           *)
(***************************************************************************)
EXTENDS Naturals, Sequences

CONSTANTS
  Names, Entries,
  Requests   (* pairs <<n, e>>: some task asks for entry e on menu n        *)

VARIABLES
  list,   (* the menus, in the order they are displayed                    *)
  at,     (* position of the selected menu, 0 when there is none           *)
  items,  (* items[n]: the entries of menu n                               *)
  pick    (* pick[n]: position of the selected entry of n                  *)

listVars == <<list, at, items, pick>>

InSeq(s, x) == \E i \in DOMAIN s : s[i] = x

Init ==
  /\ list = <<>> /\ at = 0
  /\ items = [n \in Names |-> <<>>]
  /\ pick = [n \in Names |-> 0]

(* A cursor is on the first element as soon as there is one. *)
Appended(i) == IF i = 0 THEN 1 ELSE i

(* One position on or back, from either end to the other. *)
Round(i, len) == {(i % len) + 1, ((i + len - 2) % len) + 1}

NewMenu(n) ==
  /\ ~InSeq(list, n)
  /\ list' = Append(list, n) /\ at' = Appended(at)
  /\ UNCHANGED <<items, pick>>

NewItem(n, e) ==
  /\ InSeq(list, n) /\ <<n, e>> \in Requests
  /\ \A m \in Names : ~InSeq(items[m], e)
  /\ items' = [items EXCEPT ![n] = Append(@, e)]
  /\ pick'  = [pick EXCEPT ![n] = Appended(@)]
  /\ UNCHANGED <<list, at>>

MoveMenu ==
  /\ list # <<>>
  /\ at' \in Round(at, Len(list))
  /\ UNCHANGED <<list, items, pick>>

(* Only the entries of the selected menu can be moved through. *)
MoveItem ==
  /\ list # <<>>
  /\ LET n == list[at]
     IN /\ items[n] # <<>>
        /\ \E i \in Round(pick[n], Len(items[n])) : pick' = [pick EXCEPT ![n] = i]
  /\ UNCHANGED <<list, at, items>>

Next ==
  \/ \E n \in Names : NewMenu(n)
  \/ \E n \in Names, e \in Entries : NewItem(n, e)
  \/ MoveMenu \/ MoveItem

ListSpec == Init /\ [][Next]_listVars
=============================================================================
