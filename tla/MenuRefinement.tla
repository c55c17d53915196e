--------------------------- MODULE MenuRefinement ---------------------------
(* The linked lists of Menu implement the lists of MenuList. *)
EXTENDS Menu, TLC

(* The nodes from h on, in the order of their next links, of which there   *)
(* are at most N.                                                          *)
Path(h, N) ==
  LET f[i \in 1..N] ==
        IF i = 1 THEN h ELSE LET n == f[i - 1] IN IF n = NULL THEN NULL ELSE next[n]
  IN SelectSeq(f, LAMBDA n : n # NULL)

(* A move takes effect when the new node is selected; until then the       *)
(* cursor is where the move started.                                       *)
Moving  == pc[Gui] \in {"step", "wrap", "set"}
FarEnd(p) == IF job.dir = "fwd" THEN p[Len(p)] ELSE p[1]
Origin(p) ==
  CASE pc[Gui] = "step" -> cur[Gui]
    [] pc[Gui] = "set" /\ Behind(cur[Gui]) # NULL -> Behind(cur[Gui])
    [] OTHER -> FarEnd(p)

InPath(p, n) == \E i \in DOMAIN p : p[i] = n

Cursor(p) ==
  IF p = <<>> THEN 0
  ELSE LET Chosen(n) == IF Moving /\ InPath(p, cur[Gui])
                        THEN n = Origin(p)
                        ELSE sel[n] = 1 /\ ~\E t \in Adders : pc[t] = "flag" /\ new[t] = n
           S == {i \in DOMAIN p : Chosen(p[i])}
       IN IF S = {} THEN 1 ELSE CHOOSE i \in S : TRUE

MenuPath == Path(menus, Cardinality(Menus))

ListOfNames == LET p == MenuPath IN [i \in DOMAIN p |-> name[p[i]]]

ItemsOf(n) ==
  LET M == {m \in Menus : Linked(m) /\ name[m] = n}
  IN IF M = {} THEN <<>> ELSE Path(kids[CHOOSE m \in M : TRUE], Cardinality(Entries))

AllRequests ==
  UNION {UNION {{<<AddCalls[t][i].name, AddCalls[t][i].entries[j]>> :
                   j \in DOMAIN AddCalls[t][i].entries} : i \in DOMAIN AddCalls[t]} : t \in Adders}

List == INSTANCE MenuList WITH
  Requests <- AllRequests,
  list  <- ListOfNames,
  at    <- Cursor(MenuPath),
  items <- [n \in Names |-> ItemsOf(n)],
  pick  <- [n \in Names |-> Cursor(ItemsOf(n))]

(* Every interleaving of menu_add calls with the handler's moves looks to  *)
(* the user like indivisible operations on one ordered list: nothing is    *)
(* lost, duplicated or reordered and the cursor moves by one, with wrap.   *)
ImplementsMenuList == List!ListSpec

-----------------------------------------------------------------------------
(* A small instance: the init task, which creates two menus and adds an    *)
(* entry to one of them, and a task that adds two entries to that menu, of *)
(* which it may be the first to ask, and creates a third one: three menus  *)
(* and three entries tell forward from backward.                           *)
CONSTANTS m1, m2, m3, e1, e2, e3, audio, debug, brack, boot, sounddev

MCMenus   == {m1, m2, m3}
MCEntries == {e1, e2, e3}
MCNames   == {audio, debug, brack}
MCAdders  == {boot, sounddev}
MCAddCalls ==
  boot :> << [name |-> audio, entries |-> <<>>], [name |-> debug, entries |-> <<e1>>] >>
  @@ sounddev :> << [name |-> debug, entries |-> <<e2, e3>>], [name |-> brack, entries |-> <<>>] >>
=============================================================================
