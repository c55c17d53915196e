-------------------------------- MODULE Menu --------------------------------
(***************************************************************************)
(* The menu lists of menu.c: a doubly linked list of menus, each with a    *)
(* doubly linked list of entries, built concurrently by the tasks that     *)
(* call menu_add and walked by the task that runs menu_handler.  menu_sem  *)
(* protects the lists; the handler's search for the selected menu runs     *)
(* without it.  One action per access to the shared lists.                 *)
(***************************************************************************)
EXTENDS Naturals, Sequences, FiniteSets

CONSTANTS
  NULL,       (* the null pointer                                          *)
  Menus,      (* the blocks malloc may return for a struct menu            *)
  Entries,    (* the statically allocated struct menu_entry objects        *)
  Names,      (* the menu names passed to menu_add                         *)
  Adders,     (* the tasks that call menu_add                              *)
  Boot,       (* the adder that runs menu_init and creates menu_task       *)
  Gui,        (* the task that runs menu_handler                           *)
  AddCalls    (* AddCalls[t]: the calls task t makes, in program order; a  *)
              (* call with no entry is a bare menu_find_by_name            *)

Tasks == Adders \cup {Gui}
Nodes == Menus \cup Entries
Call  == [name : Names, entries : Seq(Entries)]

ASSUME MenuAssumption ==
  /\ Boot \in Adders
  /\ Gui \notin Adders
  /\ Menus \cap Entries = {}
  /\ NULL \notin Nodes \cup Names
  /\ AddCalls \in [Adders -> Seq(Call)]
  /\ IsFiniteSet(Menus)
  (* Each call passes an array of its own: no entry is added twice. *)
  /\ \A t, u \in Adders : \A k \in DOMAIN AddCalls[t], l \in DOMAIN AddCalls[u] :
       \A i \in DOMAIN AddCalls[t][k].entries, j \in DOMAIN AddCalls[u][l].entries :
         AddCalls[t][k].entries[i] = AddCalls[u][l].entries[j] => t = u /\ k = l /\ i = j

VARIABLES
  menus,      (* head of the list of menus                                 *)
  name,       (* name[m]: menu->name; NULL while m is not allocated        *)
  kids,       (* kids[m]: menu->children                                   *)
  next, prev, (* the links of a menu or of an entry                        *)
  sel,        (* the selected flag of a menu or of an entry                *)
  menu_sem,   (* count of the semaphore                                    *)
  pc,         (* where each task is                                        *)
  cur,        (* cur[t]: the node t's walk has reached                     *)
  new,        (* new[t]: the struct menu t has allocated                   *)
  calls,      (* calls[t]: the calls t has still to finish                 *)
  job         (* what the event being handled asks for                     *)

lists == <<menus, name, kids, next, prev, sel>>
vars  == <<menus, name, kids, next, prev, sel, menu_sem, pc, cur, new, calls, job>>

Dirs == {"back", "fwd"}
Jobs == [op : {"menu", "entry"}, dir : Dirs] \cup [op : {"select", "display"}, dir : {"fwd"}]

(* The places where a task is inside the critical section. *)
AdderCS == {"find", "alloc", "link", "flag", "tail"}
GuiCS   == {"seek", "step", "wrap", "set"}
PCs == {"idle", "add", "search", "act"} \cup AdderCS \cup GuiCS

Init ==
  /\ menus = NULL
  /\ name = [m \in Menus |-> NULL]
  /\ kids = [m \in Menus |-> NULL]
  /\ next = [n \in Nodes |-> NULL]
  /\ prev = [n \in Nodes |-> NULL]
  /\ sel  = [n \in Nodes |-> 0]
  /\ menu_sem = 1
  /\ pc    = [t \in Tasks |-> "idle"]
  /\ cur   = [t \in Tasks |-> NULL]
  /\ new   = [t \in Adders |-> NULL]
  /\ calls = AddCalls
  /\ job = [op |-> "display", dir |-> "fwd"]

Goto(t, l) == pc' = [pc EXCEPT ![t] = l]
At(t, n)   == cur' = [cur EXCEPT ![t] = n]

(* Faulty: does not wait for the semaphore.                                *)
TakeNoWait == menu_sem' = 0

(* take_semaphore with timeout 0 waits for as long as it takes. *)
Take == menu_sem > 0 /\ menu_sem' = menu_sem - 1
Give == menu_sem' = menu_sem + 1

(* The call t is making, and its return. *)
Arg(t)    == Head(calls[t])
Return(t) == calls' = [calls EXCEPT ![t] = Tail(@)] /\ Goto(t, "idle")

-----------------------------------------------------------------------------
(* menu_find_by_name *)

FindTake(t) ==
  /\ pc[t] = "idle" /\ calls[t] # <<>>
  /\ Take
  /\ At(t, menus) /\ Goto(t, "find")
  /\ UNCHANGED <<lists, new, calls, job>>

FindStep(t) ==
  /\ pc[t] = "find" /\ cur[t] # NULL
  /\ name[cur[t]] # Arg(t).name /\ next[cur[t]] # NULL
  /\ At(t, next[cur[t]])
  /\ UNCHANGED <<lists, menu_sem, pc, new, calls, job>>

(* After the find: menu_add goes on to the entries, a bare find returns. *)
Found(t) ==
  IF Arg(t).entries = <<>> THEN Return(t) ELSE Goto(t, "add") /\ UNCHANGED calls

FindHit(t) ==
  /\ pc[t] = "find" /\ cur[t] # NULL
  /\ name[cur[t]] = Arg(t).name
  /\ Give /\ Found(t)
  /\ UNCHANGED <<lists, cur, new, job>>

(* Faulty: the name of the last menu is not compared.                      *)
FindMissEarly(t) ==
  /\ pc[t] = "find"
  /\ cur[t] # NULL => next[cur[t]] = NULL
  /\ Goto(t, "alloc")
  /\ UNCHANGED <<lists, menu_sem, cur, new, calls, job>>

FindMiss(t) ==
  /\ pc[t] = "find"
  /\ cur[t] # NULL => name[cur[t]] # Arg(t).name /\ next[cur[t]] = NULL
  /\ Goto(t, "alloc")
  /\ UNCHANGED <<lists, menu_sem, cur, new, calls, job>>

(* Faulty: the error path keeps the semaphore.                             *)
AllocFailKeep(t) ==
  /\ pc[t] = "alloc"
  /\ Return(t)
  /\ UNCHANGED <<lists, menu_sem, cur, new, job>>

(* malloc returns no memory: menu_find_by_name and menu_add give up. *)
AllocFail(t) ==
  /\ pc[t] = "alloc"
  /\ Give /\ Return(t)
  /\ UNCHANGED <<lists, cur, new, job>>

(* The fresh block is filled in before anyone can reach it, all but its    *)
(* selected field, which holds whatever malloc left there.                 *)
Alloc(t) ==
  /\ pc[t] = "alloc"
  /\ \E m \in Menus, g \in {0, 1} :
       /\ name[m] = NULL
       /\ name' = [name EXCEPT ![m] = Arg(t).name]
       /\ prev' = [prev EXCEPT ![m] = cur[t]]
       /\ next' = [next EXCEPT ![m] = NULL]
       /\ kids' = [kids EXCEPT ![m] = NULL]
       /\ sel'  = [sel EXCEPT ![m] = g]
       /\ new'  = [new EXCEPT ![t] = m]
  /\ Goto(t, "link")
  /\ UNCHANGED <<menus, menu_sem, cur, calls, job>>

Link(t) ==
  /\ pc[t] = "link"
  /\ IF cur[t] # NULL
     THEN next' = [next EXCEPT ![cur[t]] = new[t]] /\ UNCHANGED menus
     ELSE menus' = new[t] /\ UNCHANGED next
  /\ Goto(t, "flag")
  /\ UNCHANGED <<name, kids, prev, sel, menu_sem, cur, new, calls, job>>

(* Only now is the selected field of the linked menu initialised. *)
Flag(t) ==
  /\ pc[t] = "flag"
  /\ sel' = [sel EXCEPT ![new[t]] = IF cur[t] = NULL THEN 1 ELSE 0]
  /\ At(t, new[t])
  /\ Give /\ Found(t)
  /\ UNCHANGED <<menus, name, kids, next, prev, new, job>>

-----------------------------------------------------------------------------
(* menu_add, after the menu was found.  new_entry++ and count-- consume    *)
(* the entries of the call one by one.                                     *)

Consume(t) == calls' = [calls EXCEPT ![t][1].entries = Tail(@)]

(* Faulty: the entries go to the first menu instead of the one found.      *)
AddTakeFirst(t) ==
  /\ pc[t] = "add"
  /\ Take
  /\ LET e == Head(Arg(t).entries)
     IN IF kids[menus] = NULL
        THEN /\ kids' = [kids EXCEPT ![menus] = e]
             /\ sel'  = [sel EXCEPT ![e] = 1]
             /\ At(t, e) /\ Consume(t)
        ELSE At(t, kids[menus]) /\ UNCHANGED <<kids, sel, calls>>
  /\ Goto(t, "tail")
  /\ UNCHANGED <<menus, name, next, prev, new, job>>

AddTake(t) ==
  /\ pc[t] = "add"
  /\ Take
  /\ LET m == cur[t]
         e == Head(Arg(t).entries)
     IN IF kids[m] = NULL
        THEN /\ kids' = [kids EXCEPT ![m] = e]
             /\ next' = [next EXCEPT ![e] = NULL]
             /\ prev' = [prev EXCEPT ![e] = NULL]
             /\ sel'  = [sel EXCEPT ![e] = 1]
             /\ At(t, e) /\ Consume(t)
        ELSE /\ At(t, kids[m])
             /\ UNCHANGED <<kids, next, prev, sel, calls>>
  /\ Goto(t, "tail")
  /\ UNCHANGED <<menus, name, new, job>>

AddWalk(t) ==
  /\ pc[t] = "tail" /\ next[cur[t]] # NULL
  /\ At(t, next[cur[t]])
  /\ UNCHANGED <<lists, menu_sem, pc, new, calls, job>>

AddEntry(t) ==
  /\ pc[t] = "tail" /\ next[cur[t]] = NULL /\ Arg(t).entries # <<>>
  /\ LET e == Head(Arg(t).entries)
     IN /\ sel'  = [sel EXCEPT ![e] = 0]
        /\ next' = [next EXCEPT ![e] = next[cur[t]], ![cur[t]] = e]
        /\ prev' = [prev EXCEPT ![e] = cur[t]]
        /\ At(t, e)
  /\ Consume(t)
  /\ UNCHANGED <<menus, name, kids, menu_sem, pc, new, job>>

AddDone(t) ==
  /\ pc[t] = "tail" /\ next[cur[t]] = NULL /\ Arg(t).entries = <<>>
  /\ Give /\ Return(t)
  /\ UNCHANGED <<lists, cur, new, job>>

-----------------------------------------------------------------------------
(* menu_handler.  menu_task, which lets the menu be opened, is created     *)
(* after menu_init, so no event arrives before Boot's calls are done.      *)

Event ==
  /\ pc[Gui] = "idle" /\ pc[Boot] = "idle" /\ calls[Boot] = <<>>
  /\ job' \in Jobs
  /\ At(Gui, menus) /\ Goto(Gui, "search")
  /\ UNCHANGED <<lists, menu_sem, new, calls>>

(* The search for the selected menu, without menu_sem, and the argument of *)
(* menus_display.  With no menu there is nothing to move or to select.     *)
Search ==
  /\ pc[Gui] = "search"
  /\ IF cur[Gui] # NULL /\ sel[cur[Gui]] = 0
     THEN At(Gui, next[cur[Gui]]) /\ UNCHANGED pc
     ELSE IF job.op = "display"
          THEN At(Gui, menus) /\ Goto(Gui, "act")
          ELSE UNCHANGED cur /\ Goto(Gui, IF cur[Gui] = NULL THEN "idle" ELSE "act")
  /\ UNCHANGED <<lists, menu_sem, new, calls, job>>

(* menu_move deselects what it found; menu_entry_move and                  *)
(* menu_entry_select first look for the selected entry.                    *)
ActTake ==
  /\ pc[Gui] = "act"
  /\ Take
  /\ CASE job.op = "menu" ->
            /\ sel' = [sel EXCEPT ![cur[Gui]] = 0]
            /\ Goto(Gui, "step") /\ UNCHANGED cur
       [] job.op = "display" ->
            /\ Goto(Gui, "seek") /\ UNCHANGED <<cur, sel>>
       [] OTHER ->
            /\ At(Gui, kids[cur[Gui]]) /\ Goto(Gui, "seek") /\ UNCHANGED sel
  /\ UNCHANGED <<menus, name, kids, next, prev, new, calls, job>>

(* menu_move and menu_entry_move wait for at most 100 ms. *)
ActTimeout ==
  /\ pc[Gui] = "act" /\ job.op \in {"menu", "entry"} /\ menu_sem = 0
  /\ Goto(Gui, "idle")
  /\ UNCHANGED <<lists, menu_sem, cur, new, calls, job>>

(* menus_display goes to the end of the list, drawing the entries of the   *)
(* selected menu on the way; the others stop at the selected entry.        *)
Wanted == job.op # "display" /\ cur[Gui] # NULL /\ sel[cur[Gui]] = 1

Seek ==
  /\ pc[Gui] = "seek" /\ cur[Gui] # NULL /\ ~Wanted
  /\ At(Gui, next[cur[Gui]])
  /\ UNCHANGED <<lists, menu_sem, pc, new, calls, job>>

(* The entry to select was found (its select is called after the give), or *)
(* there was none, or everything has been drawn.                           *)
SeekEnd ==
  /\ pc[Gui] = "seek"
  /\ cur[Gui] = NULL \/ (job.op = "select" /\ Wanted)
  /\ Give /\ Goto(Gui, "idle")
  /\ UNCHANGED <<lists, cur, new, calls, job>>

Deselect ==
  /\ pc[Gui] = "seek" /\ job.op = "entry" /\ Wanted
  /\ sel' = [sel EXCEPT ![cur[Gui]] = 0]
  /\ Goto(Gui, "step")
  /\ UNCHANGED <<menus, name, kids, next, prev, menu_sem, cur, new, calls, job>>

Ahead(n)  == IF job.dir = "fwd" THEN next[n] ELSE prev[n]
Behind(n) == IF job.dir = "fwd" THEN prev[n] ELSE next[n]

(* To the neighbour, or, at this end of the list, back to the other end. *)
Step ==
  /\ pc[Gui] = "step"
  /\ IF Ahead(cur[Gui]) # NULL
     THEN At(Gui, Ahead(cur[Gui])) /\ Goto(Gui, "set")
     ELSE UNCHANGED cur /\ Goto(Gui, "wrap")
  /\ UNCHANGED <<lists, menu_sem, new, calls, job>>

Wrap ==
  /\ pc[Gui] = "wrap"
  /\ IF Behind(cur[Gui]) # NULL
     THEN At(Gui, Behind(cur[Gui])) /\ UNCHANGED pc
     ELSE UNCHANGED cur /\ Goto(Gui, "set")
  /\ UNCHANGED <<lists, menu_sem, new, calls, job>>

Select ==
  /\ pc[Gui] = "set"
  /\ sel' = [sel EXCEPT ![cur[Gui]] = 1]
  /\ Give /\ Goto(Gui, "idle")
  /\ UNCHANGED <<menus, name, kids, next, prev, cur, new, calls, job>>

-----------------------------------------------------------------------------
Adder(t) ==
  \/ FindTake(t) \/ FindStep(t) \/ FindHit(t) \/ FindMiss(t)
  \/ AllocFail(t) \/ Alloc(t) \/ Link(t) \/ Flag(t)
  \/ AddTake(t) \/ AddWalk(t) \/ AddEntry(t) \/ AddDone(t)

Handler ==
  \/ Search \/ ActTake \/ ActTimeout
  \/ Seek \/ SeekEnd \/ Deselect \/ Step \/ Wrap \/ Select

Next == (\E t \in Adders : Adder(t)) \/ Event \/ Handler

Spec == Init /\ [][Next]_vars

(* Tasks are scheduled, and a task that waits for menu_sem gets it some    *)
(* day although others take it again and again.                            *)
Fairness ==
  /\ \A t \in Adders : SF_vars(FindTake(t)) /\ SF_vars(AddTake(t)) /\ WF_vars(Adder(t))
  /\ SF_vars(ActTake) /\ WF_vars(Handler)

FairSpec == Spec /\ Fairness

-----------------------------------------------------------------------------
(* Properties *)

TypeOK ==
  /\ menus \in Menus \cup {NULL}
  /\ name \in [Menus -> Names \cup {NULL}]
  /\ kids \in [Menus -> Entries \cup {NULL}]
  /\ next \in [Nodes -> Nodes \cup {NULL}]
  /\ prev \in [Nodes -> Nodes \cup {NULL}]
  /\ sel \in [Nodes -> {0, 1}]
  /\ menu_sem \in {0, 1}
  /\ pc \in [Tasks -> PCs]
  /\ cur \in [Tasks -> Nodes \cup {NULL}]
  /\ new \in [Adders -> Menus \cup {NULL}]
  /\ calls \in [Adders -> Seq(Call)]
  /\ job \in Jobs

InCS(t) == pc[t] \in AdderCS \cup GuiCS

(* At most one task is between a take_semaphore( menu_sem ) and its give,  *)
(* and the count says whether one is: every path out of menu_find_by_name, *)
(* menu_add, menu_move, menu_entry_move and menu_entry_select, the error   *)
(* paths included, gives the semaphore back exactly once.                  *)
MutualExclusion ==
  /\ \A t, u \in Tasks : InCS(t) /\ InCS(u) => t = u
  /\ (menu_sem = 0) <=> (\E t \in Tasks : InCS(t))

(* A node that is on a list: its links may be followed by the walkers.     *)
Linked(n) == n = menus \/ (\E m \in Nodes : next[m] = n) \/ (\E m \in Menus : kids[m] = n)

(* next and prev are inverse on everything that is linked, the heads have  *)
(* no predecessor, and menus and entries never mix: what menu_move and     *)
(* menu_entry_move rely on when they wrap around, while others insert.     *)
ListsWellFormed ==
  /\ \A n \in Nodes : next[n] # NULL =>
       /\ prev[next[n]] = n
       /\ n \in Menus <=> next[n] \in Menus
  /\ \A n \in Nodes : Linked(n) /\ prev[n] # NULL => next[prev[n]] = n
  /\ menus # NULL => prev[menus] = NULL
  /\ \A m \in Menus : kids[m] # NULL => kids[m] \in Entries /\ prev[kids[m]] = NULL

(* Two menus on the list never have the same name, whichever tasks ask for *)
(* a menu of that name first (menu_find_by_name: "Not found; create it").  *)
UniqueNames ==
  \A m, n \in Menus : Linked(m) /\ Linked(n) /\ name[m] = name[n] => m = n

(* When no task is inside, exactly one menu is selected, and exactly one   *)
(* entry of each menu that has entries ("Select the new one, which might   *)
(* be the same as the old one").                                           *)
OneSelected ==
  menu_sem = 1 =>
    /\ menus # NULL => Cardinality({m \in Menus : Linked(m) /\ sel[m] = 1}) = 1
    /\ Cardinality({e \in Entries : Linked(e) /\ sel[e] = 1})
         = Cardinality({m \in Menus : kids[m] # NULL})

(* The menu that menu_handler found without the lock is still the selected *)
(* one when the lock is taken to act on it, although menus are created in  *)
(* between and a new menu is linked before its selected field is set.      *)
SearchIsCurrent ==
  pc[Gui] = "act" /\ job.op # "display" =>
    /\ sel[cur[Gui]] = 1 /\ Linked(cur[Gui])
    /\ \A m \in Menus : Linked(m) /\ sel[m] = 1 =>
         m = cur[Gui] \/ \E t \in Adders : pc[t] = "flag" /\ new[t] = m

(* The lists are lists of menus and entries, each name once, each with one *)
(* selection, and the handler acts on the one it was asked to.             *)
ListsIntact == TypeOK /\ ListsWellFormed /\ UniqueNames /\ OneSelected /\ SearchIsCurrent

(* Every menu_add returns and every event is handled to the end: no task   *)
(* waits for menu_sem forever.                                             *)
CallsComplete ==
  /\ \A t \in Adders : <>[](pc[t] = "idle" /\ calls[t] = <<>>)
  /\ pc[Gui] # "idle" ~> pc[Gui] = "idle"
=============================================================================
