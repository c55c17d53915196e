----------------------------- MODULE MenuProofs -----------------------------
(***************************************************************************)
(* menu_sem and the lists it protects, for any number of tasks that add    *)
(* menus, any sequences of calls and any memory.  First mutual exclusion:  *)
(* every path of menu.c through a take_semaphore( menu_sem ) gives it back *)
(* exactly once.  Then the lists: what every access finds and leaves.  At  *)
(* the end the menu's window (MenuWindow), for any dialogs, timeouts and   *)
(* kind of semaphore: until two calls of gui_stop_menu overlap, no dialog  *)
(* is lost or destroyed twice.                                             *)
(***************************************************************************)
EXTENDS Menu, MenuWindow, FiniteSetTheorems, TLAPS

Inside == AdderCS \cup GuiCS

Typed == pc \in [Tasks -> PCs] /\ menu_sem \in {0, 1}
IInv  == Typed /\ MutualExclusion

USE DEF Typed, IInv, MutualExclusion, InCS, Inside, PCs, AdderCS, GuiCS, Goto, Tasks

-----------------------------------------------------------------------------
(* The four ways in which a step may move a task t.                        *)

(* Into the critical section, by taking menu_sem. *)
LEMMA Entering ==
  ASSUME IInv, NEW t \in Tasks, NEW l \in Inside, Take, Goto(t, l)
  PROVE  IInv'
  BY DEF Take

(* Out of it, by giving menu_sem. *)
LEMMA Leaving ==
  ASSUME IInv, NEW t \in Tasks, NEW l \in PCs \ Inside,
         InCS(t), Give, Goto(t, l)
  PROVE  IInv'
  BY DEF Give

(* Within it, or outside it, leaving menu_sem alone. *)
LEMMA Moving ==
  ASSUME IInv, NEW t \in Tasks, NEW l \in PCs, InCS(t) <=> l \in Inside,
         UNCHANGED menu_sem, Goto(t, l)
  PROVE  IInv'
  OBVIOUS

(* Not at all. *)
LEMMA Staying == ASSUME IInv, UNCHANGED <<menu_sem, pc>> PROVE IInv'
  OBVIOUS

(* menu_find_by_name ends outside, with menu_sem given. *)
LEMMA Finding ==
  ASSUME IInv, NEW t \in Tasks, InCS(t), Give, Found(t)
  PROVE  IInv'
<1>1. Goto(t, "idle") \/ Goto(t, "add")  BY DEF Found, Return
<1> QED BY <1>1, Leaving

-----------------------------------------------------------------------------
(* The actions of a task that adds menus. *)
LEMMA AdderStep == ASSUME IInv, NEW t \in Adders, Adder(t) PROVE IInv'
<1> t \in Tasks  OBVIOUS
<1>1. CASE FindTake(t)   BY <1>1, Entering DEF FindTake
<1>2. CASE FindStep(t)   BY <1>2, Staying DEF FindStep
<1>3. CASE FindHit(t)
  <2>1. InCS(t) /\ Give /\ Found(t)  BY <1>3 DEF FindHit
  <2> QED BY <2>1, Finding
<1>4. CASE FindMiss(t)   BY <1>4, Moving DEF FindMiss
<1>5. CASE AllocFail(t)  BY <1>5, Leaving DEF AllocFail, Return
<1>6. CASE Alloc(t)      BY <1>6, Moving DEF Alloc
<1>7. CASE Link(t)       BY <1>7, Moving DEF Link
<1>8. CASE Flag(t)
  <2>1. InCS(t) /\ Give /\ Found(t)  BY <1>8 DEF Flag
  <2> QED BY <2>1, Finding
<1>9. CASE AddTake(t)
  <2>1. Take /\ Goto(t, "tail")  BY <1>9 DEF AddTake
  <2> QED BY <2>1, Entering
<1>10. CASE AddWalk(t)   BY <1>10, Staying DEF AddWalk
<1>11. CASE AddEntry(t)  BY <1>11, Staying DEF AddEntry
<1>12. CASE AddDone(t)   BY <1>12, Leaving DEF AddDone, Return
<1> QED
  BY <1>1, <1>2, <1>3, <1>4, <1>5, <1>6, <1>7, <1>8, <1>9, <1>10, <1>11, <1>12 DEF Adder

(* The actions of the task that runs menu_handler. *)
LEMMA HandlerStep == ASSUME IInv, Handler \/ Event PROVE IInv'
<1> Gui \in Tasks  OBVIOUS
<1>1. CASE Event       BY <1>1, Moving DEF Event
<1>2. CASE Search
  <2>1. ~InCS(Gui) /\ UNCHANGED menu_sem  BY <1>2 DEF Search
  <2>2. UNCHANGED pc \/ Goto(Gui, "act") \/ Goto(Gui, "idle")  BY <1>2 DEF Search
  <2> QED BY <2>1, <2>2, Moving, Staying
<1>3. CASE ActTake
  <2>1. Take  BY <1>3 DEF ActTake
  <2>2. Goto(Gui, "step") \/ Goto(Gui, "seek")  BY <1>3 DEF ActTake
  <2> QED BY <2>1, <2>2, Entering
<1>4. CASE ActTimeout  BY <1>4, Moving DEF ActTimeout
<1>5. CASE Seek        BY <1>5, Staying DEF Seek
<1>6. CASE SeekEnd     BY <1>6, Leaving DEF SeekEnd
<1>7. CASE Deselect    BY <1>7, Moving DEF Deselect
<1>8. CASE Step
  <2>1. InCS(Gui) /\ UNCHANGED menu_sem  BY <1>8 DEF Step
  <2>2. Goto(Gui, "set") \/ Goto(Gui, "wrap")  BY <1>8 DEF Step
  <2> QED BY <2>1, <2>2, Moving
<1>9. CASE Wrap
  <2>1. InCS(Gui) /\ UNCHANGED menu_sem  BY <1>9 DEF Wrap
  <2>2. UNCHANGED pc \/ Goto(Gui, "set")  BY <1>9 DEF Wrap
  <2> QED BY <2>1, <2>2, Moving, Staying
<1>10. CASE Select     BY <1>10, Leaving DEF Select
<1> QED
  BY <1>1, <1>2, <1>3, <1>4, <1>5, <1>6, <1>7, <1>8, <1>9, <1>10 DEF Handler

(* At most one task is between a take of menu_sem and its give, and the    *)
(* count tells whether one is.                                             *)
THEOREM MenuSemProtects == Spec => []MutualExclusion
<1>1. Init => IInv  BY DEF Init
<1>2. IInv /\ [Next]_vars => IInv'
  BY AdderStep, HandlerStep, Staying DEF Next, vars
<1>3. IInv => MutualExclusion  OBVIOUS
<1> QED BY <1>1, <1>2, <1>3, PTL DEF Spec

HIDE DEF Typed, IInv, MutualExclusion, InCS, Inside, PCs, AdderCS, GuiCS, Goto, Tasks

-----------------------------------------------------------------------------
(* The lists.  What the invariant says of them at every access.            *)

(* The entries still to be added: nothing points to them, and no array     *)
(* holds an entry twice.                                                   *)
Fresh ==
  \A t \in Adders : \A k \in DOMAIN calls[t] : \A j \in DOMAIN calls[t][k].entries :
    /\ ~Linked(calls[t][k].entries[j])
    /\ next[calls[t][k].entries[j]] = NULL
    /\ \A u \in Adders : \A l \in DOMAIN calls[u] : \A i \in DOMAIN calls[u][l].entries :
         calls[u][l].entries[i] = calls[t][k].entries[j] => u = t /\ l = k /\ i = j

(* A block that is not allocated has no links, a list of entries has one   *)
(* owner, and only what is linked leads anywhere.                          *)
Lists ==
  /\ ListsWellFormed
  /\ UniqueNames
  /\ menus # NULL => menus \in Menus
  /\ \A m, n \in Menus : kids[m] # NULL /\ kids[m] = kids[n] => m = n
  /\ \A m \in Menus : name[m] = NULL => next[m] = NULL /\ kids[m] = NULL /\ ~Linked(m)
  /\ \A m \in Menus : kids[m] # NULL => Linked(m)
  /\ \A n \in Nodes : next[n] # NULL => Linked(n)

(* Every linked menu is reached from the head: it is in every set that     *)
(* holds the head and the next of each of its members.                     *)
Closed(S) == \A m \in S : next[m] # NULL => next[m] \in S
From(x, m) == \A S \in SUBSET Menus : x \in S /\ Closed(S) => m \in S
Reach == \A m \in Menus : Linked(m) => menus # NULL /\ From(menus, m)

(* A new menu is linked and its selected field is not yet written. *)
Flagging(m) == \E t \in Adders : pc[t] = "flag" /\ new[t] = m
Chosen(m) == m \in Menus /\ Linked(m) /\ sel[m] = 1 /\ ~Flagging(m)

(* menu_handler has deselected the old one and not selected the new one. *)
Between == pc[Gui] \in {"step", "wrap", "set"}

OneMenu ==
  /\ Between /\ job.op = "menu" => \A m \in Menus : ~Chosen(m)
  /\ \A m, n \in Menus : Chosen(m) /\ Chosen(n) => m = n
  /\ menus # NULL =>
       \/ \E m \in Menus : Chosen(m)
       \/ Between /\ job.op = "menu"
       \/ \E t \in Adders : pc[t] = "flag" /\ cur[t] = NULL

(* own[e]: the menu to whose list e was added. *)
Owned(own) ==
  /\ \A m \in Menus : kids[m] # NULL => own[kids[m]] = m
  /\ \A e \in Entries : next[e] # NULL => own[next[e]] = own[e]
  /\ \A e \in Entries : Linked(e) => own[e] \in Menus /\ kids[own[e]] # NULL

Picked(own, m, e) == e \in Entries /\ Linked(e) /\ own[e] = m /\ sel[e] = 1

OneEntry(own) ==
  \A m \in Menus : kids[m] # NULL =>
    /\ Between /\ job.op = "entry" /\ own[cur[Gui]] = m => \A e \in Entries : ~Picked(own, m, e)
    /\ \A e, f \in Entries : Picked(own, m, e) /\ Picked(own, m, f) => e = f
    /\ \/ \E e \in Entries : Picked(own, m, e)
       \/ Between /\ job.op = "entry" /\ own[cur[Gui]] = m

Entry == \E own \in [Entries -> Menus \cup {NULL}] : Owned(own) /\ OneEntry(own)

-----------------------------------------------------------------------------
(* Where a task that adds menus may be. *)

(* No menu passed by the walk of menu_find_by_name has the wanted name. *)
Passed(t, S) ==
  /\ menus \in S /\ cur[t] \in S
  /\ \A m \in S : m # cur[t] =>
       name[m] # Arg(t).name /\ (next[m] # NULL => next[m] \in S)
Unnamed(t) == \A m \in Menus : Linked(m) => name[m] # Arg(t).name

AtEnd(t) == IF cur[t] = NULL THEN menus = NULL
            ELSE cur[t] \in Menus /\ Linked(cur[t]) /\ next[cur[t]] = NULL

Place(t) ==
  /\ pc[t] \in AdderCS \cup {"add", "idle"}
  /\ pc[t] # "idle" => calls[t] # <<>>
  /\ pc[t] = "find" =>
       IF cur[t] = NULL THEN menus = NULL
       ELSE cur[t] \in Menus /\ Linked(cur[t]) /\ \E S \in SUBSET Menus : Passed(t, S)
  /\ pc[t] \in {"alloc", "link"} => AtEnd(t) /\ Unnamed(t)
  /\ pc[t] = "link" =>
       /\ new[t] \in Menus /\ ~Linked(new[t]) /\ next[new[t]] = NULL /\ kids[new[t]] = NULL
       /\ name[new[t]] = Arg(t).name /\ prev[new[t]] = cur[t]
  /\ pc[t] = "flag" =>
       /\ new[t] \in Menus /\ Linked(new[t]) /\ next[new[t]] = NULL
       /\ cur[t] = NULL <=> menus = new[t]
  /\ pc[t] = "add" => cur[t] \in Menus /\ Linked(cur[t]) /\ Arg(t).entries # <<>>
  /\ pc[t] = "tail" => cur[t] \in Entries /\ Linked(cur[t])

Places == \A t \in Adders : Place(t)

(* Where the handler may be: its search, which does not hold menu_sem, has *)
(* the selected menu before it.                                            *)
Kind == IF job.op \in {"menu", "display"} THEN Menus ELSE Entries
Handled ==
  /\ pc[Gui] \in GuiCS \cup {"idle", "search", "act"}
  /\ Between => job.op \in {"menu", "entry"} /\ cur[Gui] \in Kind /\ Linked(cur[Gui])
  /\ pc[Gui] = "search" /\ cur[Gui] # NULL =>
       /\ cur[Gui] \in Menus /\ Linked(cur[Gui])
       /\ \A m \in Menus : Chosen(m) => From(cur[Gui], m)
  /\ pc[Gui] = "act" /\ job.op = "display" =>
       cur[Gui] = NULL \/ (cur[Gui] \in Menus /\ Linked(cur[Gui]))
  /\ pc[Gui] = "act" /\ job.op # "display" =>
       /\ cur[Gui] \in Menus /\ Linked(cur[Gui]) /\ sel[cur[Gui]] = 1
       /\ \A m \in Menus : Chosen(m) => m = cur[Gui]
       /\ Flagging(cur[Gui]) => cur[Gui] = menus
  /\ pc[Gui] = "seek" => cur[Gui] = NULL \/ (cur[Gui] \in Kind /\ Linked(cur[Gui]))

ListInv ==
  /\ TypeOK /\ MutualExclusion
  /\ Fresh /\ Lists /\ Reach /\ OneMenu /\ Entry /\ Places /\ Handled

-----------------------------------------------------------------------------
(* Facts about sequences of calls. *)

(* A return drops the call. *)
LEMMA ReturnCalls ==
  ASSUME NEW s \in Seq(Call), s # <<>>
  PROVE  /\ Tail(s) \in Seq(Call)
         /\ \A k \in DOMAIN Tail(s) : k + 1 \in DOMAIN s /\ Tail(s)[k] = s[k + 1]
  BY DEF Call

Consumed(s) == [s EXCEPT ![1].entries = Tail(@)]

(* new_entry++ drops the first entry of the first call. *)
LEMMA ConsumeCalls ==
  ASSUME NEW s \in Seq(Call), s # <<>>, s[1].entries # <<>>
  PROVE  /\ Consumed(s) \in Seq(Call) /\ Consumed(s) # <<>>
         /\ s[1] \in Call /\ 1 \in DOMAIN s[1].entries
         /\ \A k \in DOMAIN Consumed(s) : /\ k \in DOMAIN s
                                          /\ k # 1 => Consumed(s)[k] = s[k]
         /\ \A j \in DOMAIN Consumed(s)[1].entries :
              /\ j + 1 \in DOMAIN s[1].entries
              /\ Consumed(s)[1].entries[j] = s[1].entries[j + 1]
<1> DEFINE r   == Consumed(s)
           c   == s[1]
           es  == Tail(c.entries)
           d   == [c EXCEPT !.entries = es]
<1>1. c \in Call /\ Len(s) \in Nat \ {0} /\ DOMAIN s = 1 .. Len(s)  OBVIOUS
<1>2. c.entries \in Seq(Entries) /\ 1 \in DOMAIN c.entries  BY <1>1 DEF Call
<1>3. /\ es \in Seq(Entries)
      /\ \A j \in DOMAIN es : j + 1 \in DOMAIN c.entries /\ es[j] = c.entries[j + 1]
  BY <1>2
<1>4. r = [s EXCEPT ![1] = d]  BY DEF Consumed
<1> HIDE DEF es
<1>5. d \in Call /\ d.entries = es  BY <1>1, <1>3 DEF Call
<1> HIDE DEF d, r
<1>6. r \in Seq(Call) /\ Len(r) = Len(s)  BY <1>1, <1>4, <1>5
<1>7. r[1] = d /\ DOMAIN r = DOMAIN s /\ \A k \in DOMAIN s : k # 1 => r[k] = s[k]
  BY <1>1, <1>4
<1>8. \A j \in DOMAIN r[1].entries :
         j + 1 \in DOMAIN s[1].entries /\ r[1].entries[j] = s[1].entries[j + 1]
  BY <1>3, <1>5, <1>7
<1>9. r # <<>>  BY <1>1, <1>6
<1> QED BY <1>1, <1>2, <1>6, <1>7, <1>8, <1>9 DEF r

(* What is still to be added is an entry. *)
LEMMA Position ==
  ASSUME TypeOK, NEW t \in Adders, NEW k \in DOMAIN calls[t],
         NEW j \in DOMAIN calls[t][k].entries
  PROVE  calls[t][k].entries[j] \in Entries
<1>1. calls[t] \in Seq(Call)  BY DEF TypeOK
<1>2. calls[t][k] \in Call  BY <1>1
<1>3. calls[t][k].entries \in Seq(Entries)  BY <1>2 DEF Call
<1> QED BY <1>3

(* The call being made, and its first entry. *)
LEMMA First ==
  ASSUME TypeOK, NEW t \in Adders, calls[t] # <<>>
  PROVE  /\ Arg(t) \in Call /\ Arg(t) = calls[t][1] /\ 1 \in DOMAIN calls[t]
         /\ Arg(t).name \in Names
         /\ Arg(t).entries # <<>> =>
              /\ Head(Arg(t).entries) \in Entries
              /\ 1 \in DOMAIN calls[t][1].entries
              /\ Head(Arg(t).entries) = calls[t][1].entries[1]
<1>1. calls[t] \in Seq(Call)  BY DEF TypeOK
<1>2. Arg(t) \in Call /\ Arg(t) = calls[t][1] /\ 1 \in DOMAIN calls[t]
  BY <1>1 DEF Arg
<1>3. Arg(t).entries \in Seq(Entries) /\ Arg(t).name \in Names  BY <1>2 DEF Call
<1> QED BY <1>2, <1>3

-----------------------------------------------------------------------------
(* Types *)

(* A return, and the end of a search for a menu. *)
LEMMA ReturnType ==
  ASSUME TypeOK, NEW t \in Adders, calls[t] # <<>>, Return(t)
  PROVE  calls' \in [Adders -> Seq(Call)] /\ pc' \in [Tasks -> PCs]
<1>1. calls[t] \in Seq(Call)  BY DEF TypeOK
<1>2. Tail(calls[t]) \in Seq(Call)  BY <1>1, ReturnCalls
<1> QED BY <1>2 DEF TypeOK, Return, Goto, PCs, Tasks

LEMMA FoundType ==
  ASSUME TypeOK, NEW t \in Adders, calls[t] # <<>>, Found(t)
  PROVE  calls' \in [Adders -> Seq(Call)] /\ pc' \in [Tasks -> PCs]
<1>1. CASE Return(t)  BY <1>1, ReturnType
<1>2. CASE Goto(t, "add") /\ UNCHANGED calls
  BY <1>2 DEF TypeOK, Goto, PCs, Tasks
<1> QED BY <1>1, <1>2 DEF Found

LEMMA ConsumeType ==
  ASSUME TypeOK, NEW t \in Adders, calls[t] # <<>>, Arg(t).entries # <<>>, Consume(t)
  PROVE  /\ calls' \in [Adders -> Seq(Call)]
         /\ calls'[t] # <<>>
<1> DEFINE r == Consumed(calls[t])
<1>1. calls[t] \in Seq(Call) /\ calls \in [Adders -> Seq(Call)]  BY DEF TypeOK
<1>2. calls[t][1].entries # <<>>  BY First
<1>3. calls' = [calls EXCEPT ![t] = r]  BY DEF Consume, Consumed
<1>4. r \in Seq(Call) /\ r # <<>>  BY <1>1, <1>2, ConsumeCalls
<1> QED BY <1>1, <1>3, <1>4

(* The actions of a task that adds menus keep the types. *)
LEMMA AdderTypes ==
  ASSUME TypeOK, MutualExclusion, Places, NEW t \in Adders, Adder(t)
  PROVE  TypeOK'
<1> DEFINE Rest ==
      /\ menus \in Menus \cup {NULL}
      /\ name \in [Menus -> Names \cup {NULL}]
      /\ kids \in [Menus -> Entries \cup {NULL}]
      /\ next \in [Nodes -> Nodes \cup {NULL}]
      /\ prev \in [Nodes -> Nodes \cup {NULL}]
      /\ sel \in [Nodes -> {0, 1}]
      /\ cur \in [Tasks -> Nodes \cup {NULL}]
      /\ new \in [Adders -> Menus \cup {NULL}]
      /\ calls \in [Adders -> Seq(Call)]
      /\ job \in Jobs
<1>0. t \in Tasks /\ Place(t) /\ Rest  BY DEF Places, Tasks, TypeOK
<1>a. menu_sem' \in {0, 1} /\ pc' \in [Tasks -> PCs]
  BY AdderStep DEF TypeOK, IInv, Typed
<1> SUFFICES Rest'  BY <1>a DEF TypeOK
<1>1. CASE FindTake(t)   BY <1>0, <1>1 DEF FindTake, At, lists, Nodes
<1>2. CASE FindStep(t)   BY <1>0, <1>2 DEF FindStep, At, lists
<1>3. CASE FindHit(t)
  <2>1. calls[t] # <<>> /\ Found(t)  BY <1>0, <1>3 DEF FindHit, Place
  <2>2. calls' \in [Adders -> Seq(Call)]  BY <2>1, FoundType
  <2> QED BY <1>0, <1>3, <2>2 DEF FindHit, lists
<1>4. CASE FindMiss(t)   BY <1>0, <1>4 DEF FindMiss, lists
<1>5. CASE AllocFail(t)
  <2>1. calls[t] # <<>> /\ Return(t)  BY <1>0, <1>5 DEF AllocFail, Place
  <2>2. calls' \in [Adders -> Seq(Call)]  BY <2>1, ReturnType
  <2> QED BY <1>0, <1>5, <2>2 DEF AllocFail, lists
<1>6. CASE Alloc(t)
  <2>1. Arg(t).name \in Names  BY <1>0, <1>6, First DEF Alloc, Place
  <2> QED BY <1>0, <1>6, <2>1 DEF Alloc, Nodes
<1>7. CASE Link(t)
  <2>1. new[t] \in Menus /\ cur[t] \in Nodes \cup {NULL}
    BY <1>0, <1>7 DEF Link, Place, AtEnd
  <2> QED BY <1>0, <1>7, <2>1 DEF Link, Nodes
<1>8. CASE Flag(t)
  <2>1. calls[t] # <<>> /\ Found(t)  BY <1>0, <1>8 DEF Flag, Place
  <2>2. calls' \in [Adders -> Seq(Call)]  BY <2>1, FoundType
  <2> QED BY <1>0, <1>8, <2>2 DEF Flag, At, Nodes
<1>9. CASE AddTake(t)
  <2> DEFINE m == cur[t]
             e == Head(Arg(t).entries)
  <2>1. calls[t] # <<>> /\ Arg(t).entries # <<>> /\ m \in Menus
    BY <1>0, <1>9 DEF AddTake, Place
  <2>2. e \in Entries  BY <2>1, First
  <2>3. CASE kids[m] = NULL
    <3>1. /\ kids' = [kids EXCEPT ![m] = e]
          /\ next' = [next EXCEPT ![e] = NULL]
          /\ prev' = [prev EXCEPT ![e] = NULL]
          /\ sel'  = [sel EXCEPT ![e] = 1]
          /\ At(t, e) /\ Consume(t) /\ UNCHANGED <<menus, name, new, job>>
      BY <1>9, <2>3 DEF AddTake
    <3>2. calls' \in [Adders -> Seq(Call)]  BY <2>1, <3>1, ConsumeType
    <3> QED BY <1>0, <2>2, <3>1, <3>2 DEF At, Nodes
  <2>4. CASE kids[m] # NULL
    <3>1. At(t, kids[m]) /\ UNCHANGED <<menus, name, kids, next, prev, sel, calls, new, job>>
      BY <1>9, <2>4 DEF AddTake
    <3> QED BY <1>0, <2>1, <3>1 DEF At, Nodes
  <2> QED BY <2>3, <2>4
<1>10. CASE AddWalk(t)
  <2>1. next[cur[t]] \in Nodes
    BY <1>0, <1>10 DEF AddWalk, Place, Nodes
  <2> QED BY <1>0, <1>10, <2>1 DEF AddWalk, At, lists
<1>11. CASE AddEntry(t)
  <2> DEFINE e == Head(Arg(t).entries)
  <2>1. calls[t] # <<>> /\ Arg(t).entries # <<>> /\ cur[t] \in Nodes /\ next[cur[t]] = NULL
    BY <1>0, <1>11 DEF AddEntry, Place, Nodes
  <2>2. e \in Entries  BY <2>1, First
  <2>3. /\ sel'  = [sel EXCEPT ![e] = 0]
        /\ next' = [next EXCEPT ![e] = NULL, ![cur[t]] = e]
        /\ prev' = [prev EXCEPT ![e] = cur[t]]
        /\ At(t, e) /\ Consume(t) /\ UNCHANGED <<menus, name, kids, new, job>>
    BY <1>11, <2>1 DEF AddEntry
  <2>4. calls' \in [Adders -> Seq(Call)]  BY <2>1, <2>3, ConsumeType
  <2> QED BY <1>0, <2>1, <2>2, <2>3, <2>4 DEF At, Nodes
<1>12. CASE AddDone(t)
  <2>1. calls[t] # <<>> /\ Return(t)  BY <1>0, <1>12 DEF AddDone, Place
  <2>2. calls' \in [Adders -> Seq(Call)]  BY <2>1, ReturnType
  <2> QED BY <1>0, <1>12, <2>2 DEF AddDone, lists
<1> QED
  BY <1>1, <1>2, <1>3, <1>4, <1>5, <1>6, <1>7, <1>8, <1>9, <1>10, <1>11, <1>12 DEF Adder

(* So do those of the task that runs menu_handler. *)
LEMMA HandlerTypes ==
  ASSUME TypeOK, MutualExclusion, Handled, Handler \/ Event
  PROVE  TypeOK'
<1>1. Gui \in Tasks  BY DEF Tasks
<1>2. menu_sem' \in {0, 1} /\ pc' \in [Tasks -> PCs]
  BY HandlerStep DEF TypeOK, IInv, Typed
<1>3. UNCHANGED <<menus, name, kids, next, prev, new, calls>>
  BY DEF Handler, Event, Search, ActTake, ActTimeout, Seek, SeekEnd, Deselect, Step, Wrap,
         Select, lists
<1>4. job' \in Jobs
  BY DEF TypeOK, Handler, Event, Search, ActTake, ActTimeout, Seek, SeekEnd, Deselect, Step,
         Wrap, Select
<1>5. sel' \in [Nodes -> {0, 1}]
  BY DEF TypeOK, Handler, Event, Search, ActTake, ActTimeout, Seek, SeekEnd, Deselect, Step,
         Wrap, Select, lists
<1>6. cur' \in [Tasks -> Nodes \cup {NULL}]
  <2>1. \A n \in Nodes \cup {NULL} : At(Gui, n) => cur' \in [Tasks -> Nodes \cup {NULL}]
    BY <1>1 DEF TypeOK, At
  <2>2. menus \in Nodes \cup {NULL}  BY DEF TypeOK, Nodes
  <2>3. \A n \in Nodes : next[n] \in Nodes \cup {NULL} /\ prev[n] \in Nodes \cup {NULL}
    BY DEF TypeOK
  <2>4. cur[Gui] \in Nodes \cup {NULL} /\ cur \in [Tasks -> Nodes \cup {NULL}]
    BY <1>1 DEF TypeOK
  <2>5. CASE Event    BY <2>1, <2>2, <2>5 DEF Event
  <2>6. CASE Search   BY <2>1, <2>2, <2>3, <2>4, <2>6 DEF Search
  <2>7. CASE ActTake
    <3>1. job.op # "display" => cur[Gui] \in Menus  BY <2>7 DEF Handled, ActTake
    <3>2. job.op # "display" => kids[cur[Gui]] \in Nodes \cup {NULL}
      BY <3>1 DEF TypeOK, Nodes
    <3> QED BY <2>1, <2>4, <2>7, <3>2 DEF ActTake
  <2>8. CASE Seek     BY <2>1, <2>3, <2>4, <2>8 DEF Seek
  <2>9. CASE Step
    <3>1. cur[Gui] \in Nodes  BY <2>9 DEF Step, Handled, Between, Kind, Nodes
    <3> QED BY <2>1, <2>3, <2>4, <2>9, <3>1 DEF Step, Ahead
  <2>10. CASE Wrap
    <3>1. cur[Gui] \in Nodes  BY <2>10 DEF Wrap, Handled, Between, Kind, Nodes
    <3> QED BY <2>1, <2>3, <2>4, <2>10, <3>1 DEF Wrap, Behind
  <2>11. CASE ActTimeout \/ SeekEnd \/ Deselect \/ Select
    BY <2>4, <2>11 DEF ActTimeout, SeekEnd, Deselect, Select
  <2> QED BY <2>5, <2>6, <2>7, <2>8, <2>9, <2>10, <2>11 DEF Handler
<1> QED BY <1>2, <1>3, <1>4, <1>5, <1>6 DEF TypeOK

-----------------------------------------------------------------------------
(* What a step leaves alone. *)

(* The initial state. *)
LEMMA Beginning == Init => ListInv
<1> SUFFICES ASSUME Init PROVE ListInv  OBVIOUS
<1> USE MenuAssumption
<1>1. TypeOK  BY DEF Init, TypeOK, PCs, Jobs, Dirs, Nodes
<1>2. MutualExclusion
  BY DEF Init, MutualExclusion, InCS, AdderCS, GuiCS
<1>3. \A n \in Nodes : ~Linked(n)  BY DEF Init, Linked, Nodes
<1>4. Fresh
  <2>1. calls = AddCalls /\ \A n \in Nodes : next[n] = NULL  BY DEF Init
  <2>2. \A t \in Adders : \A k \in DOMAIN calls[t] : \A j \in DOMAIN calls[t][k].entries :
          calls[t][k].entries[j] \in Nodes
    BY <1>1, Position DEF Nodes
  <2> QED BY <1>3, <2>1, <2>2 DEF Fresh
<1>5. Lists
  BY <1>3 DEF Init, Lists, ListsWellFormed, UniqueNames, Nodes
<1>6. Reach  BY <1>3 DEF Reach, Nodes
<1>7. OneMenu  BY <1>3 DEF OneMenu, Chosen, Nodes, Init
<1>8. Entry
  <2> DEFINE o == [e \in Entries |-> NULL]
  <2>1. o \in [Entries -> Menus \cup {NULL}]  OBVIOUS
  <2>2. Owned(o) /\ OneEntry(o)  BY <1>3 DEF Owned, OneEntry, Nodes, Init
  <2> QED BY <2>1, <2>2 DEF Entry
<1>9. Places  BY DEF Places, Place, Init, Tasks
<1>10. Handled  BY DEF Handled, Between, Init, Tasks
<1> QED BY <1>1, <1>2, <1>4, <1>5, <1>6, <1>7, <1>8, <1>9, <1>10 DEF ListInv

(* A task that has menu_sem, or is about to take it, is the only one. *)
LEMMA Alone ==
  ASSUME TypeOK, MutualExclusion, NEW t \in Tasks, InCS(t) \/ Take
  PROVE  \A u \in Tasks : u # t => ~InCS(u)
<1>1. CASE InCS(t)  BY <1>1 DEF MutualExclusion
<1>2. CASE Take     BY <1>2 DEF MutualExclusion, Take, TypeOK
<1> QED BY <1>1, <1>2

(* Nothing is linked or unlinked while the pointers stay. *)
LEMMA LinkedSame ==
  ASSUME UNCHANGED <<menus, next, kids>>
  PROVE  \A n : Linked(n)' <=> Linked(n)
  BY DEF Linked

(* The lists stay as they are. *)
LEMMA ShapeSame ==
  ASSUME Lists, Reach, UNCHANGED <<menus, name, kids, next, prev>>
  PROVE  Lists' /\ Reach'
<1>1. \A n : Linked(n)' <=> Linked(n)  BY LinkedSame
<1>2. Lists'  BY <1>1 DEF Lists, ListsWellFormed, UniqueNames
<1>3. Reach'  BY <1>1 DEF Reach, From, Closed
<1> QED BY <1>2, <1>3

(* The entries to add stay apart when only menus are linked. *)
LEMMA FreshSame ==
  ASSUME TypeOK, Fresh, UNCHANGED calls,
         \A e \in Entries : ~Linked(e) => ~Linked(e)' /\ next'[e] = next[e]
  PROVE  Fresh'
  BY Position DEF Fresh

(* They stay apart when a call returns. *)
LEMMA FreshReturn ==
  ASSUME TypeOK, Fresh, NEW t \in Adders, calls[t] # <<>>, Return(t),
         UNCHANGED <<menus, next, kids>>
  PROVE  Fresh'
<1> DEFINE b(v, k) == IF v = t THEN k + 1 ELSE k
<1>1. calls[t] \in Seq(Call) /\ calls \in [Adders -> Seq(Call)]  BY DEF TypeOK
<1>2. calls' = [calls EXCEPT ![t] = Tail(calls[t])]  BY DEF Return
<1>3. \A v \in Adders : \A k \in DOMAIN calls'[v] :
        b(v, k) \in DOMAIN calls[v] /\ calls'[v][k] = calls[v][b(v, k)]
  BY <1>1, <1>2, ReturnCalls
<1>4. \A v \in Adders : \A k, l \in DOMAIN calls'[v] : b(v, k) = b(v, l) => k = l
  <2>1. \A k \in DOMAIN calls'[t] : k \in Nat  BY <1>1, <1>2, ReturnCalls
  <2> QED BY <2>1
<1>5. \A n : Linked(n)' <=> Linked(n)  BY LinkedSame
<1> HIDE DEF b
<1> QED BY <1>3, <1>4, <1>5 DEF Fresh

(* And when the first entry of the call is taken and linked. *)
LEMMA FreshConsume ==
  ASSUME TypeOK, Fresh, NEW t \in Adders, calls[t] # <<>>, Arg(t).entries # <<>>, Consume(t),
         \A e \in Entries : ~Linked(e) /\ e # Head(Arg(t).entries)
                              => ~Linked(e)' /\ next'[e] = next[e]
  PROVE  Fresh'
<1> DEFINE r == Consumed(calls[t])
           c(v, k, j) == IF v = t /\ k = 1 THEN j + 1 ELSE j
<1>1. calls[t] \in Seq(Call) /\ calls \in [Adders -> Seq(Call)]  BY DEF TypeOK
<1>2. calls[t][1].entries # <<>> /\ Head(Arg(t).entries) = calls[t][1].entries[1]
      /\ 1 \in DOMAIN calls[t] /\ 1 \in DOMAIN calls[t][1].entries
  BY First
<1>3. calls' = [calls EXCEPT ![t] = r]  BY DEF Consume, Consumed
<1>5. /\ r \in Seq(Call) /\ r # <<>>
      /\ \A k \in DOMAIN r : /\ k \in DOMAIN calls[t]
                             /\ k # 1 => r[k] = calls[t][k]
      /\ \A j \in DOMAIN r[1].entries :
           /\ j + 1 \in DOMAIN calls[t][1].entries
           /\ r[1].entries[j] = calls[t][1].entries[j + 1]
  BY <1>1, <1>2, ConsumeCalls
<1> HIDE DEF r
<1>7. \A j \in DOMAIN r[1].entries : j \in Nat \ {0}
  <2>1. r[1] \in Call  BY <1>5
  <2>2. r[1].entries \in Seq(Entries)  BY <2>1 DEF Call
  <2> QED BY <2>2
<1>8. calls'[t] = r /\ \A v \in Adders : v # t => calls'[v] = calls[v]  BY <1>1, <1>3
<1>9. \A v \in Adders : \A k \in DOMAIN calls'[v] : \A j \in DOMAIN calls'[v][k].entries :
        /\ k \in DOMAIN calls[v] /\ c(v, k, j) \in DOMAIN calls[v][k].entries
        /\ calls'[v][k].entries[j] = calls[v][k].entries[c(v, k, j)]
        /\ v = t /\ k = 1 => c(v, k, j) # 1
  BY <1>5, <1>7, <1>8
<1>10. \A v \in Adders : \A k \in DOMAIN calls'[v] : \A i, j \in DOMAIN calls'[v][k].entries :
        c(v, k, i) = c(v, k, j) => i = j
  BY <1>7, <1>8
<1> HIDE DEF c
<1>11. ASSUME NEW v \in Adders, NEW k \in DOMAIN calls'[v], NEW j \in DOMAIN calls'[v][k].entries,
              NEW e, e = calls'[v][k].entries[j]
       PROVE  /\ ~Linked(e)' /\ next'[e] = NULL
              /\ \A u \in Adders : \A l \in DOMAIN calls'[u] : \A i \in DOMAIN calls'[u][l].entries :
                   calls'[u][l].entries[i] = e => u = v /\ l = k /\ i = j
  <2>1. /\ k \in DOMAIN calls[v] /\ c(v, k, j) \in DOMAIN calls[v][k].entries
        /\ e = calls[v][k].entries[c(v, k, j)]
    BY <1>9, <1>11
  <2>2. e \in Entries  BY <2>1, Position
  <2>3. ~Linked(e) /\ next[e] = NULL  BY <2>1 DEF Fresh
  <2>4. e # calls[t][1].entries[1]  BY <1>2, <1>9, <2>1 DEF Fresh
  <2>5. ~Linked(e)' /\ next'[e] = NULL  BY <1>2, <2>2, <2>3, <2>4
  <2>6. \A u \in Adders : \A l \in DOMAIN calls'[u] : \A i \in DOMAIN calls'[u][l].entries :
          calls'[u][l].entries[i] = e => u = v /\ l = k /\ c(u, l, i) = c(v, k, j)
    BY <1>9, <2>1 DEF Fresh
  <2>7. \A u \in Adders : \A l \in DOMAIN calls'[u] : \A i \in DOMAIN calls'[u][l].entries :
          calls'[u][l].entries[i] = e => u = v /\ l = k /\ i = j
    BY <1>10, <2>6
  <2> QED BY <2>5, <2>7
<1> QED BY <1>11 DEF Fresh

(* The place of a task that does not move, while nothing is unlinked and   *)
(* it does not hold menu_sem.                                              *)
LEMMA OtherPlaces ==
  ASSUME TypeOK, MutualExclusion, Places, NEW t \in Adders, InCS(t) \/ Take,
         \A u \in Adders \ {t} : /\ pc'[u] = pc[u] /\ cur'[u] = cur[u]
                                 /\ calls'[u] = calls[u],
         \A n \in Nodes : Linked(n) => Linked(n)'
  PROVE  \A u \in Adders \ {t} : Place(u)'
<1> SUFFICES ASSUME NEW u \in Adders \ {t} PROVE Place(u)'  OBVIOUS
<1>1. t \in Tasks /\ u \in Tasks  BY DEF Tasks
<1>2. pc[u] \notin AdderCS  BY <1>1, Alone DEF InCS
<1>3. pc[u] \in {"add", "idle"} /\ Place(u)  BY <1>2 DEF Places, Place
<1>4. pc'[u] = pc[u] /\ cur'[u] = cur[u] /\ calls'[u] = calls[u]  OBVIOUS
<1>5. pc'[u] = "add" => cur'[u] \in Menus /\ Linked(cur[u])' /\ Arg(u).entries # <<>> /\ calls[u] # <<>>
  BY <1>3, <1>4 DEF Place, Nodes
<1> QED BY <1>3, <1>4, <1>5 DEF Place, AdderCS, Arg

(* The handler does not hold menu_sem while a task that adds menus does.   *)
LEMMA HandlerOutside ==
  ASSUME TypeOK, MutualExclusion, Handled, NEW t \in Adders, InCS(t) \/ Take
  PROVE  pc[Gui] \in {"idle", "search", "act"} /\ ~Between
<1>1. Gui \in Tasks /\ t \in Tasks /\ Gui # t  BY MenuAssumption DEF Tasks
<1>2. ~InCS(Gui)  BY <1>1, Alone
<1> QED BY <1>2 DEF Handled, InCS, GuiCS, Between

(* The handler's place while menus and entries are added. *)
LEMMA HandledKept ==
  ASSUME TypeOK, MutualExclusion, Handled, Reach, NEW t \in Adders, InCS(t) \/ Take,
         pc'[Gui] = pc[Gui], cur'[Gui] = cur[Gui], job' = job,
         \A n \in Nodes : Linked(n) => Linked(n)',
         \A S \in SUBSET Menus : Closed(S)' => Closed(S),
         \A m \in Menus : Chosen(m)' => Chosen(m),
         \A m \in Menus : Linked(m) /\ (Flagging(m) => m = menus)
                            => sel'[m] = sel[m] /\ (Flagging(m)' => Flagging(m)),
         menus # NULL => menus' = menus
  PROVE  Handled'
<1>1. pc[Gui] \in {"idle", "search", "act"} /\ ~Between  BY HandlerOutside
<1>2. ~Between'  BY <1>1 DEF Between
<1>3. \A m \in Menus : Linked(m) => menus # NULL  BY DEF Reach
<1>4. ASSUME pc[Gui] = "search", cur[Gui] # NULL
      PROVE  /\ cur'[Gui] \in Menus /\ Linked(cur[Gui])'
             /\ \A m \in Menus : Chosen(m)' => From(cur[Gui], m)'
  <2>1. cur[Gui] \in Menus /\ Linked(cur[Gui])
        /\ \A m \in Menus : Chosen(m) => From(cur[Gui], m)
    BY <1>4 DEF Handled
  <2>2. \A m \in Menus : From(cur[Gui], m) => From(cur[Gui], m)'  BY DEF From
  <2> QED BY <2>1, <2>2 DEF Nodes
<1>5. ASSUME pc[Gui] = "act", job.op = "display"
      PROVE  cur'[Gui] = NULL \/ (cur'[Gui] \in Menus /\ Linked(cur[Gui])')
  BY <1>5 DEF Handled, Nodes
<1>6. ASSUME pc[Gui] = "act", job.op # "display"
      PROVE  /\ cur'[Gui] \in Menus /\ Linked(cur[Gui])' /\ sel'[cur[Gui]] = 1
             /\ \A m \in Menus : Chosen(m)' => m = cur[Gui]
             /\ Flagging(cur[Gui])' => cur[Gui] = menus'
  BY <1>3, <1>6 DEF Handled, Nodes
<1> QED BY <1>1, <1>2, <1>4, <1>5, <1>6 DEF Handled

(* A step of a task that adds menus and writes none of the lists. *)
LEMMA QuietStep ==
  ASSUME ListInv, NEW t \in Adders, InCS(t) \/ Take, Adder(t),
         UNCHANGED <<lists, new, job>>,
         \A u \in Tasks \ {t} : pc'[u] = pc[u] /\ cur'[u] = cur[u],
         \A u \in Adders \ {t} : calls'[u] = calls[u],
         pc[t] # "flag", pc'[t] # "flag",
         Fresh', Place(t)'
  PROVE  ListInv'
<1>0. TypeOK /\ MutualExclusion /\ Lists /\ Reach /\ OneMenu /\ Entry /\ Places /\ Handled
  BY DEF ListInv
<1>1. UNCHANGED <<menus, name, kids, next, prev, sel>>  BY DEF lists
<1>2. \A n : Linked(n)' <=> Linked(n)  BY <1>1, LinkedSame
<1>3. TypeOK'  BY <1>0, AdderTypes
<1>4. MutualExclusion'  BY <1>0, AdderStep DEF IInv, Typed, TypeOK
<1>5. Lists' /\ Reach'  BY <1>0, <1>1, ShapeSame
<1>6. \A m : Flagging(m)' <=> Flagging(m)  BY DEF Flagging, Tasks
<1>7. \A m \in Menus : Chosen(m)' <=> Chosen(m)  BY <1>1, <1>2, <1>6 DEF Chosen
<1>8. pc'[Gui] = pc[Gui] /\ cur'[Gui] = cur[Gui] /\ job' = job
  BY MenuAssumption DEF Tasks
<1>9. Places'
  <2>1. \A u \in Adders \ {t} : pc'[u] = pc[u] /\ cur'[u] = cur[u] /\ calls'[u] = calls[u]
    BY DEF Tasks
  <2>2. \A u \in Adders \ {t} : Place(u)'  BY <1>0, <1>2, <2>1, OtherPlaces
  <2> QED BY <2>2 DEF Places
<1>10. Handled'
  <2>1. \A S \in SUBSET Menus : Closed(S)' => Closed(S)  BY <1>1 DEF Closed
  <2> QED BY <1>0, <1>1, <1>2, <1>6, <1>7, <1>8, <2>1, HandledKept
<1>11. OneMenu'
  <2>1. (\E u \in Adders : pc[u] = "flag" /\ cur[u] = NULL)
          => \E u \in Adders : pc'[u] = "flag" /\ cur'[u] = NULL
    BY DEF Tasks
  <2> QED BY <1>0, <1>1, <1>7, <1>8, <2>1 DEF OneMenu, Between
<1>12. Entry'
  <2>1. PICK own \in [Entries -> Menus \cup {NULL}] : Owned(own) /\ OneEntry(own)
    BY <1>0 DEF Entry
  <2>2. Owned(own)'  BY <1>1, <1>2, <2>1 DEF Owned
  <2>3. OneEntry(own)'  BY <1>1, <1>2, <1>8, <2>1 DEF OneEntry, Picked, Between
  <2> QED BY <2>2, <2>3 DEF Entry
<1> QED BY <1>3, <1>4, <1>5, <1>9, <1>10, <1>11, <1>12 DEF ListInv

-----------------------------------------------------------------------------
(* The steps of a task that adds menus and only reads the lists. *)

(* A return leaves the task idle. *)
LEMMA ReturnPlace ==
  ASSUME TypeOK, NEW t \in Adders, calls[t] # <<>>, Return(t)
  PROVE  Place(t)' /\ pc'[t] = "idle"
<1>1. pc'[t] = "idle"  BY DEF TypeOK, Return, Goto, Tasks
<1> QED BY <1>1 DEF Place

(* A found menu that is linked is where the entries will go. *)
LEMMA FoundPlace ==
  ASSUME TypeOK, NEW t \in Adders, calls[t] # <<>>, Found(t),
         cur'[t] \in Menus, Linked(cur[t])'
  PROVE  Place(t)' /\ pc'[t] \in {"idle", "add"}
<1>1. CASE Return(t)  BY <1>1, ReturnPlace
<1>2. CASE Goto(t, "add") /\ UNCHANGED calls /\ Arg(t).entries # <<>>
  <2>1. pc'[t] = "add"  BY <1>2 DEF TypeOK, Goto, Tasks
  <2> QED BY <1>2, <2>1 DEF Place, Arg
<1> QED BY <1>1, <1>2 DEF Found

(* The entries to add stay apart at the end of a search. *)
LEMMA FoundFresh ==
  ASSUME TypeOK, Fresh, NEW t \in Adders, calls[t] # <<>>, Found(t),
         UNCHANGED <<menus, next, kids>>
  PROVE  Fresh'
<1>1. CASE Return(t)  BY <1>1, FreshReturn
<1>2. CASE UNCHANGED calls
  <2>1. \A n : Linked(n)' <=> Linked(n)  BY LinkedSame
  <2> QED BY <1>2, <2>1, FreshSame
<1> QED BY <1>1, <1>2 DEF Found

(* Which tasks a return or a jump of t leaves alone. *)
LEMMA FoundOthers ==
  ASSUME TypeOK, NEW t \in Adders, Found(t)
  PROVE  /\ \A u \in Tasks \ {t} : pc'[u] = pc[u]
         /\ \A u \in Adders \ {t} : calls'[u] = calls[u]
  BY DEF TypeOK, Found, Return, Goto, Tasks

(* The head of the list is reached from the head, and so is what is next.  *)
LEMMA FindTakeKeeps == ASSUME ListInv, NEW t \in Adders, FindTake(t) PROVE ListInv'
<1>0. TypeOK /\ Lists /\ Fresh  BY DEF ListInv
<1>1. /\ pc[t] = "idle" /\ calls[t] # <<>> /\ Take /\ At(t, menus) /\ Goto(t, "find")
      /\ UNCHANGED <<lists, new, calls, job>>
  BY DEF FindTake
<1>2. pc'[t] = "find" /\ cur'[t] = menus
      /\ \A u \in Tasks \ {t} : pc'[u] = pc[u] /\ cur'[u] = cur[u]
  BY <1>0, <1>1 DEF TypeOK, At, Goto, Tasks
<1>3. UNCHANGED <<menus, name, kids, next, prev, sel>>  BY <1>1 DEF lists
<1>4. \A n : Linked(n)' <=> Linked(n)  BY <1>3, LinkedSame
<1>5. Fresh'  BY <1>0, <1>1, <1>3, <1>4, FreshSame
<1>6. Place(t)'
  <2>1. menus # NULL => menus \in Menus /\ Linked(menus)  BY <1>0 DEF Lists, Linked
  <2>2. ASSUME NEW S, S = {menus} PROVE Passed(t, S)'  BY <1>2, <1>3, <2>2 DEF Passed
  <2>3. \E S : S = {menus}  OBVIOUS
  <2>4. menus # NULL => \E S \in SUBSET Menus : Passed(t, S)'  BY <2>1, <2>2, <2>3
  <2> QED BY <1>1, <1>2, <1>3, <1>4, <2>1, <2>4 DEF Place, AdderCS
<1> QED BY <1>1, <1>2, <1>5, <1>6, QuietStep DEF Adder

LEMMA FindStepKeeps == ASSUME ListInv, NEW t \in Adders, FindStep(t) PROVE ListInv'
<1>0. TypeOK /\ Lists /\ Fresh /\ Place(t)  BY DEF ListInv, Places
<1>1. /\ pc[t] = "find" /\ cur[t] # NULL
      /\ name[cur[t]] # Arg(t).name /\ next[cur[t]] # NULL
      /\ At(t, next[cur[t]])
      /\ UNCHANGED <<lists, menu_sem, pc, new, calls, job>>
  BY DEF FindStep
<1>2. pc'[t] = "find" /\ cur'[t] = next[cur[t]]
      /\ \A u \in Tasks \ {t} : pc'[u] = pc[u] /\ cur'[u] = cur[u]
  BY <1>0, <1>1 DEF TypeOK, At, Tasks
<1>3. UNCHANGED <<menus, name, kids, next, prev, sel>>  BY <1>1 DEF lists
<1>4. \A n : Linked(n)' <=> Linked(n)  BY <1>3, LinkedSame
<1>5. Fresh'  BY <1>0, <1>1, <1>3, <1>4, FreshSame
<1>6. Place(t)'
  <2>1. calls[t] # <<>> /\ cur[t] \in Menus /\ \E S \in SUBSET Menus : Passed(t, S)
    BY <1>0, <1>1 DEF Place
  <2>2. next[cur[t]] \in Menus /\ Linked(next[cur[t]])
    BY <1>0, <1>1, <2>1 DEF Lists, ListsWellFormed, Linked, Nodes
  <2>3. PICK S \in SUBSET Menus : Passed(t, S)  BY <2>1
  <2>4. PICK R \in SUBSET Menus : R = S \cup {next[cur[t]]}  BY <2>2
  <2>5. Passed(t, R)'  BY <1>1, <1>2, <1>3, <2>3, <2>4 DEF Passed, Arg
  <2>6. \E Q \in SUBSET Menus : Passed(t, Q)'  BY <2>4, <2>5
  <2> QED BY <1>1, <1>2, <1>4, <2>1, <2>2, <2>6 DEF Place, AdderCS
<1>7. InCS(t)  BY <1>1 DEF InCS, AdderCS
<1> QED BY <1>1, <1>2, <1>5, <1>6, <1>7, QuietStep DEF Adder

LEMMA FindHitKeeps == ASSUME ListInv, NEW t \in Adders, FindHit(t) PROVE ListInv'
<1>0. TypeOK /\ Lists /\ Fresh /\ Place(t)  BY DEF ListInv, Places
<1>1. /\ pc[t] = "find" /\ cur[t] # NULL /\ Found(t)
      /\ UNCHANGED <<lists, cur, new, job>>
  BY DEF FindHit
<1>2. UNCHANGED <<menus, name, kids, next, prev, sel>>  BY <1>1 DEF lists
<1>3. \A n : Linked(n)' <=> Linked(n)  BY <1>2, LinkedSame
<1>4. calls[t] # <<>> /\ cur[t] \in Menus /\ Linked(cur[t])
  BY <1>0, <1>1 DEF Place
<1>5. Fresh'  BY <1>0, <1>1, <1>2, <1>4, FoundFresh
<1>6. Place(t)' /\ pc'[t] \in {"idle", "add"}
  BY <1>0, <1>1, <1>3, <1>4, FoundPlace
<1>7. InCS(t)  BY <1>1 DEF InCS, AdderCS
<1> QED BY <1>0, <1>1, <1>5, <1>6, <1>7, FoundOthers, QuietStep DEF Adder

(* At the end of the list every linked menu has been compared. *)
LEMMA FindMissKeeps == ASSUME ListInv, NEW t \in Adders, FindMiss(t) PROVE ListInv'
<1>0. TypeOK /\ Lists /\ Fresh /\ Reach /\ Place(t)  BY DEF ListInv, Places
<1>1. /\ pc[t] = "find"
      /\ cur[t] # NULL => name[cur[t]] # Arg(t).name /\ next[cur[t]] = NULL
      /\ Goto(t, "alloc")
      /\ UNCHANGED <<lists, menu_sem, cur, new, calls, job>>
  BY DEF FindMiss
<1>2. pc'[t] = "alloc" /\ \A u \in Tasks \ {t} : pc'[u] = pc[u]
  BY <1>0, <1>1 DEF TypeOK, Goto, Tasks
<1>3. UNCHANGED <<menus, name, kids, next, prev, sel>>  BY <1>1 DEF lists
<1>4. \A n : Linked(n)' <=> Linked(n)  BY <1>3, LinkedSame
<1>5. Fresh'  BY <1>0, <1>1, <1>3, <1>4, FreshSame
<1>6. calls[t] # <<>> /\ AtEnd(t)  BY <1>0, <1>1 DEF Place, AtEnd
<1>7. Unnamed(t)
  <2>1. CASE cur[t] = NULL
    BY <1>0, <1>1, <2>1 DEF Place, Unnamed, Reach
  <2>2. CASE cur[t] # NULL
    <3>1. PICK S \in SUBSET Menus : Passed(t, S)  BY <1>0, <1>1, <2>2 DEF Place
    <3>2. Closed(S) /\ menus \in S  BY <1>1, <2>2, <3>1 DEF Passed, Closed
    <3>3. \A m \in Menus : Linked(m) => m \in S  BY <1>0, <3>2 DEF Reach, From
    <3> QED BY <1>1, <2>2, <3>1, <3>3 DEF Passed, Unnamed
  <2> QED BY <2>1, <2>2
<1>8. Place(t)'
  <2>1. Unnamed(t)'  BY <1>1, <1>3, <1>4, <1>7 DEF Unnamed, Arg
  <2>2. AtEnd(t)'  BY <1>1, <1>3, <1>4, <1>6 DEF AtEnd
  <2> QED BY <1>1, <1>2, <1>6, <2>1, <2>2 DEF Place, AdderCS
<1>9. InCS(t)  BY <1>1 DEF InCS, AdderCS
<1> QED BY <1>1, <1>2, <1>5, <1>8, <1>9, QuietStep DEF Adder

LEMMA AllocFailKeeps == ASSUME ListInv, NEW t \in Adders, AllocFail(t) PROVE ListInv'
<1>0. TypeOK /\ Fresh /\ Place(t)  BY DEF ListInv, Places
<1>1. pc[t] = "alloc" /\ Return(t) /\ UNCHANGED <<lists, cur, new, job>>
  BY DEF AllocFail
<1>2. UNCHANGED <<menus, name, kids, next, prev, sel>>  BY <1>1 DEF lists
<1>3. calls[t] # <<>>  BY <1>0, <1>1 DEF Place
<1>4. Fresh'  BY <1>0, <1>1, <1>2, <1>3, FreshReturn
<1>5. Place(t)' /\ pc'[t] = "idle"  BY <1>0, <1>1, <1>3, ReturnPlace
<1>6. InCS(t)  BY <1>1 DEF InCS, AdderCS
<1>7. (\A u \in Tasks \ {t} : pc'[u] = pc[u]) /\ (\A u \in Adders \ {t} : calls'[u] = calls[u])
  BY <1>0, <1>1 DEF TypeOK, Return, Goto, Tasks
<1> QED BY <1>1, <1>4, <1>5, <1>6, <1>7, QuietStep DEF Adder

LEMMA AddWalkKeeps == ASSUME ListInv, NEW t \in Adders, AddWalk(t) PROVE ListInv'
<1>0. TypeOK /\ Lists /\ Fresh /\ Place(t)  BY DEF ListInv, Places
<1>1. /\ pc[t] = "tail" /\ next[cur[t]] # NULL /\ At(t, next[cur[t]])
      /\ UNCHANGED <<lists, menu_sem, pc, new, calls, job>>
  BY DEF AddWalk
<1>2. pc'[t] = "tail" /\ cur'[t] = next[cur[t]]
      /\ \A u \in Tasks \ {t} : pc'[u] = pc[u] /\ cur'[u] = cur[u]
  BY <1>0, <1>1 DEF TypeOK, At, Tasks
<1>3. UNCHANGED <<menus, name, kids, next, prev, sel>>  BY <1>1 DEF lists
<1>4. \A n : Linked(n)' <=> Linked(n)  BY <1>3, LinkedSame
<1>5. Fresh'  BY <1>0, <1>1, <1>3, <1>4, FreshSame
<1>6. calls[t] # <<>> /\ cur[t] \in Entries  BY <1>0, <1>1 DEF Place
<1>7. next[cur[t]] \in Nodes /\ next[cur[t]] \notin Menus /\ Linked(next[cur[t]])
  BY MenuAssumption, <1>0, <1>1, <1>6 DEF Lists, ListsWellFormed, Linked, Nodes, TypeOK
<1>8. Place(t)'  BY <1>1, <1>2, <1>4, <1>6, <1>7 DEF Place, AdderCS, Nodes
<1>9. InCS(t)  BY <1>1 DEF InCS, AdderCS
<1> QED BY <1>1, <1>2, <1>5, <1>8, <1>9, QuietStep DEF Adder

LEMMA AddDoneKeeps == ASSUME ListInv, NEW t \in Adders, AddDone(t) PROVE ListInv'
<1>0. TypeOK /\ Fresh /\ Place(t)  BY DEF ListInv, Places
<1>1. pc[t] = "tail" /\ Return(t) /\ UNCHANGED <<lists, cur, new, job>>
  BY DEF AddDone
<1>2. UNCHANGED <<menus, name, kids, next, prev, sel>>  BY <1>1 DEF lists
<1>3. calls[t] # <<>>  BY <1>0, <1>1 DEF Place
<1>4. Fresh'  BY <1>0, <1>1, <1>2, <1>3, FreshReturn
<1>5. Place(t)' /\ pc'[t] = "idle"  BY <1>0, <1>1, <1>3, ReturnPlace
<1>6. InCS(t)  BY <1>1 DEF InCS, AdderCS
<1>7. (\A u \in Tasks \ {t} : pc'[u] = pc[u]) /\ (\A u \in Adders \ {t} : calls'[u] = calls[u])
  BY <1>0, <1>1 DEF TypeOK, Return, Goto, Tasks
<1> QED BY <1>1, <1>4, <1>5, <1>6, <1>7, QuietStep DEF Adder

(* The menu has entries: menu_add goes to the first one. *)
AddTakeOld(t) ==
  /\ pc[t] = "add" /\ kids[cur[t]] # NULL
  /\ Take /\ Goto(t, "tail") /\ At(t, kids[cur[t]])
  /\ UNCHANGED <<menus, name, kids, next, prev, sel, new, calls, job>>

LEMMA AddTakeOldKeeps ==
  ASSUME ListInv, NEW t \in Adders, AddTake(t), AddTakeOld(t)
  PROVE  ListInv'
<1>0. TypeOK /\ Lists /\ Fresh /\ Place(t)  BY DEF ListInv, Places
<1>1. /\ pc[t] = "add" /\ kids[cur[t]] # NULL
      /\ Take /\ Goto(t, "tail") /\ At(t, kids[cur[t]])
      /\ UNCHANGED <<menus, name, kids, next, prev, sel, new, calls, job>>
  BY DEF AddTakeOld
<1>2. pc'[t] = "tail" /\ cur'[t] = kids[cur[t]]
      /\ \A u \in Tasks \ {t} : pc'[u] = pc[u] /\ cur'[u] = cur[u]
  BY <1>0, <1>1 DEF TypeOK, At, Goto, Tasks
<1>4. \A n : Linked(n)' <=> Linked(n)  BY <1>1, LinkedSame
<1>5. Fresh'  BY <1>0, <1>1, <1>4, FreshSame
<1>6. calls[t] # <<>> /\ cur[t] \in Menus  BY <1>0, <1>1 DEF Place
<1>7. kids[cur[t]] \in Entries /\ Linked(kids[cur[t]])
  BY <1>0, <1>1, <1>6 DEF Linked, TypeOK
<1>8. Place(t)'  BY <1>1, <1>2, <1>4, <1>6, <1>7 DEF Place, AdderCS
<1>9. UNCHANGED lists  BY <1>1 DEF lists
<1> QED BY <1>1, <1>2, <1>5, <1>8, <1>9, QuietStep DEF Adder

-----------------------------------------------------------------------------
(* The steps that create a menu. *)

(* The types and the exclusion, after any step of a task that adds menus.  *)
LEMMA AdderBasics ==
  ASSUME ListInv, NEW t \in Adders, Adder(t)
  PROVE  TypeOK' /\ MutualExclusion'
<1>1. TypeOK /\ MutualExclusion /\ Places  BY DEF ListInv
<1>2. TypeOK'  BY <1>1, AdderTypes
<1>3. MutualExclusion'  BY <1>1, AdderStep DEF IInv, Typed, TypeOK
<1> QED BY <1>2, <1>3

(* While t is inside, no other task is about to write a selected field.    *)
LEMMA OneFlag ==
  ASSUME TypeOK, MutualExclusion, NEW t \in Adders, InCS(t) \/ Take
  PROVE  \A u \in Adders : pc[u] = "flag" => u = t
<1>1. \A u \in Adders : u \in Tasks /\ (pc[u] = "flag" => InCS(u))
  BY DEF Tasks, InCS, AdderCS
<1>2. t \in Tasks  BY DEF Tasks
<1> QED BY <1>1, <1>2, Alone

(* The fresh block is not on a list, so nobody sees it being filled in.    *)
LEMMA AllocKeeps == ASSUME ListInv, NEW t \in Adders, Alloc(t) PROVE ListInv'
<1>0. /\ TypeOK /\ MutualExclusion /\ Fresh /\ Lists /\ Reach /\ OneMenu /\ Entry
      /\ Places /\ Handled /\ Place(t)
  BY DEF ListInv, Places
<1>1. PICK m \in Menus, g \in {0, 1} :
       /\ name[m] = NULL
       /\ name' = [name EXCEPT ![m] = Arg(t).name]
       /\ prev' = [prev EXCEPT ![m] = cur[t]]
       /\ next' = [next EXCEPT ![m] = NULL]
       /\ kids' = [kids EXCEPT ![m] = NULL]
       /\ sel'  = [sel EXCEPT ![m] = g]
       /\ new'  = [new EXCEPT ![t] = m]
  BY DEF Alloc
<1>2. /\ pc[t] = "alloc" /\ Goto(t, "link")
      /\ UNCHANGED <<menus, menu_sem, cur, calls, job>>
  BY DEF Alloc
<1>3. /\ pc'[t] = "link" /\ \A u \in Tasks \ {t} : pc'[u] = pc[u]
      /\ new'[t] = m /\ \A u \in Adders \ {t} : new'[u] = new[u]
  BY <1>0, <1>1, <1>2 DEF TypeOK, Goto, Tasks
<1>4. InCS(t) /\ t \in Tasks  BY <1>2 DEF InCS, AdderCS, Tasks
<1>5. calls[t] # <<>> /\ AtEnd(t) /\ Unnamed(t)  BY <1>0, <1>2 DEF Place
<1>6. Arg(t).name \in Names /\ Arg(t).name # NULL
  BY <1>0, <1>5, First, MenuAssumption
<1>7. ~Linked(m) /\ next[m] = NULL /\ kids[m] = NULL  BY <1>0, <1>1 DEF Lists
<1>8. next' = next /\ kids' = kids
  BY <1>0, <1>1, <1>7 DEF TypeOK, Nodes
<1>9. \A n : Linked(n)' <=> Linked(n)  BY <1>2, <1>8, LinkedSame
<1>10. \A n \in Nodes : n # m => prev'[n] = prev[n] /\ sel'[n] = sel[n]
  BY <1>0, <1>1 DEF TypeOK
<1>11. \A n \in Menus : n # m => name'[n] = name[n]
  BY <1>0, <1>1 DEF TypeOK
<1>12. name'[m] = Arg(t).name /\ prev'[m] = cur[t]
  BY <1>0, <1>1 DEF TypeOK, Nodes
<1>13. Lists'
  <2>1. m \in Nodes /\ m \notin Entries /\ m # NULL  BY MenuAssumption DEF Nodes
  <2>2. \A n \in Nodes : next[n] # NULL => next[n] # m /\ next[n] \in Nodes
    BY <1>0, <1>7 DEF Linked, TypeOK
  <2>3. ListsWellFormed'
    <3>1. \A n \in Nodes : next[n] # NULL => prev'[next[n]] = n /\ (n \in Menus <=> next[n] \in Menus)
      BY <1>0, <1>10, <2>2 DEF Lists, ListsWellFormed
    <3>2. \A n \in Nodes : Linked(n) /\ prev'[n] # NULL => next[prev'[n]] = n
      BY <1>0, <1>7, <1>10 DEF Lists, ListsWellFormed
    <3>3. menus # NULL => prev'[menus] = NULL
      BY <1>0, <1>7, <1>10 DEF Lists, ListsWellFormed, Linked, Nodes
    <3>4. \A x \in Menus : kids[x] # NULL => kids[x] \in Entries /\ prev'[kids[x]] = NULL
      BY <1>0, <1>10, <2>1 DEF Lists, ListsWellFormed, Nodes
    <3> QED BY <1>2, <1>8, <1>9, <3>1, <3>2, <3>3, <3>4 DEF ListsWellFormed
  <2>4. UniqueNames'
    BY <1>0, <1>7, <1>9, <1>11 DEF Lists, UniqueNames
  <2> QED
    BY <1>0, <1>2, <1>6, <1>8, <1>9, <1>11, <1>12, <2>3, <2>4 DEF Lists
<1>14. Reach'  BY <1>0, <1>2, <1>8, <1>9 DEF Reach, From, Closed
<1>15. Fresh'  BY <1>0, <1>2, <1>8, <1>9, FreshSame
<1>16. \A x : Flagging(x)' <=> Flagging(x)  BY <1>2, <1>3 DEF Flagging, Tasks
<1>17. \A x \in Menus : Chosen(x)' <=> Chosen(x)
  BY <1>7, <1>9, <1>10, <1>16 DEF Chosen, Nodes
<1>18. pc'[Gui] = pc[Gui]  BY <1>3, MenuAssumption DEF Tasks
<1>19. OneMenu'
  <2>1. (\E u \in Adders : pc[u] = "flag" /\ cur[u] = NULL)
          => \E u \in Adders : pc'[u] = "flag" /\ cur'[u] = NULL
    BY <1>2, <1>3 DEF Tasks
  <2> QED BY <1>0, <1>2, <1>17, <1>18, <2>1 DEF OneMenu, Between
<1>20. Entry'
  <2>1. PICK own \in [Entries -> Menus \cup {NULL}] : Owned(own) /\ OneEntry(own)
    BY <1>0 DEF Entry
  <2>2. Owned(own)'  BY <1>8, <1>9, <2>1 DEF Owned
  <2>3. \A e \in Entries : sel'[e] = sel[e]  BY <1>10, MenuAssumption DEF Nodes
  <2>4. OneEntry(own)'
    BY <1>2, <1>8, <1>9, <1>18, <2>1, <2>3 DEF OneEntry, Picked, Between
  <2> QED BY <2>2, <2>4 DEF Entry
<1>21. Places'
  <2>1. \A u \in Adders \ {t} : pc'[u] = pc[u] /\ cur'[u] = cur[u] /\ calls'[u] = calls[u]
    BY <1>2, <1>3 DEF Tasks
  <2>2. \A u \in Adders \ {t} : Place(u)'  BY <1>0, <1>4, <1>9, <2>1, OtherPlaces
  <2>3. AtEnd(t)'  BY <1>2, <1>5, <1>8, <1>9 DEF AtEnd
  <2>4. Unnamed(t)'  BY <1>2, <1>5, <1>7, <1>9, <1>11 DEF Unnamed, Arg
  <2>5. Place(t)'
    BY <1>2, <1>3, <1>5, <1>7, <1>8, <1>9, <1>12, <2>3, <2>4 DEF Place, AdderCS, Arg
  <2> QED BY <2>2, <2>5 DEF Places
<1>22. Handled'
  <2>1. \A S \in SUBSET Menus : Closed(S)' => Closed(S)  BY <1>8 DEF Closed
  <2>2. \A x \in Menus : Linked(x) => sel'[x] = sel[x]  BY <1>7, <1>10 DEF Nodes
  <2> QED BY <1>0, <1>2, <1>4, <1>9, <1>16, <1>17, <1>18, <2>1, <2>2, HandledKept
<1>23. TypeOK' /\ MutualExclusion'  BY AdderBasics DEF Adder
<1> QED BY <1>13, <1>14, <1>15, <1>19, <1>20, <1>21, <1>22, <1>23 DEF ListInv

(* The new menu becomes the last of the list, or its head. *)
LEMMA LinkKeeps == ASSUME ListInv, NEW t \in Adders, Link(t) PROVE ListInv'
<1> DEFINE n == new[t]
           c == cur[t]
<1>0. /\ TypeOK /\ MutualExclusion /\ Fresh /\ Lists /\ Reach /\ OneMenu /\ Entry
      /\ Places /\ Handled /\ Place(t)
  BY DEF ListInv, Places
<1>1. /\ pc[t] = "link" /\ Goto(t, "flag")
      /\ c # NULL => next' = [next EXCEPT ![c] = n] /\ menus' = menus
      /\ c = NULL => menus' = n /\ next' = next
      /\ UNCHANGED <<name, kids, prev, sel, menu_sem, cur, new, calls, job>>
  BY DEF Link
<1>2. pc'[t] = "flag" /\ \A u \in Tasks \ {t} : pc'[u] = pc[u]
  BY <1>0, <1>1 DEF TypeOK, Goto, Tasks
<1>3. InCS(t) /\ t \in Tasks  BY <1>1 DEF InCS, AdderCS, Tasks
<1>4. /\ calls[t] # <<>> /\ AtEnd(t) /\ Unnamed(t)
      /\ n \in Menus /\ ~Linked(n) /\ next[n] = NULL /\ kids[n] = NULL
      /\ name[n] = Arg(t).name /\ prev[n] = c
  BY <1>0, <1>1 DEF Place
<1>5. /\ c = NULL => menus = NULL
      /\ c # NULL => c \in Menus /\ Linked(c) /\ next[c] = NULL /\ c # n
  BY <1>4 DEF AtEnd
<1>6. n \in Nodes /\ n # NULL /\ n \notin Entries /\ (c # NULL => c \in Nodes /\ c \notin Entries)
  BY <1>4, <1>5, MenuAssumption DEF Nodes
<1>7. /\ c # NULL => next'[c] = n
      /\ \A x \in Nodes : x # c => next'[x] = next[x]
      /\ next[c] # NULL => c = NULL
  BY <1>0, <1>1, <1>5, <1>6 DEF TypeOK
<1>8. \A x \in Nodes : Linked(x)' <=> Linked(x) \/ x = n
  <2>1. CASE c = NULL
    <3>1. menus' = n /\ menus = NULL /\ next' = next /\ kids' = kids  BY <1>1, <1>5, <2>1
    <3>2. \A x \in Nodes : x # NULL  BY MenuAssumption
    <3> QED BY <3>1, <3>2 DEF Linked
  <2>2. CASE c # NULL
    <3>1. menus' = menus /\ kids' = kids /\ c \in Nodes /\ next[c] = NULL /\ next'[c] = n
      BY <1>1, <1>5, <1>6, <1>7, <2>2
    <3>2. \A x \in Nodes : x # NULL  BY MenuAssumption
    <3>3. \A x \in Nodes : (\E y \in Nodes : next'[y] = x) <=> (\E y \in Nodes : next[y] = x) \/ x = n
      BY <1>7, <3>1, <3>2
    <3> QED BY <3>1, <3>3 DEF Linked
  <2> QED BY <2>1, <2>2
<1>9. \A x \in Nodes : next[x] # NULL => next[x] \in Nodes /\ next[x] # n /\ x # c /\ x # n /\ Linked(x)
  <2> SUFFICES ASSUME NEW x \in Nodes, next[x] # NULL
               PROVE  next[x] \in Nodes /\ next[x] # n /\ x # c /\ x # n /\ Linked(x)
    OBVIOUS
  <2>1. next[x] \in Nodes /\ Linked(x)  BY <1>0 DEF TypeOK, Lists
  <2>2. next[x] # n  BY <1>4 DEF Linked
  <2>3. x # c /\ x # n  BY <1>4, <1>5, MenuAssumption
  <2> QED BY <2>1, <2>2, <2>3
<1>10. Lists'
  <2>1. ListsWellFormed'
    <3>1. \A x \in Nodes : next'[x] # NULL =>
            prev[next'[x]] = x /\ (x \in Menus <=> next'[x] \in Menus)
      BY <1>0, <1>4, <1>5, <1>7, MenuAssumption DEF Lists, ListsWellFormed
    <3>2. ASSUME NEW x \in Nodes, Linked(x)', prev[x] # NULL
          PROVE  next'[prev[x]] = x
      <4>1. CASE x = n
        BY <1>4, <1>7, <3>2, <4>1
      <4>2. CASE x # n
        <5>1. Linked(x)  BY <1>8, <3>2, <4>2
        <5>2. next[prev[x]] = x /\ prev[x] \in Nodes
          BY <1>0, <3>2, <5>1 DEF Lists, ListsWellFormed, TypeOK
        <5>3. prev[x] # c  BY <1>5, <3>2, <5>2, MenuAssumption
        <5> QED BY <1>7, <5>2, <5>3
      <4> QED BY <4>1, <4>2
    <3>3. menus' # NULL => prev[menus'] = NULL
      BY <1>0, <1>1, <1>4, <1>5 DEF Lists, ListsWellFormed
    <3> QED BY <1>0, <1>1, <3>1, <3>2, <3>3 DEF Lists, ListsWellFormed
  <2>2. UniqueNames'
    <3>1. \A x \in Menus : Linked(x)' <=> Linked(x) \/ x = n  BY <1>8 DEF Nodes
    <3> QED BY <1>0, <1>1, <1>4, <3>1 DEF Lists, UniqueNames, Unnamed
  <2>3. menus' # NULL => menus' \in Menus  BY <1>0, <1>1, <1>4 DEF Lists
  <2>4. \A x \in Menus : name[x] = NULL => next'[x] = NULL /\ kids[x] = NULL /\ ~Linked(x)'
    <3>1. name[n] # NULL
      BY <1>0, <1>4, First, MenuAssumption
    <3>2. c # NULL => name[c] # NULL  BY <1>0, <1>5 DEF Lists
    <3>3. ASSUME NEW x \in Menus, name[x] = NULL
          PROVE  next'[x] = NULL /\ kids[x] = NULL /\ ~Linked(x)'
      <4>1. x \in Nodes /\ x # n /\ x # c  BY <3>1, <3>2, <3>3, MenuAssumption DEF Nodes
      <4> QED BY <1>0, <1>7, <1>8, <3>3, <4>1 DEF Lists
    <3> QED BY <3>3
  <2>5. \A x \in Menus : kids[x] # NULL => Linked(x)'  BY <1>0, <1>8 DEF Lists, Nodes
  <2>6. \A x \in Nodes : next'[x] # NULL => Linked(x)'  BY <1>0, <1>5, <1>7, <1>8, MenuAssumption DEF Lists
  <2>7. \A x, y \in Menus : kids[x] # NULL /\ kids[x] = kids[y] => x = y  BY <1>0 DEF Lists
  <2> QED BY <1>1, <2>1, <2>2, <2>3, <2>4, <2>5, <2>6, <2>7 DEF Lists
<1>11. \A S \in SUBSET Menus : Closed(S)' => Closed(S)
  BY <1>7, <1>9 DEF Closed, Nodes
<1>12. Reach'
  <2> SUFFICES ASSUME NEW x \in Menus, Linked(x)' PROVE menus' # NULL /\ From(menus, x)'
    BY DEF Reach
  <2>1. CASE x = n /\ c = NULL
    BY <1>1, <1>6, <2>1 DEF From
  <2>2. CASE x = n /\ c # NULL
    <3>1. menus # NULL /\ menus' = menus /\ From(menus, c)
      BY <1>0, <1>1, <1>5, <2>2 DEF Reach
    <3>2. \A S \in SUBSET Menus : menus \in S /\ Closed(S)' => n \in S
      BY <1>6, <1>7, <1>11, <2>2, <3>1 DEF From, Closed
    <3> QED BY <2>2, <3>1, <3>2 DEF From
  <2>3. CASE x # n
    <3>1. Linked(x) /\ menus # NULL /\ From(menus, x)  BY <1>0, <1>8, <2>3 DEF Reach, Nodes
    <3>2. menus' = menus  BY <1>1, <1>5, <3>1
    <3> QED BY <1>11, <3>1, <3>2 DEF From
  <2> QED BY <2>1, <2>2, <2>3
<1>13. Fresh'
  <2>1. \A e \in Entries : ~Linked(e) => ~Linked(e)' /\ next'[e] = next[e]
    BY <1>6, <1>7, <1>8, MenuAssumption DEF Nodes
  <2> QED BY <1>0, <1>1, <2>1, FreshSame
<1>14. (\A x : ~Flagging(x)) /\ (\A x : Flagging(x)' <=> x = n)
  BY <1>0, <1>1, <1>2, <1>3, OneFlag DEF Flagging, Tasks
<1>15. \A x \in Menus : Chosen(x)' <=> Chosen(x)
  BY <1>1, <1>4, <1>8, <1>14 DEF Chosen, Nodes
<1>16. pc'[Gui] = pc[Gui]  BY <1>2, MenuAssumption DEF Tasks
<1>17. OneMenu'
  <2>1. \A u \in Adders : pc[u] # "flag"  BY <1>0, <1>1, <1>3, OneFlag
  <2>2. menus' # NULL => menus # NULL \/ (pc'[t] = "flag" /\ cur'[t] = NULL)
    BY <1>1, <1>2
  <2> QED BY <1>0, <1>1, <1>15, <1>16, <2>1, <2>2 DEF OneMenu, Between
<1>18. \A e \in Entries : (Linked(e)' <=> Linked(e)) /\ next'[e] = next[e]
  BY <1>6, <1>7, <1>8, MenuAssumption DEF Nodes
<1>19. Entry'
  <2>1. PICK own \in [Entries -> Menus \cup {NULL}] : Owned(own) /\ OneEntry(own)
    BY <1>0 DEF Entry
  <2>2. Owned(own)'  BY <1>1, <1>18, <2>1 DEF Owned
  <2>3. OneEntry(own)'
    BY <1>1, <1>16, <1>18, <2>1 DEF OneEntry, Picked, Between
  <2> QED BY <2>2, <2>3 DEF Entry
<1>20. Places'
  <2>1. \A u \in Adders \ {t} : pc'[u] = pc[u] /\ cur'[u] = cur[u] /\ calls'[u] = calls[u]
    BY <1>1, <1>2 DEF Tasks
  <2>2. \A x \in Nodes : Linked(x) => Linked(x)'  BY <1>8
  <2>3. \A u \in Adders \ {t} : Place(u)'  BY <1>0, <1>3, <2>1, <2>2, OtherPlaces
  <2>4. new'[t] = n /\ next'[n] = NULL /\ \A x : x = n => Linked(x)'
    BY <1>1, <1>4, <1>5, <1>6, <1>7, <1>8
  <2>5. c = NULL <=> menus' = n
    BY <1>1, <1>4 DEF Linked
  <2>6. new'[t] \in Menus /\ Linked(new[t])' /\ next'[new'[t]] = NULL
        /\ (cur'[t] = NULL <=> menus' = new'[t])
    BY <1>1, <1>4, <2>4, <2>5
  <2>7. Place(t)'  BY <1>1, <1>2, <1>4, <2>6 DEF Place, AdderCS
  <2> QED BY <2>3, <2>7 DEF Places
<1>21. Handled'
  <2>1. \A x \in Nodes : Linked(x) => Linked(x)'  BY <1>8
  <2>2. \A x \in Menus : Linked(x) => ~Flagging(x)' /\ sel'[x] = sel[x]  BY <1>1, <1>4, <1>14
  <2>3. menus # NULL => menus' = menus  BY <1>1, <1>5
  <2> QED BY <1>0, <1>1, <1>3, <1>11, <1>15, <1>16, <2>1, <2>2, <2>3, HandledKept
<1>22. TypeOK' /\ MutualExclusion'  BY AdderBasics DEF Adder
<1> QED BY <1>10, <1>12, <1>13, <1>17, <1>19, <1>20, <1>21, <1>22 DEF ListInv

(* Only now is the selected field of the new menu written: 1 if it is the  *)
(* only one, 0 if another one is selected already.                         *)
LEMMA FlagKeeps == ASSUME ListInv, NEW t \in Adders, Flag(t) PROVE ListInv'
<1> DEFINE n == new[t]
           c == cur[t]
<1>0. /\ TypeOK /\ MutualExclusion /\ Fresh /\ Lists /\ Reach /\ OneMenu /\ Entry
      /\ Places /\ Handled /\ Place(t)
  BY DEF ListInv, Places
<1>1. /\ pc[t] = "flag" /\ Found(t) /\ At(t, n)
      /\ sel' = [sel EXCEPT ![n] = IF c = NULL THEN 1 ELSE 0]
      /\ UNCHANGED <<menus, name, kids, next, prev, new, job>>
  BY DEF Flag
<1>2. calls[t] # <<>> /\ n \in Menus /\ Linked(n) /\ next[n] = NULL /\ (c = NULL <=> menus = n)
  BY <1>0, <1>1 DEF Place
<1>3. InCS(t) /\ t \in Tasks  BY <1>1 DEF InCS, AdderCS, Tasks
<1>4. cur'[t] = n /\ \A u \in Tasks \ {t} : cur'[u] = cur[u]
  BY <1>0, <1>1, <1>3 DEF TypeOK, At
<1>5. \A x : Linked(x)' <=> Linked(x)  BY <1>1, LinkedSame
<1>6. Lists' /\ Reach'  BY <1>0, <1>1, ShapeSame
<1>7. Fresh'  BY <1>0, <1>1, <1>2, FoundFresh
<1>8. Place(t)' /\ pc'[t] \in {"idle", "add"}
  <2>1. \A x : x = n => Linked(x)'  BY <1>2, <1>5
  <2>2. cur'[t] \in Menus /\ Linked(cur[t])'  BY <1>2, <1>4, <2>1
  <2> QED BY <1>0, <1>1, <1>2, <2>2, FoundPlace
<1>9. (\A u \in Tasks \ {t} : pc'[u] = pc[u]) /\ (\A u \in Adders \ {t} : calls'[u] = calls[u])
  BY <1>0, <1>1, FoundOthers
<1>10. (\A x : Flagging(x) <=> x = n) /\ (\A x : ~Flagging(x)')
  BY <1>0, <1>1, <1>3, <1>8, <1>9, OneFlag DEF Flagging, Tasks
<1>11. /\ sel'[n] = IF c = NULL THEN 1 ELSE 0
       /\ \A x \in Nodes : x # n => sel'[x] = sel[x]
  BY <1>0, <1>1, <1>2 DEF TypeOK, Nodes
<1>12. pc'[Gui] = pc[Gui] /\ cur'[Gui] = cur[Gui]  BY <1>4, <1>9, MenuAssumption DEF Tasks
<1>13. ~Between /\ pc[Gui] \in {"idle", "search", "act"}  BY <1>0, <1>3, HandlerOutside
<1>14. c = NULL => \A x \in Menus : Linked(x) => x = n
  <2> SUFFICES ASSUME c = NULL, NEW x \in Menus, Linked(x) PROVE x = n  OBVIOUS
  <2>1. From(menus, x) /\ menus = n  BY <1>0, <1>2 DEF Reach
  <2>2. Closed({n}) /\ {n} \in SUBSET Menus /\ menus \in {n}  BY <1>2, <2>1 DEF Closed
  <2>3. x \in {n}  BY <2>1, <2>2 DEF From
  <2> QED BY <2>3
<1>15. c = NULL => \A x \in Menus : Chosen(x)' <=> x = n
  BY <1>2, <1>5, <1>10, <1>11, <1>14 DEF Chosen, Nodes
<1>16. c # NULL => \A x \in Menus : Chosen(x)' <=> Chosen(x)
  BY <1>2, <1>5, <1>10, <1>11 DEF Chosen, Nodes
<1>17. OneMenu'
  <2>1. CASE c = NULL  BY <1>2, <1>12, <1>13, <1>15, <2>1 DEF OneMenu, Between
  <2>2. CASE c # NULL
    <3>1. ~\E u \in Adders : pc[u] = "flag" /\ cur[u] = NULL
      BY <1>0, <1>3, <2>2, OneFlag
    <3>2. \E x \in Menus : Chosen(x)
      <4>1. menus # NULL  BY <1>0, <1>2 DEF Reach
      <4> QED BY <1>0, <1>13, <3>1, <4>1 DEF OneMenu
    <3> QED BY <1>0, <1>12, <1>13, <1>16, <2>2, <3>2 DEF OneMenu, Between
  <2> QED BY <2>1, <2>2
<1>18. Entry'
  <2>1. PICK own \in [Entries -> Menus \cup {NULL}] : Owned(own) /\ OneEntry(own)
    BY <1>0 DEF Entry
  <2>2. Owned(own)'  BY <1>1, <1>5, <2>1 DEF Owned
  <2>3. \A e \in Entries : sel'[e] = sel[e]  BY <1>2, <1>11, MenuAssumption DEF Nodes
  <2>4. OneEntry(own)'
    BY <1>1, <1>5, <1>12, <2>1, <2>3 DEF OneEntry, Picked, Between
  <2> QED BY <2>2, <2>4 DEF Entry
<1>19. Places'
  <2>1. \A u \in Adders \ {t} : pc'[u] = pc[u] /\ cur'[u] = cur[u] /\ calls'[u] = calls[u]
    BY <1>4, <1>9 DEF Tasks
  <2>2. \A u \in Adders \ {t} : Place(u)'  BY <1>0, <1>3, <1>5, <2>1, OtherPlaces
  <2> QED BY <1>8, <2>2 DEF Places
<1>20. Handled'
  <2>1. CASE c # NULL
    <3>1. \A S \in SUBSET Menus : Closed(S)' => Closed(S)  BY <1>1 DEF Closed
    <3>2. \A x \in Menus : Linked(x) /\ (Flagging(x) => x = menus)
            => sel'[x] = sel[x] /\ (Flagging(x)' => Flagging(x))
      BY <1>2, <1>10, <1>11, <2>1 DEF Nodes
    <3> QED BY <1>0, <1>1, <1>3, <1>5, <1>12, <1>16, <2>1, <3>1, <3>2, HandledKept
  <2>2. CASE c = NULL
    <3>1. ~Between'  BY <1>12, <1>13 DEF Between
    <3>2. ASSUME pc[Gui] = "search", cur[Gui] # NULL
          PROVE  /\ cur'[Gui] \in Menus /\ Linked(cur[Gui])'
                 /\ \A m \in Menus : Chosen(m)' => From(cur[Gui], m)'
      <4>1. cur[Gui] \in Menus /\ Linked(cur[Gui])  BY <1>0, <3>2 DEF Handled
      <4>2. cur[Gui] = n  BY <1>14, <2>2, <4>1
      <4>3. \A m \in Menus : Chosen(m)' => m = cur'[Gui]  BY <1>12, <1>15, <2>2, <4>2
      <4> QED BY <1>5, <1>12, <4>1, <4>3 DEF From
    <3>3. ASSUME pc[Gui] = "act", job.op = "display"
          PROVE  cur'[Gui] = NULL \/ (cur'[Gui] \in Menus /\ Linked(cur[Gui])')
      BY <1>0, <1>5, <1>12, <3>3 DEF Handled
    <3>4. ASSUME pc[Gui] = "act", job.op # "display"
          PROVE  /\ cur'[Gui] \in Menus /\ Linked(cur[Gui])' /\ sel'[cur[Gui]] = 1
                 /\ \A m \in Menus : Chosen(m)' => m = cur[Gui]
                 /\ ~Flagging(cur[Gui])'
      <4>1. cur[Gui] \in Menus /\ Linked(cur[Gui])  BY <1>0, <3>4 DEF Handled
      <4>2. cur[Gui] = n  BY <1>14, <2>2, <4>1
      <4> QED BY <1>5, <1>10, <1>11, <1>12, <1>15, <2>2, <4>1, <4>2
    <3> QED BY <1>1, <1>12, <1>13, <3>1, <3>2, <3>3, <3>4 DEF Handled
  <2> QED BY <2>1, <2>2
<1>21. TypeOK' /\ MutualExclusion'  BY AdderBasics DEF Adder
<1> QED BY <1>6, <1>7, <1>17, <1>18, <1>19, <1>20, <1>21 DEF ListInv

-----------------------------------------------------------------------------
(* The steps that link an entry. *)

(* The head of what is still to be added. *)
LEMMA NextEntry ==
  ASSUME TypeOK, Fresh, NEW t \in Adders, calls[t] # <<>>, Arg(t).entries # <<>>
  PROVE  /\ Head(Arg(t).entries) \in Entries
         /\ ~Linked(Head(Arg(t).entries)) /\ next[Head(Arg(t).entries)] = NULL
  BY First DEF Fresh

(* The menu has no entry yet: this one becomes its first, and is selected. *)
AddTakeNew(t) ==
  LET m == cur[t]
      e == Head(Arg(t).entries)
  IN /\ pc[t] = "add" /\ kids[m] = NULL
     /\ Take /\ Goto(t, "tail") /\ At(t, e) /\ Consume(t)
     /\ kids' = [kids EXCEPT ![m] = e]
     /\ next' = [next EXCEPT ![e] = NULL]
     /\ prev' = [prev EXCEPT ![e] = NULL]
     /\ sel'  = [sel EXCEPT ![e] = 1]
     /\ UNCHANGED <<menus, name, new, job>>

LEMMA AddTakeNewKeeps ==
  ASSUME ListInv, NEW t \in Adders, AddTake(t), AddTakeNew(t)
  PROVE  ListInv'
<1>0. /\ TypeOK /\ MutualExclusion /\ Fresh /\ Lists /\ Reach /\ OneMenu /\ Entry
      /\ Places /\ Handled /\ Place(t)
  BY DEF ListInv, Places
<1>e. PICK e : e = Head(Arg(t).entries)  OBVIOUS
<1>m. PICK m : m = cur[t]  OBVIOUS
<1>1. /\ pc[t] = "add" /\ kids[m] = NULL
      /\ Take /\ Goto(t, "tail") /\ At(t, e) /\ Consume(t)
      /\ kids' = [kids EXCEPT ![m] = e]
      /\ next' = [next EXCEPT ![e] = NULL]
      /\ prev' = [prev EXCEPT ![e] = NULL]
      /\ sel'  = [sel EXCEPT ![e] = 1]
      /\ UNCHANGED <<menus, name, new, job>>
  BY <1>e, <1>m DEF AddTakeNew
<1>2. calls[t] # <<>> /\ Arg(t).entries # <<>> /\ m \in Menus /\ Linked(m)
  BY <1>0, <1>1, <1>m DEF Place
<1>3. e \in Entries /\ ~Linked(e) /\ next[e] = NULL  BY <1>0, <1>2, <1>e, NextEntry
<1>4. e \in Nodes /\ e # NULL /\ e \notin Menus  BY <1>3, MenuAssumption DEF Nodes
<1>5. t \in Tasks  BY DEF Tasks
<1>6. /\ pc'[t] = "tail" /\ cur'[t] = e
      /\ \A u \in Tasks \ {t} : pc'[u] = pc[u] /\ cur'[u] = cur[u]
      /\ \A u \in Adders \ {t} : calls'[u] = calls[u]
  BY <1>0, <1>1, <1>5 DEF TypeOK, Goto, At, Consume
<1>7. next' = next  BY <1>0, <1>1, <1>3, <1>4 DEF TypeOK
<1>8. /\ kids'[m] = e /\ \A x \in Menus : x # m => kids'[x] = kids[x]
      /\ prev'[e] = NULL /\ \A x \in Nodes : x # e => prev'[x] = prev[x]
      /\ sel'[e] = 1 /\ \A x \in Nodes : x # e => sel'[x] = sel[x]
  BY <1>0, <1>1, <1>2, <1>4 DEF TypeOK
<1>9. \A x \in Nodes : Linked(x)' <=> Linked(x) \/ x = e
  <2>1. \A x \in Nodes : x # NULL  BY MenuAssumption
  <2>2. \A x \in Nodes : (\E y \in Menus : kids'[y] = x) <=> (\E y \in Menus : kids[y] = x) \/ x = e
    BY <1>1, <1>2, <1>8, <2>1
  <2> QED BY <1>1, <1>7, <2>2 DEF Linked
<1>10. \A x \in Menus : (Linked(x)' <=> Linked(x)) /\ sel'[x] = sel[x]
  BY <1>4, <1>8, <1>9 DEF Nodes
<1>11. Lists'
  <2>1. ListsWellFormed'
    <3>1. \A x \in Nodes : next[x] # NULL => prev'[next[x]] = x /\ (x \in Menus <=> next[x] \in Menus)
      <4>1. \A x \in Nodes : next[x] # NULL => next[x] \in Nodes /\ next[x] # e
        BY <1>0, <1>3 DEF Linked, TypeOK
      <4> QED BY <1>0, <1>8, <4>1 DEF Lists, ListsWellFormed
    <3>2. \A x \in Nodes : Linked(x)' /\ prev'[x] # NULL => next[prev'[x]] = x
      BY <1>0, <1>8, <1>9 DEF Lists, ListsWellFormed
    <3>3. menus # NULL => prev'[menus] = NULL
      BY <1>0, <1>4, <1>8 DEF Lists, ListsWellFormed, Nodes
    <3>4. \A x \in Menus : kids'[x] # NULL => kids'[x] \in Entries /\ prev'[kids'[x]] = NULL
      BY <1>0, <1>3, <1>8 DEF Lists, ListsWellFormed, Nodes
    <3> QED BY <1>1, <1>7, <3>1, <3>2, <3>3, <3>4 DEF ListsWellFormed
  <2>2. UniqueNames'  BY <1>0, <1>1, <1>10 DEF Lists, UniqueNames
  <2>3. \A x, y \in Menus : kids'[x] # NULL /\ kids'[x] = kids'[y] => x = y
    <3>1. \A x \in Menus : kids[x] # e  BY <1>3 DEF Linked
    <3> QED BY <1>0, <1>2, <1>8, <3>1 DEF Lists
  <2>4. \A x \in Menus : name[x] = NULL => next[x] = NULL /\ kids'[x] = NULL /\ ~Linked(x)'
    BY <1>0, <1>2, <1>8, <1>10 DEF Lists
  <2>5. \A x \in Menus : kids'[x] # NULL => Linked(x)'  BY <1>0, <1>2, <1>8, <1>10 DEF Lists
  <2>6. \A x \in Nodes : next[x] # NULL => Linked(x)'  BY <1>0, <1>9 DEF Lists
  <2>7. menus # NULL => menus \in Menus  BY <1>0 DEF Lists
  <2> QED BY <1>1, <1>7, <2>1, <2>2, <2>3, <2>4, <2>5, <2>6, <2>7 DEF Lists
<1>12. Reach'  BY <1>0, <1>1, <1>7, <1>10 DEF Reach, From, Closed
<1>13. Fresh'
  <2>1. \A f \in Entries : ~Linked(f) /\ f # e => ~Linked(f)' /\ next'[f] = next[f]
    BY <1>7, <1>9 DEF Nodes
  <2> QED BY <1>0, <1>1, <1>2, <1>e, <2>1, FreshConsume
<1>14. \A x : Flagging(x)' <=> Flagging(x)  BY <1>1, <1>6 DEF Flagging, Tasks
<1>15. \A x \in Menus : Chosen(x)' <=> Chosen(x)  BY <1>10, <1>14 DEF Chosen
<1>16. pc'[Gui] = pc[Gui] /\ cur'[Gui] = cur[Gui]  BY <1>6, MenuAssumption DEF Tasks
<1>17. ~Between /\ ~Between'
  <2>1. ~Between  BY <1>0, <1>1, HandlerOutside
  <2> QED BY <1>16, <2>1 DEF Between
<1>18. OneMenu'
  <2>1. (\E u \in Adders : pc[u] = "flag" /\ cur[u] = NULL)
          => \E u \in Adders : pc'[u] = "flag" /\ cur'[u] = NULL
    BY <1>1, <1>6 DEF Tasks
  <2> QED BY <1>0, <1>1, <1>15, <1>17, <2>1 DEF OneMenu
<1>19. Entry'
  <2>1. PICK own \in [Entries -> Menus \cup {NULL}] : Owned(own) /\ OneEntry(own)
    BY <1>0 DEF Entry
  <2>2. PICK own2 \in [Entries -> Menus \cup {NULL}] : own2 = [own EXCEPT ![e] = m]
    BY <1>2, <2>1
  <2>3. own2[e] = m /\ \A f \in Entries : f # e => own2[f] = own[f]
    BY <1>3, <2>1, <2>2
  <2>4. \A f \in Entries : next[f] # NULL => next[f] \in Entries /\ next[f] # e /\ f # e
    BY <1>0, <1>3, MenuAssumption DEF Linked, Lists, ListsWellFormed, TypeOK, Nodes
  <2>5. \A x \in Menus : kids[x] # NULL => kids[x] \in Entries /\ kids[x] # e
    BY <1>0, <1>3 DEF Linked, TypeOK
  <2>6. Owned(own2)'
    <3>1. \A x \in Menus : kids'[x] # NULL => own2[kids'[x]] = x
      BY <1>8, <2>1, <2>3, <2>5 DEF Owned
    <3>2. \A f \in Entries : next[f] # NULL => own2[next[f]] = own2[f]
      BY <2>1, <2>3, <2>4 DEF Owned
    <3>3. \A f \in Entries : Linked(f)' => own2[f] \in Menus /\ kids'[own2[f]] # NULL
      BY <1>2, <1>4, <1>8, <1>9, <2>1, <2>3 DEF Owned, Nodes
    <3> QED BY <1>7, <3>1, <3>2, <3>3 DEF Owned
  <2>7. ASSUME NEW x \in Menus, kids'[x] # NULL
        PROVE  /\ \A f, g \in Entries : Picked(own2, x, f)' /\ Picked(own2, x, g)' => f = g
               /\ \E f \in Entries : Picked(own2, x, f)'
    <3>1. CASE x = m
      <4>1. \A f \in Entries : Linked(f) => own[f] # m  BY <1>1, <2>1 DEF Owned
      <4>2. \A f \in Entries : Picked(own2, x, f)' <=> f = e
        BY <1>3, <1>8, <1>9, <2>3, <3>1, <4>1 DEF Picked, Nodes
      <4> QED BY <1>3, <4>2
    <3>2. CASE x # m
      <4>1. \A f \in Entries : Picked(own2, x, f)' <=> Picked(own, x, f)
        BY <1>3, <1>8, <1>9, <2>3, <3>2 DEF Picked, Nodes
      <4>2. kids[x] # NULL  BY <1>8, <2>7, <3>2
      <4> QED BY <1>17, <2>1, <4>1, <4>2 DEF OneEntry
    <3> QED BY <3>1, <3>2
  <2>8. OneEntry(own2)'  BY <1>17, <2>7 DEF OneEntry
  <2> QED BY <2>6, <2>8 DEF Entry
<1>20. Places'
  <2>1. \A u \in Adders \ {t} : pc'[u] = pc[u] /\ cur'[u] = cur[u] /\ calls'[u] = calls[u]
    BY <1>6 DEF Tasks
  <2>2. \A x \in Nodes : Linked(x) => Linked(x)'  BY <1>9
  <2>3. \A u \in Adders \ {t} : Place(u)'  BY <1>0, <1>1, <2>1, <2>2, OtherPlaces
  <2>4. calls'[t] # <<>>  BY <1>0, <1>1, <1>2, ConsumeType
  <2>5. \A x : x = e => Linked(x)'  BY <1>4, <1>9
  <2>6. Linked(cur[t])'  BY <1>6, <2>5
  <2>7. Place(t)'  BY <1>3, <1>6, <2>4, <2>6 DEF Place, AdderCS
  <2> QED BY <2>3, <2>7 DEF Places
<1>21. Handled'
  <2>1. \A x \in Nodes : Linked(x) => Linked(x)'  BY <1>9
  <2>2. \A S \in SUBSET Menus : Closed(S)' => Closed(S)  BY <1>7 DEF Closed
  <2> QED BY <1>0, <1>1, <1>10, <1>14, <1>15, <1>16, <2>1, <2>2, HandledKept
<1>22. TypeOK' /\ MutualExclusion'  BY AdderBasics DEF Adder
<1> QED BY <1>11, <1>12, <1>13, <1>18, <1>19, <1>20, <1>21, <1>22 DEF ListInv

(* The walk is at the last entry: the next one goes behind it, and is not  *)
(* selected.                                                               *)
LEMMA AddEntryKeeps == ASSUME ListInv, NEW t \in Adders, AddEntry(t) PROVE ListInv'
<1>0. /\ TypeOK /\ MutualExclusion /\ Fresh /\ Lists /\ Reach /\ OneMenu /\ Entry
      /\ Places /\ Handled /\ Place(t)
  BY DEF ListInv, Places
<1>e. PICK e : e = Head(Arg(t).entries)  OBVIOUS
<1>c. PICK c : c = cur[t]  OBVIOUS
<1>1. /\ pc[t] = "tail" /\ next[c] = NULL /\ Arg(t).entries # <<>>
      /\ At(t, e) /\ Consume(t)
      /\ sel'  = [sel EXCEPT ![e] = 0]
      /\ next' = [next EXCEPT ![e] = NULL, ![c] = e]
      /\ prev' = [prev EXCEPT ![e] = c]
      /\ UNCHANGED <<menus, name, kids, menu_sem, pc, new, job>>
  BY <1>e, <1>c DEF AddEntry
<1>2. calls[t] # <<>> /\ Arg(t).entries # <<>> /\ c \in Entries /\ Linked(c)
  BY <1>0, <1>1, <1>c DEF Place
<1>3. e \in Entries /\ ~Linked(e) /\ next[e] = NULL /\ e # c
  BY <1>0, <1>2, <1>e, NextEntry
<1>4. e \in Nodes /\ e # NULL /\ e \notin Menus /\ c \in Nodes /\ c # NULL /\ c \notin Menus
  BY <1>2, <1>3, MenuAssumption DEF Nodes
<1>5. t \in Tasks /\ InCS(t)  BY <1>1 DEF Tasks, InCS, AdderCS
<1>6. /\ pc'[t] = "tail" /\ cur'[t] = e
      /\ \A u \in Tasks \ {t} : pc'[u] = pc[u] /\ cur'[u] = cur[u]
      /\ \A u \in Adders \ {t} : calls'[u] = calls[u]
  BY <1>0, <1>1, <1>5 DEF TypeOK, At, Consume
<1>7. next'[c] = e /\ \A x \in Nodes : x # c => next'[x] = next[x]
  BY <1>0, <1>1, <1>3, <1>4 DEF TypeOK
<1>8. /\ prev'[e] = c /\ \A x \in Nodes : x # e => prev'[x] = prev[x]
      /\ sel'[e] = 0 /\ \A x \in Nodes : x # e => sel'[x] = sel[x]
  BY <1>0, <1>1, <1>4 DEF TypeOK
<1>9. \A x \in Nodes : Linked(x)' <=> Linked(x) \/ x = e
  <2>1. \A x \in Nodes : x # NULL  BY MenuAssumption
  <2>2. \A x \in Nodes : (\E y \in Nodes : next'[y] = x) <=> (\E y \in Nodes : next[y] = x) \/ x = e
    BY <1>1, <1>4, <1>7, <2>1
  <2> QED BY <1>1, <2>2 DEF Linked
<1>10. \A x \in Menus : (Linked(x)' <=> Linked(x)) /\ sel'[x] = sel[x]
  BY <1>4, <1>8, <1>9 DEF Nodes
<1>a. \A x \in Menus : next'[x] = next[x]  BY <1>4, <1>7 DEF Nodes
<1>11. Lists'
  <2>1. ListsWellFormed'
    <3>1. \A x \in Nodes : next'[x] # NULL =>
            prev'[next'[x]] = x /\ (x \in Menus <=> next'[x] \in Menus)
      <4>1. \A x \in Nodes : next[x] # NULL => next[x] \in Nodes /\ next[x] # e
        BY <1>0, <1>3 DEF Linked, TypeOK
      <4> QED BY <1>0, <1>4, <1>7, <1>8, <4>1 DEF Lists, ListsWellFormed
    <3>2. ASSUME NEW x \in Nodes, Linked(x)', prev'[x] # NULL PROVE next'[prev'[x]] = x
      <4>1. CASE x = e  BY <1>7, <1>8, <4>1
      <4>2. CASE x # e
        <5>1. Linked(x) /\ prev'[x] = prev[x]  BY <1>8, <1>9, <3>2, <4>2
        <5>2. next[prev[x]] = x /\ prev[x] \in Nodes
          BY <1>0, <3>2, <5>1 DEF Lists, ListsWellFormed, TypeOK
        <5>3. prev[x] # c  BY <1>1, <5>2, MenuAssumption
        <5> QED BY <1>7, <5>1, <5>2, <5>3
      <4> QED BY <4>1, <4>2
    <3>3. menus # NULL => prev'[menus] = NULL
      BY <1>0, <1>4, <1>8 DEF Lists, ListsWellFormed, Nodes
    <3>4. \A x \in Menus : kids[x] # NULL => kids[x] \in Entries /\ prev'[kids[x]] = NULL
      BY <1>0, <1>3, <1>8 DEF Lists, ListsWellFormed, Nodes, Linked
    <3> QED BY <1>1, <3>1, <3>2, <3>3, <3>4 DEF ListsWellFormed
  <2>2. UniqueNames'  BY <1>0, <1>1, <1>10 DEF Lists, UniqueNames
  <2>3. \A x, y \in Menus : kids[x] # NULL /\ kids[x] = kids[y] => x = y  BY <1>0 DEF Lists
  <2>4. \A x \in Menus : name[x] = NULL => next'[x] = NULL /\ kids[x] = NULL /\ ~Linked(x)'
    BY <1>0, <1>a, <1>10 DEF Lists
  <2>5. \A x \in Menus : kids[x] # NULL => Linked(x)'  BY <1>0, <1>10 DEF Lists
  <2>6. \A x \in Nodes : next'[x] # NULL => Linked(x)'  BY <1>0, <1>2, <1>7, <1>9 DEF Lists
  <2>7. menus # NULL => menus \in Menus  BY <1>0 DEF Lists
  <2> QED BY <1>1, <2>1, <2>2, <2>3, <2>4, <2>5, <2>6, <2>7 DEF Lists
<1>b. \A S \in SUBSET Menus : Closed(S)' <=> Closed(S)  BY <1>a DEF Closed
<1>12. Reach'  BY <1>0, <1>1, <1>b, <1>10 DEF Reach, From
<1>13. Fresh'
  <2>1. \A f \in Entries : ~Linked(f) /\ f # e => ~Linked(f)' /\ next'[f] = next[f]
    BY <1>2, <1>7, <1>9 DEF Nodes
  <2> QED BY <1>0, <1>1, <1>2, <1>e, <2>1, FreshConsume
<1>14. \A x : Flagging(x)' <=> Flagging(x)  BY <1>1, <1>6 DEF Flagging, Tasks
<1>15. \A x \in Menus : Chosen(x)' <=> Chosen(x)  BY <1>10, <1>14 DEF Chosen
<1>16. pc'[Gui] = pc[Gui] /\ cur'[Gui] = cur[Gui]  BY <1>6, MenuAssumption DEF Tasks
<1>17. ~Between /\ ~Between'
  <2>1. ~Between  BY <1>0, <1>5, HandlerOutside
  <2> QED BY <1>16, <2>1 DEF Between
<1>18. OneMenu'
  <2>1. (\E u \in Adders : pc[u] = "flag" /\ cur[u] = NULL)
          => \E u \in Adders : pc'[u] = "flag" /\ cur'[u] = NULL
    BY <1>1, <1>6 DEF Tasks
  <2> QED BY <1>0, <1>1, <1>15, <1>17, <2>1 DEF OneMenu
<1>19. Entry'
  <2>1. PICK own \in [Entries -> Menus \cup {NULL}] : Owned(own) /\ OneEntry(own)
    BY <1>0 DEF Entry
  <2>2. PICK own2 \in [Entries -> Menus \cup {NULL}] : own2 = [own EXCEPT ![e] = own[c]]
    BY <1>2, <2>1
  <2>3. own2[e] = own[c] /\ \A f \in Entries : f # e => own2[f] = own[f]
    BY <1>3, <2>1, <2>2
  <2>4. \A f \in Entries : next[f] # NULL => next[f] \in Entries /\ next[f] # e /\ f # e
    BY <1>0, <1>3, MenuAssumption DEF Linked, Lists, ListsWellFormed, TypeOK, Nodes
  <2>5. \A x \in Menus : kids[x] # NULL => kids[x] \in Entries /\ kids[x] # e
    BY <1>0, <1>3 DEF Linked, TypeOK
  <2>6. Owned(own2)'
    <3>1. \A x \in Menus : kids[x] # NULL => own2[kids[x]] = x
      BY <2>1, <2>3, <2>5 DEF Owned
    <3>2. \A f \in Entries : next'[f] # NULL => own2[next'[f]] = own2[f]
      BY <1>2, <1>3, <1>4, <1>7, <2>1, <2>3, <2>4 DEF Owned, Nodes
    <3>3. \A f \in Entries : Linked(f)' => own2[f] \in Menus /\ kids[own2[f]] # NULL
      BY <1>2, <1>4, <1>9, <2>1, <2>3 DEF Owned, Nodes
    <3> QED BY <1>1, <3>1, <3>2, <3>3 DEF Owned
  <2>7. \A x \in Menus : \A f \in Entries : Picked(own2, x, f)' <=> Picked(own, x, f)
    BY <1>3, <1>8, <1>9, <2>3 DEF Picked, Nodes
  <2>8. OneEntry(own2)'  BY <1>1, <1>17, <2>1, <2>7 DEF OneEntry
  <2> QED BY <2>6, <2>8 DEF Entry
<1>20. Places'
  <2>1. \A u \in Adders \ {t} : pc'[u] = pc[u] /\ cur'[u] = cur[u] /\ calls'[u] = calls[u]
    BY <1>6 DEF Tasks
  <2>2. \A x \in Nodes : Linked(x) => Linked(x)'  BY <1>9
  <2>3. \A u \in Adders \ {t} : Place(u)'  BY <1>0, <1>5, <2>1, <2>2, OtherPlaces
  <2>4. calls'[t] # <<>>  BY <1>0, <1>1, <1>2, ConsumeType
  <2>5. \A x : x = e => Linked(x)'  BY <1>4, <1>9
  <2>6. Linked(cur[t])'  BY <1>6, <2>5
  <2>7. Place(t)'  BY <1>3, <1>6, <2>4, <2>6 DEF Place, AdderCS
  <2> QED BY <2>3, <2>7 DEF Places
<1>21. Handled'
  <2>1. \A x \in Nodes : Linked(x) => Linked(x)'  BY <1>9
  <2> QED BY <1>0, <1>1, <1>5, <1>b, <1>10, <1>14, <1>15, <1>16, <2>1, HandledKept
<1>22. TypeOK' /\ MutualExclusion'  BY AdderBasics DEF Adder
<1> QED BY <1>11, <1>12, <1>13, <1>18, <1>19, <1>20, <1>21, <1>22 DEF ListInv

(* Every step of a task that adds menus. *)
LEMMA AdderKeeps == ASSUME ListInv, NEW t \in Adders, Adder(t) PROVE ListInv'
<1>1. CASE AddTake(t)
  <2>1. CASE kids[cur[t]] = NULL
    <3>1. AddTakeNew(t)  BY <1>1, <2>1 DEF AddTake, AddTakeNew
    <3> QED BY <1>1, <3>1, AddTakeNewKeeps
  <2>2. CASE kids[cur[t]] # NULL
    <3>1. AddTakeOld(t)  BY <1>1, <2>2 DEF AddTake, AddTakeOld
    <3> QED BY <1>1, <3>1, AddTakeOldKeeps
  <2> QED BY <2>1, <2>2
<1> QED
  BY <1>1, FindTakeKeeps, FindStepKeeps, FindHitKeeps, FindMissKeeps, AllocFailKeeps,
     AllocKeeps, LinkKeeps, FlagKeeps, AddWalkKeeps, AddEntryKeeps, AddDoneKeeps DEF Adder

-----------------------------------------------------------------------------
(* The steps of the handler, which writes nothing but selected fields. *)

(* What every step of the handler leaves alone. *)
LEMMA HandlerFrame ==
  ASSUME ListInv, Handler \/ Event
  PROVE  /\ TypeOK' /\ MutualExclusion' /\ Fresh' /\ Lists' /\ Reach' /\ Places'
         /\ UNCHANGED <<menus, name, kids, next, prev>>
         /\ \A n : Linked(n)' <=> Linked(n)
         /\ \A n : Flagging(n)' <=> Flagging(n)
         /\ (\E u \in Adders : pc'[u] = "flag" /\ cur'[u] = NULL)
              <=> (\E u \in Adders : pc[u] = "flag" /\ cur[u] = NULL)
<1>0. TypeOK /\ MutualExclusion /\ Fresh /\ Lists /\ Reach /\ Places /\ Handled
  BY DEF ListInv
<1>1. UNCHANGED <<menus, name, kids, next, prev, new, calls>>
  BY DEF Handler, Event, Search, ActTake, ActTimeout, Seek, SeekEnd, Deselect, Step, Wrap,
         Select, lists
<1>2. \A u \in Adders : cur'[u] = cur[u]
  BY <1>0, MenuAssumption
     DEF Handler, Event, Search, ActTake, ActTimeout, Seek, SeekEnd, Deselect, Step, Wrap,
         Select, At, TypeOK, Tasks
<1>3. \A u \in Adders : pc'[u] = pc[u]
  BY <1>0, MenuAssumption
     DEF Handler, Event, Search, ActTake, ActTimeout, Seek, SeekEnd, Deselect, Step, Wrap,
         Select, Goto, TypeOK, Tasks
<1>4. TypeOK'  BY <1>0, HandlerTypes
<1>5. MutualExclusion'  BY <1>0, HandlerStep DEF IInv, Typed, TypeOK
<1>6. \A n : Linked(n)' <=> Linked(n)  BY <1>1, LinkedSame
<1>7. Fresh'  BY <1>0, <1>1, <1>6, FreshSame
<1>8. Lists' /\ Reach'  BY <1>0, <1>1, ShapeSame
<1>9. \A n : Flagging(n)' <=> Flagging(n)  BY <1>1, <1>3 DEF Flagging
<1>10. Places'
  <2> SUFFICES ASSUME NEW t \in Adders PROVE Place(t)'  BY DEF Places
  <2>1. Place(t) /\ pc'[t] = pc[t] /\ cur'[t] = cur[t]  BY <1>0, <1>2, <1>3 DEF Places
  <2>2. /\ Linked(cur[t])' <=> Linked(cur[t])
        /\ Linked(new[t])' <=> Linked(new[t])
    BY <1>1, <1>2, <1>6
  <2>3. (\E S \in SUBSET Menus : Passed(t, S)') <=> (\E S \in SUBSET Menus : Passed(t, S))
    BY <1>1, <2>1 DEF Passed, Arg
  <2>4. AtEnd(t)' <=> AtEnd(t)  BY <1>1, <2>1, <2>2 DEF AtEnd
  <2>5. Unnamed(t)' <=> Unnamed(t)  BY <1>1, <1>6 DEF Unnamed, Arg
  <2>6. Arg(t)' = Arg(t)  BY <1>1 DEF Arg
  <2> QED BY <1>1, <2>1, <2>2, <2>3, <2>4, <2>5, <2>6 DEF Place
<1> QED BY <1>1, <1>2, <1>3, <1>4, <1>5, <1>6, <1>7, <1>8, <1>9, <1>10

(* A step that selects nothing and is not between two selections. *)
LEMMA HandlerReads ==
  ASSUME ListInv, Handler \/ Event, UNCHANGED sel, ~Between, ~Between', Handled'
  PROVE  ListInv'
<1>0. OneMenu /\ Entry  BY DEF ListInv
<1>1. /\ UNCHANGED <<menus, name, kids, next, prev>>
      /\ \A n : Linked(n)' <=> Linked(n)
      /\ \A n : Flagging(n)' <=> Flagging(n)
      /\ (\E u \in Adders : pc'[u] = "flag" /\ cur'[u] = NULL)
           <=> (\E u \in Adders : pc[u] = "flag" /\ cur[u] = NULL)
      /\ TypeOK' /\ MutualExclusion' /\ Fresh' /\ Lists' /\ Reach' /\ Places'
  BY HandlerFrame
<1>2. \A m : Chosen(m)' <=> Chosen(m)  BY <1>1 DEF Chosen
<1>3. OneMenu'  BY <1>0, <1>1, <1>2 DEF OneMenu
<1>4. Entry'
  <2>1. PICK own \in [Entries -> Menus \cup {NULL}] : Owned(own) /\ OneEntry(own)
    BY <1>0 DEF Entry
  <2>2. Owned(own)'  BY <1>1, <2>1 DEF Owned
  <2>3. \A m, e : Picked(own, m, e)' <=> Picked(own, m, e)  BY <1>1 DEF Picked
  <2>4. OneEntry(own)'  BY <1>1, <2>1, <2>3 DEF OneEntry
  <2> QED BY <2>2, <2>4 DEF Entry
<1> QED BY <1>1, <1>3, <1>4 DEF ListInv

(* An event arrives: every menu, the selected one too, is ahead of the     *)
(* head of the list.                                                       *)
LEMMA EventKeeps == ASSUME ListInv, Event PROVE ListInv'
<1>0. TypeOK /\ Lists /\ Reach  BY DEF ListInv
<1>1. /\ pc[Gui] = "idle" /\ At(Gui, menus) /\ Goto(Gui, "search")
      /\ UNCHANGED <<lists, menu_sem, new, calls>>
  BY DEF Event
<1>2. pc'[Gui] = "search" /\ cur'[Gui] = menus
  BY <1>0, <1>1 DEF TypeOK, At, Goto, Tasks
<1>3. UNCHANGED <<menus, name, kids, next, prev, sel>>  BY <1>1 DEF lists
<1>4. \A n : Linked(n)' <=> Linked(n)  BY <1>3, LinkedSame
<1>5. ~Between /\ ~Between'  BY <1>1, <1>2 DEF Between
<1>6. menus # NULL => menus \in Menus /\ Linked(menus)  BY <1>0 DEF Lists, Linked
<1>7. Linked(cur[Gui])' <=> Linked(menus)  BY <1>2, <1>4
<1>8. \A m \in Menus : Chosen(m)' => From(cur[Gui], m)'
  <2>1. \A m \in Menus : From(menus, m) <=> From(cur[Gui], m)'
    BY <1>2, <1>3 DEF From, Closed
  <2> QED BY <1>0, <1>4, <2>1 DEF Reach, Chosen
<1>9. Handled'  BY <1>2, <1>3, <1>5, <1>6, <1>7, <1>8 DEF Handled
<1> QED BY <1>3, <1>5, <1>9, HandlerReads

(* The search goes on, or has found the selected menu, which stays the     *)
(* only one until the lock is taken.                                       *)
LEMMA SearchKeeps == ASSUME ListInv, Search PROVE ListInv'
<1>0. TypeOK /\ MutualExclusion /\ Lists /\ Reach /\ OneMenu /\ Places /\ Handled  BY DEF ListInv
<1>1. /\ pc[Gui] = "search"
      /\ UNCHANGED <<lists, menu_sem, new, calls, job>>
  BY DEF Search
<1>2. UNCHANGED <<menus, name, kids, next, prev, sel>>  BY <1>1 DEF lists
<1>3. /\ \A n : Linked(n)' <=> Linked(n)
      /\ \A n : Flagging(n)' <=> Flagging(n)
  BY HandlerFrame DEF Handler
<1>4. \A m : Chosen(m)' <=> Chosen(m)  BY <1>2, <1>3 DEF Chosen
<1>5. \A x, m : From(x, m)' <=> From(x, m)  BY <1>2 DEF From, Closed
<1>6. cur[Gui] # NULL =>
        /\ cur[Gui] \in Menus /\ Linked(cur[Gui])
        /\ \A m \in Menus : Chosen(m) => From(cur[Gui], m)
  BY <1>0, <1>1 DEF Handled
<1>7. ~Between  BY <1>1 DEF Between
<1>8. CASE cur[Gui] # NULL /\ sel[cur[Gui]] = 0
  <2>1. cur'[Gui] = next[cur[Gui]] /\ pc'[Gui] = "search"
    BY <1>0, <1>1, <1>8 DEF Search, TypeOK, At, Tasks
  <2>2. PICK x : x = next[cur[Gui]]  OBVIOUS
  <2>3. PICK y \in Menus : y = cur[Gui]  BY <1>6, <1>8
  <2>4. x # NULL => x \in Menus /\ Linked(x)
    BY <1>0, <2>2, <2>3 DEF Lists, ListsWellFormed, Linked, Nodes
  <2>5. ASSUME x # NULL, NEW m \in Menus, Chosen(m) PROVE From(x, m)
    <3> SUFFICES ASSUME NEW S \in SUBSET Menus, x \in S, Closed(S) PROVE m \in S
      BY DEF From
    <3>1. Closed(S \cup {y}) /\ S \cup {y} \in SUBSET Menus /\ y \in S \cup {y}
      BY <2>2, <2>3 DEF Closed
    <3>2. m \in S \cup {y}  BY <1>6, <1>8, <2>3, <2>5, <3>1 DEF From
    <3>3. m # y  BY <1>8, <2>3, <2>5 DEF Chosen
    <3> QED BY <3>2, <3>3
  <2>6. ~Between'  BY <2>1 DEF Between
  <2>7. x # NULL => Linked(cur[Gui])' /\ \A m \in Menus : Chosen(m)' => From(cur[Gui], m)'
    BY <1>3, <1>4, <1>5, <2>1, <2>2, <2>4, <2>5
  <2>8. Handled'  BY <2>1, <2>2, <2>4, <2>6, <2>7 DEF Handled
  <2> QED BY <1>2, <1>7, <2>6, <2>8, HandlerReads DEF Handler
<1>9. CASE ~(cur[Gui] # NULL /\ sel[cur[Gui]] = 0) /\ job.op = "display"
  <2>1. cur'[Gui] = menus /\ pc'[Gui] = "act"
    BY <1>0, <1>1, <1>9 DEF Search, TypeOK, At, Goto, Tasks
  <2>2. menus # NULL => menus \in Menus /\ Linked(menus)  BY <1>0 DEF Lists, Linked
  <2>3. menus # NULL => Linked(cur[Gui])'  BY <1>3, <2>1, <2>2
  <2>4. ~Between'  BY <2>1 DEF Between
  <2>5. Handled'  BY <1>1, <1>9, <2>1, <2>2, <2>3, <2>4 DEF Handled
  <2> QED BY <1>2, <1>7, <2>4, <2>5, HandlerReads DEF Handler
<1>10. CASE ~(cur[Gui] # NULL /\ sel[cur[Gui]] = 0) /\ job.op # "display" /\ cur[Gui] = NULL
  <2>1. pc'[Gui] = "idle"
    BY <1>0, <1>1, <1>10 DEF Search, TypeOK, Goto, Tasks
  <2>2. ~Between'  BY <2>1 DEF Between
  <2>3. Handled'  BY <2>1, <2>2 DEF Handled
  <2> QED BY <1>2, <1>7, <2>2, <2>3, HandlerReads DEF Handler
<1>11. CASE cur[Gui] # NULL /\ sel[cur[Gui]] # 0 /\ job.op # "display"
  <2>1. pc'[Gui] = "act" /\ cur'[Gui] = cur[Gui]
    BY <1>0, <1>1, <1>11 DEF Search, TypeOK, Goto, Tasks
  <2>2. PICK y \in Menus : y = cur[Gui]  BY <1>6, <1>11
  <2>3. Linked(y) /\ sel[y] = 1  BY <1>0, <1>6, <1>11, <2>2 DEF TypeOK, Nodes
  <2>4. (\A m \in Menus : Chosen(m) => m = y) /\ (Flagging(y) => y = menus)
    <3>1. CASE ~Flagging(y)
      <4>1. Chosen(y)  BY <2>3, <3>1 DEF Chosen
      <4> QED BY <1>0, <3>1, <4>1 DEF OneMenu
    <3>2. CASE Flagging(y)
      <4>1. PICK t \in Adders : pc[t] = "flag" /\ new[t] = y  BY <3>2 DEF Flagging
      <4>2. next[y] = NULL /\ (cur[t] = NULL <=> menus = y)
        BY <1>0, <4>1 DEF Places, Place
      <4>3. \A m \in Menus : ~Chosen(m)
        <5> SUFFICES ASSUME NEW m \in Menus, Chosen(m) PROVE FALSE  OBVIOUS
        <5>1. From(y, m)  BY <1>6, <1>11, <2>2
        <5>2. Closed({y}) /\ {y} \in SUBSET Menus /\ y \in {y}  BY <4>2 DEF Closed
        <5>3. m = y  BY <5>1, <5>2 DEF From
        <5> QED BY <3>2, <5>3 DEF Chosen
      <4>4. menus # NULL  BY <1>0, <2>3 DEF Reach
      <4>5. PICK u \in Adders : pc[u] = "flag" /\ cur[u] = NULL
        BY <1>0, <1>7, <4>3, <4>4 DEF OneMenu
      <4>6. InCS(t) /\ t \in Tasks  BY <4>1 DEF InCS, AdderCS, Tasks
      <4>7. u = t  BY <1>0, <4>5, <4>6, OneFlag
      <4> QED BY <4>2, <4>3, <4>5, <4>7
    <3> QED BY <3>1, <3>2
  <2>5. ~Between'  BY <2>1 DEF Between
  <2>6. Linked(cur[Gui])' /\ (Flagging(cur[Gui])' <=> Flagging(y))
    BY <1>3, <2>1, <2>2, <2>3
  <2>7. Handled'
    BY <1>1, <1>2, <1>4, <1>11, <2>1, <2>2, <2>3, <2>4, <2>5, <2>6 DEF Handled
  <2> QED BY <1>2, <1>7, <2>5, <2>7, HandlerReads DEF Handler
<1> QED BY <1>8, <1>9, <1>10, <1>11

(* The handler gives up. *)
LEMMA ActTimeoutKeeps == ASSUME ListInv, ActTimeout PROVE ListInv'
<1>0. TypeOK  BY DEF ListInv
<1>1. pc[Gui] = "act" /\ Goto(Gui, "idle") /\ UNCHANGED lists  BY DEF ActTimeout
<1>2. pc'[Gui] = "idle"  BY <1>0, <1>1 DEF TypeOK, Goto, Tasks
<1>3. ~Between /\ ~Between'  BY <1>1, <1>2 DEF Between
<1>4. Handled'  BY <1>2, <1>3 DEF Handled
<1>5. UNCHANGED sel  BY <1>1 DEF lists
<1> QED BY <1>3, <1>4, <1>5, HandlerReads DEF Handler

(* A walk goes on, from the head or the entries of the selected menu. *)
LEMMA SeekKeeps == ASSUME ListInv, Seek PROVE ListInv'
<1>0. TypeOK /\ Lists /\ Handled  BY DEF ListInv
<1>1. /\ pc[Gui] = "seek" /\ cur[Gui] # NULL /\ At(Gui, next[cur[Gui]])
      /\ UNCHANGED <<lists, pc, job>>
  BY DEF Seek
<1>2. cur'[Gui] = next[cur[Gui]] /\ pc'[Gui] = "seek"
  BY <1>0, <1>1 DEF TypeOK, At, Tasks
<1>3. UNCHANGED <<menus, name, kids, next, prev, sel>>  BY <1>1 DEF lists
<1>4. \A n : Linked(n)' <=> Linked(n)  BY <1>3, LinkedSame
<1>5. ~Between /\ ~Between'  BY <1>1, <1>2 DEF Between
<1>6. PICK x : x = next[cur[Gui]]  OBVIOUS
<1>7. x # NULL => x \in Kind /\ Linked(x)
  <2>1. cur[Gui] \in Kind /\ cur[Gui] \in Nodes  BY <1>0, <1>1 DEF Handled, Kind, Nodes
  <2>2. x # NULL => x \in Nodes /\ Linked(x) /\ (cur[Gui] \in Menus <=> x \in Menus)
    BY <1>0, <1>6, <2>1 DEF TypeOK, Lists, ListsWellFormed, Linked
  <2> QED BY <2>1, <2>2, MenuAssumption DEF Kind, Nodes
<1>8. x # NULL => Linked(cur[Gui])' /\ cur'[Gui] \in Kind'
  BY <1>1, <1>2, <1>4, <1>6, <1>7 DEF Kind
<1>9. Handled'  BY <1>2, <1>5, <1>6, <1>8 DEF Handled, GuiCS
<1> QED BY <1>3, <1>5, <1>9, HandlerReads DEF Handler

LEMMA SeekEndKeeps == ASSUME ListInv, SeekEnd PROVE ListInv'
<1>0. TypeOK  BY DEF ListInv
<1>1. pc[Gui] = "seek" /\ Goto(Gui, "idle") /\ UNCHANGED lists  BY DEF SeekEnd
<1>2. pc'[Gui] = "idle"  BY <1>0, <1>1 DEF TypeOK, Goto, Tasks
<1>3. ~Between /\ ~Between'  BY <1>1, <1>2 DEF Between
<1>4. Handled'  BY <1>2, <1>3 DEF Handled
<1>5. UNCHANGED sel  BY <1>1 DEF lists
<1> QED BY <1>3, <1>4, <1>5, HandlerReads DEF Handler

(* The lock is taken to draw, or to look for the selected entry. *)
LEMMA ActSeekKeeps == ASSUME ListInv, ActTake, job.op # "menu" PROVE ListInv'
<1>0. TypeOK /\ Lists /\ Handled  BY DEF ListInv
<1>1. /\ pc[Gui] = "act" /\ Goto(Gui, "seek")
      /\ UNCHANGED <<menus, name, kids, next, prev, sel, job>>
  BY DEF ActTake
<1>2. pc'[Gui] = "seek"  BY <1>0, <1>1 DEF TypeOK, Goto, Tasks
<1>3. ~Between /\ ~Between'  BY <1>1, <1>2 DEF Between
<1>4. \A n : Linked(n)' <=> Linked(n)  BY <1>1, LinkedSame
<1>5. cur'[Gui] = NULL \/ (cur'[Gui] \in Kind' /\ Linked(cur[Gui])')
  <2>1. CASE job.op = "display"
    <3>1. cur'[Gui] = cur[Gui]  BY <2>1 DEF ActTake
    <3>2. cur[Gui] = NULL \/ (cur[Gui] \in Menus /\ Linked(cur[Gui]))
      BY <1>0, <1>1, <2>1 DEF Handled
    <3>3. Linked(cur[Gui])' <=> Linked(cur[Gui])  BY <1>4, <3>1
    <3> QED BY <1>1, <2>1, <3>1, <3>2, <3>3 DEF Kind
  <2>2. CASE job.op # "display"
    <3>1. At(Gui, kids[cur[Gui]])  BY <2>2 DEF ActTake
    <3>2. PICK x : x = kids[cur[Gui]]  OBVIOUS
    <3>3. cur'[Gui] = x  BY <1>0, <3>1, <3>2 DEF TypeOK, At, Tasks
    <3>4. cur[Gui] \in Menus  BY <1>0, <1>1, <2>2 DEF Handled
    <3>5. x # NULL => x \in Entries /\ Linked(x)
      BY <1>0, <3>2, <3>4 DEF TypeOK, Linked
    <3>6. x # NULL => Linked(cur[Gui])'  BY <1>4, <3>3, <3>5
    <3> QED BY <1>1, <2>2, <3>3, <3>5, <3>6 DEF Kind
  <2> QED BY <2>1, <2>2
<1>6. Handled'  BY <1>2, <1>3, <1>5 DEF Handled, GuiCS
<1> QED BY <1>1, <1>3, <1>6, HandlerReads DEF Handler

(* menu_move deselects the one menu that is selected. *)
LEMMA ActMoveKeeps == ASSUME ListInv, ActTake, job.op = "menu" PROVE ListInv'
<1>0. TypeOK /\ MutualExclusion /\ OneMenu /\ Entry /\ Handled  BY DEF ListInv
<1>1. /\ pc[Gui] = "act" /\ Take /\ Goto(Gui, "step")
      /\ sel' = [sel EXCEPT ![cur[Gui]] = 0]
      /\ UNCHANGED <<cur, job>>
  BY DEF ActTake
<1>2. pc'[Gui] = "step"  BY <1>0, <1>1 DEF TypeOK, Goto, Tasks
<1>3. ~Between /\ Between'  BY <1>1, <1>2 DEF Between
<1>4. /\ TypeOK' /\ MutualExclusion' /\ Fresh' /\ Lists' /\ Reach' /\ Places'
      /\ UNCHANGED <<menus, name, kids, next, prev>>
      /\ \A n : Linked(n)' <=> Linked(n)
      /\ \A n : Flagging(n)' <=> Flagging(n)
  BY HandlerFrame DEF Handler
<1>5. PICK y \in Menus : y = cur[Gui]  BY <1>0, <1>1 DEF Handled
<1>6. Linked(y) /\ (\A m \in Menus : Chosen(m) => m = y)
  BY <1>0, <1>1, <1>5 DEF Handled
<1>7. sel'[y] = 0 /\ \A n \in Nodes : n # y => sel'[n] = sel[n]
  BY <1>0, <1>1, <1>5 DEF TypeOK, Nodes
<1>8. \A m \in Menus : ~Chosen(m)'  BY <1>4, <1>6, <1>7 DEF Chosen, Nodes
<1>9. OneMenu'  BY <1>1, <1>3, <1>8 DEF OneMenu
<1>10. Entry'
  <2>1. PICK own \in [Entries -> Menus \cup {NULL}] : Owned(own) /\ OneEntry(own)
    BY <1>0 DEF Entry
  <2>2. Owned(own)'  BY <1>4, <2>1 DEF Owned
  <2>3. \A m, e : Picked(own, m, e)' <=> Picked(own, m, e)
    BY <1>4, <1>5, <1>7, MenuAssumption DEF Picked, Nodes
  <2>4. OneEntry(own)'  BY <1>1, <1>3, <1>4, <2>1, <2>3 DEF OneEntry
  <2> QED BY <2>2, <2>4 DEF Entry
<1>11. Handled'
  <2>1. Linked(cur[Gui])'  BY <1>1, <1>4, <1>5, <1>6
  <2>2. cur'[Gui] \in Kind' /\ job'.op \in {"menu", "entry"}  BY <1>1, <1>5 DEF Kind
  <2> QED BY <1>2, <2>1, <2>2 DEF Handled, GuiCS
<1> QED BY <1>4, <1>9, <1>10, <1>11 DEF ListInv

(* menu_entry_move deselects the one entry of the menu that is selected. *)
LEMMA DeselectKeeps == ASSUME ListInv, Deselect PROVE ListInv'
<1>0. TypeOK /\ MutualExclusion /\ OneMenu /\ Entry /\ Handled  BY DEF ListInv
<1>1. /\ pc[Gui] = "seek" /\ job.op = "entry" /\ cur[Gui] # NULL /\ sel[cur[Gui]] = 1
      /\ Goto(Gui, "step")
      /\ sel' = [sel EXCEPT ![cur[Gui]] = 0]
      /\ UNCHANGED <<cur, job>>
  BY DEF Deselect, Wanted
<1>2. pc'[Gui] = "step"  BY <1>0, <1>1 DEF TypeOK, Goto, Tasks
<1>3. ~Between /\ Between'  BY <1>1, <1>2 DEF Between
<1>4. /\ TypeOK' /\ MutualExclusion' /\ Fresh' /\ Lists' /\ Reach' /\ Places'
      /\ UNCHANGED <<menus, name, kids, next, prev>>
      /\ \A n : Linked(n)' <=> Linked(n)
      /\ \A n : Flagging(n)' <=> Flagging(n)
      /\ (\E u \in Adders : pc'[u] = "flag" /\ cur'[u] = NULL)
           <=> (\E u \in Adders : pc[u] = "flag" /\ cur[u] = NULL)
  BY HandlerFrame DEF Handler
<1>5. PICK y \in Entries : y = cur[Gui]  BY <1>0, <1>1 DEF Handled, Kind
<1>6. Linked(y) /\ y \notin Menus  BY <1>0, <1>1, <1>5, MenuAssumption DEF Handled
<1>7. sel'[y] = 0 /\ \A n \in Nodes : n # y => sel'[n] = sel[n]
  BY <1>0, <1>1, <1>5 DEF TypeOK, Nodes
<1>8. \A m \in Menus : Chosen(m)' <=> Chosen(m)  BY <1>4, <1>6, <1>7 DEF Chosen, Nodes
<1>9. OneMenu'  BY <1>0, <1>1, <1>3, <1>4, <1>8 DEF OneMenu
<1>10. Entry'
  <2>1. PICK own \in [Entries -> Menus \cup {NULL}] : Owned(own) /\ OneEntry(own)
    BY <1>0 DEF Entry
  <2>2. Owned(own)'  BY <1>4, <2>1 DEF Owned
  <2>3. Picked(own, own[y], y) /\ own[y] \in Menus
    BY <1>1, <1>5, <1>6, <2>1 DEF Picked, Owned
  <2>4. \A m, e : Picked(own, m, e)' <=> Picked(own, m, e) /\ e # y
    BY <1>4, <1>7 DEF Picked, Nodes
  <2>5. ASSUME NEW m \in Menus, kids[m] # NULL
        PROVE  /\ own[y] = m => \A e \in Entries : ~Picked(own, m, e)'
               /\ \A e, f \in Entries : Picked(own, m, e)' /\ Picked(own, m, f)' => e = f
               /\ own[y] = m \/ \E e \in Entries : Picked(own, m, e)'
    <3>1. \A e, f \in Entries : Picked(own, m, e) /\ Picked(own, m, f) => e = f
      BY <2>1, <2>5 DEF OneEntry
    <3>2. \E e \in Entries : Picked(own, m, e)  BY <1>3, <2>1, <2>5 DEF OneEntry
    <3>3. own[y] # m => ~Picked(own, m, y)  BY DEF Picked
    <3> QED BY <2>3, <2>4, <3>1, <3>2, <3>3
  <2>6. own[cur'[Gui]] = own[y]  BY <1>1, <1>5
  <2>7. OneEntry(own)'  BY <1>1, <1>3, <1>4, <2>5, <2>6 DEF OneEntry
  <2> QED BY <2>2, <2>7 DEF Entry
<1>11. Handled'
  <2>1. Linked(cur[Gui])'  BY <1>1, <1>4, <1>5, <1>6
  <2>2. cur'[Gui] \in Kind' /\ job'.op \in {"menu", "entry"}  BY <1>1, <1>5 DEF Kind
  <2> QED BY <1>2, <2>1, <2>2 DEF Handled, GuiCS
<1> QED BY <1>4, <1>9, <1>10, <1>11 DEF ListInv

(* A move to a neighbour stays in the list. *)
LEMMA MoveKeeps ==
  ASSUME ListInv, Handler, UNCHANGED <<sel, job>>, Between, Between',
         \/ cur'[Gui] = cur[Gui]
         \/ cur'[Gui] # NULL /\ cur'[Gui] \in {next[cur[Gui]], prev[cur[Gui]]}
  PROVE  ListInv'
<1>0. TypeOK /\ Lists /\ OneMenu /\ Entry /\ Handled  BY DEF ListInv
<1>1. /\ TypeOK' /\ MutualExclusion' /\ Fresh' /\ Lists' /\ Reach' /\ Places'
      /\ UNCHANGED <<menus, name, kids, next, prev>>
      /\ \A n : Linked(n)' <=> Linked(n)
      /\ \A n : Flagging(n)' <=> Flagging(n)
      /\ (\E u \in Adders : pc'[u] = "flag" /\ cur'[u] = NULL)
           <=> (\E u \in Adders : pc[u] = "flag" /\ cur[u] = NULL)
  BY HandlerFrame
<1>2. PICK y \in Kind : y = cur[Gui]  BY <1>0 DEF Handled
<1>3. PICK x : x = cur'[Gui]  OBVIOUS
<1>4. Linked(y) /\ y \in Nodes /\ job.op \in {"menu", "entry"}
  BY <1>0, <1>2 DEF Handled, Kind, Nodes
<1>5. x = y \/ (x \in Nodes /\ (next[x] = y \/ next[y] = x))
  BY <1>0, <1>2, <1>3, <1>4 DEF TypeOK, Lists, ListsWellFormed
<1>6. x \in Nodes /\ (x \in Menus <=> y \in Menus) /\ Linked(x)
  <2>1. y # NULL  BY <1>4, MenuAssumption
  <2>2. CASE x = y  BY <1>4, <2>2
  <2>3. CASE x \in Nodes /\ next[x] = y
    BY <1>0, <1>4, <2>1, <2>3 DEF Lists, ListsWellFormed
  <2>4. CASE x \in Nodes /\ next[y] = x
    <3>1. x # NULL  BY <2>4, MenuAssumption
    <3> QED BY <1>0, <1>4, <2>4, <3>1 DEF Lists, ListsWellFormed, Linked
  <2> QED BY <1>5, <2>2, <2>3, <2>4
<1>7. x \in Kind  BY <1>2, <1>4, <1>6, MenuAssumption DEF Kind, Nodes
<1>8. \A m : Chosen(m)' <=> Chosen(m)  BY <1>1 DEF Chosen
<1>9. OneMenu'  BY <1>0, <1>1, <1>8 DEF OneMenu
<1>10. Entry'
  <2>1. PICK own \in [Entries -> Menus \cup {NULL}] : Owned(own) /\ OneEntry(own)
    BY <1>0 DEF Entry
  <2>2. Owned(own)'  BY <1>1, <2>1 DEF Owned
  <2>3. \A m, e : Picked(own, m, e)' <=> Picked(own, m, e)  BY <1>1 DEF Picked
  <2>4. job.op = "entry" => own[x] = own[y]
    <3> SUFFICES ASSUME job.op = "entry" PROVE own[x] = own[y]  OBVIOUS
    <3>1. x \in Entries /\ y \in Entries  BY <1>2, <1>7 DEF Kind
    <3>2. x # NULL /\ y # NULL  BY <3>1, MenuAssumption DEF Nodes
    <3> QED BY <1>5, <2>1, <3>1, <3>2 DEF Owned
  <2>5. OneEntry(own)'  BY <1>1, <1>2, <1>3, <2>1, <2>3, <2>4 DEF OneEntry
  <2> QED BY <2>2, <2>5 DEF Entry
<1>11. Handled'
  <2>1. Linked(cur[Gui])' /\ cur'[Gui] \in Kind'  BY <1>1, <1>3, <1>6, <1>7 DEF Kind
  <2> QED BY <1>4, <2>1 DEF Handled, GuiCS, Between
<1> QED BY <1>1, <1>9, <1>10, <1>11 DEF ListInv

LEMMA StepKeeps == ASSUME ListInv, Step PROVE ListInv'
<1>0. TypeOK  BY DEF ListInv
<1>1. pc[Gui] = "step" /\ UNCHANGED <<lists, job>>  BY DEF Step
<1>2. pc'[Gui] \in {"set", "wrap"}  BY <1>0 DEF Step, TypeOK, Goto, Tasks
<1>3. \/ cur'[Gui] = cur[Gui]
      \/ cur'[Gui] # NULL /\ cur'[Gui] \in {next[cur[Gui]], prev[cur[Gui]]}
  BY <1>0 DEF Step, Ahead, TypeOK, At, Tasks
<1>4. Between /\ Between' /\ UNCHANGED sel  BY <1>1, <1>2 DEF Between, lists
<1> QED BY <1>1, <1>3, <1>4, MoveKeeps DEF Handler

LEMMA WrapKeeps == ASSUME ListInv, Wrap PROVE ListInv'
<1>0. TypeOK  BY DEF ListInv
<1>1. pc[Gui] = "wrap" /\ UNCHANGED <<lists, job>>  BY DEF Wrap
<1>2. pc'[Gui] \in {"set", "wrap"}  BY <1>0 DEF Wrap, TypeOK, Goto, Tasks
<1>3. \/ cur'[Gui] = cur[Gui]
      \/ cur'[Gui] # NULL /\ cur'[Gui] \in {next[cur[Gui]], prev[cur[Gui]]}
  BY <1>0 DEF Wrap, Behind, TypeOK, At, Tasks
<1>4. Between /\ Between' /\ UNCHANGED sel  BY <1>1, <1>2 DEF Between, lists
<1> QED BY <1>1, <1>3, <1>4, MoveKeeps DEF Handler

(* The move ends: where nothing was selected, one is. *)
LEMMA SelectKeeps == ASSUME ListInv, Select PROVE ListInv'
<1>0. TypeOK /\ MutualExclusion /\ OneMenu /\ Entry /\ Handled  BY DEF ListInv
<1>1. /\ pc[Gui] = "set" /\ Goto(Gui, "idle")
      /\ sel' = [sel EXCEPT ![cur[Gui]] = 1]
      /\ UNCHANGED <<cur, job>>
  BY DEF Select
<1>2. pc'[Gui] = "idle"  BY <1>0, <1>1 DEF TypeOK, Goto, Tasks
<1>3. Between /\ ~Between'  BY <1>1, <1>2 DEF Between
<1>4. /\ TypeOK' /\ MutualExclusion' /\ Fresh' /\ Lists' /\ Reach' /\ Places'
      /\ UNCHANGED <<menus, name, kids, next, prev>>
      /\ \A n : Linked(n)' <=> Linked(n)
      /\ \A n : Flagging(n)' <=> Flagging(n)
      /\ (\E u \in Adders : pc'[u] = "flag" /\ cur'[u] = NULL)
           <=> (\E u \in Adders : pc[u] = "flag" /\ cur[u] = NULL)
  BY HandlerFrame DEF Handler
<1>5. PICK y \in Kind : y = cur[Gui]  BY <1>0, <1>3 DEF Handled
<1>6. Linked(y) /\ y \in Nodes /\ job.op \in {"menu", "entry"}
  BY <1>0, <1>3, <1>5 DEF Handled, Kind, Nodes
<1>7. sel'[y] = 1 /\ \A n \in Nodes : n # y => sel'[n] = sel[n]
  BY <1>0, <1>1, <1>5, <1>6 DEF TypeOK
<1>8. ~Flagging(y)
  <2>1. InCS(Gui) /\ Gui \in Tasks  BY <1>1 DEF InCS, GuiCS, Tasks
  <2>2. \A u \in Adders : u \in Tasks /\ u # Gui /\ (pc[u] = "flag" => InCS(u))
    BY MenuAssumption DEF Tasks, InCS, AdderCS
  <2> QED BY <1>0, <2>1, <2>2, Alone DEF Flagging
<1>9. OneMenu'
  <2>1. CASE job.op = "menu"
    <3>1. \A m \in Menus : ~Chosen(m)  BY <1>0, <1>3, <2>1 DEF OneMenu
    <3>2. y \in Menus  BY <1>5, <2>1 DEF Kind
    <3>3. \A m \in Menus : Chosen(m)' <=> m = y
      BY <1>4, <1>6, <1>7, <1>8, <3>1, <3>2 DEF Chosen, Nodes
    <3> QED BY <1>3, <3>2, <3>3 DEF OneMenu
  <2>2. CASE job.op = "entry"
    <3>1. \A m \in Menus : m # y  BY <1>5, <2>2, MenuAssumption DEF Kind
    <3>2. \A m \in Menus : Chosen(m)' <=> Chosen(m)  BY <1>4, <1>7, <3>1 DEF Chosen, Nodes
    <3> QED BY <1>0, <1>1, <1>3, <1>4, <2>2, <3>2 DEF OneMenu
  <2> QED BY <1>6, <2>1, <2>2
<1>10. Entry'
  <2>1. PICK own \in [Entries -> Menus \cup {NULL}] : Owned(own) /\ OneEntry(own)
    BY <1>0 DEF Entry
  <2>2. Owned(own)'  BY <1>4, <2>1 DEF Owned
  <2>3. CASE job.op = "menu"
    <3>1. \A e \in Entries : e # y  BY <1>5, <2>3, MenuAssumption DEF Kind
    <3>2. \A m, e : Picked(own, m, e)' <=> Picked(own, m, e)
      BY <1>4, <1>7, <3>1 DEF Picked, Nodes
    <3>3. OneEntry(own)'  BY <1>1, <1>3, <1>4, <2>1, <2>3, <3>2 DEF OneEntry
    <3> QED BY <2>2, <3>3 DEF Entry
  <2>4. CASE job.op = "entry"
    <3>1. y \in Entries  BY <1>5, <2>4 DEF Kind
    <3>2. \A m, e : Picked(own, m, e)' <=> Picked(own, m, e) \/ (e = y /\ own[y] = m)
      BY <1>4, <1>6, <1>7, <3>1 DEF Picked, Nodes
    <3>3. ASSUME NEW m \in Menus, kids[m] # NULL
          PROVE  /\ \A e, f \in Entries : Picked(own, m, e)' /\ Picked(own, m, f)' => e = f
                 /\ \E e \in Entries : Picked(own, m, e)'
      <4>1. CASE own[y] = m
        <5>1. \A e \in Entries : ~Picked(own, m, e)
          BY <1>3, <1>5, <2>1, <2>4, <3>3, <4>1 DEF OneEntry
        <5> QED BY <3>1, <3>2, <4>1, <5>1
      <4>2. CASE own[y] # m
        <5>1. /\ \A e, f \in Entries : Picked(own, m, e) /\ Picked(own, m, f) => e = f
              /\ \E e \in Entries : Picked(own, m, e)
          BY <1>5, <2>1, <3>3, <4>2 DEF OneEntry
        <5> QED BY <3>2, <4>2, <5>1
      <4> QED BY <4>1, <4>2
    <3>4. OneEntry(own)'  BY <1>3, <1>4, <3>3 DEF OneEntry
    <3> QED BY <2>2, <3>4 DEF Entry
  <2> QED BY <1>6, <2>3, <2>4
<1>11. Handled'  BY <1>2, <1>3 DEF Handled
<1> QED BY <1>4, <1>9, <1>10, <1>11 DEF ListInv

(* Every step of the handler. *)
LEMMA HandlerKeeps == ASSUME ListInv, Handler \/ Event PROVE ListInv'
  BY EventKeeps, SearchKeeps, ActSeekKeeps, ActMoveKeeps, ActTimeoutKeeps, SeekKeeps,
     SeekEndKeeps, DeselectKeeps, StepKeeps, WrapKeeps, SelectKeeps DEF Handler

(* A step of another part of the firmware. *)
LEMMA Stuttering == ASSUME ListInv, UNCHANGED vars PROVE ListInv'
<1>0. UNCHANGED <<menus, name, kids, next, prev, sel, menu_sem, pc, cur, new, calls, job>>
  BY DEF vars
<1>1. TypeOK' /\ MutualExclusion'  BY <1>0 DEF ListInv, TypeOK, MutualExclusion, InCS
<1>2. \A n : Linked(n)' <=> Linked(n)  BY <1>0, LinkedSame
<1>3. Lists' /\ Reach'  BY <1>0, ShapeSame DEF ListInv
<1>4. Fresh'  BY <1>0, <1>2, FreshSame DEF ListInv
<1>5. \A n : Flagging(n)' <=> Flagging(n)  BY <1>0 DEF Flagging
<1>6. \A n : Chosen(n)' <=> Chosen(n)  BY <1>0, <1>2, <1>5 DEF Chosen
<1>7. Between' <=> Between  BY <1>0 DEF Between
<1>8. OneMenu'  BY <1>0, <1>6, <1>7 DEF ListInv, OneMenu
<1>9. Entry'
  <2>1. PICK own \in [Entries -> Menus \cup {NULL}] : Owned(own) /\ OneEntry(own)
    BY DEF ListInv, Entry
  <2>2. Owned(own)'  BY <1>0, <1>2, <2>1 DEF Owned
  <2>3. \A m, e : Picked(own, m, e)' <=> Picked(own, m, e)  BY <1>0, <1>2 DEF Picked
  <2>4. OneEntry(own)'  BY <1>0, <1>7, <2>1, <2>3 DEF OneEntry
  <2> QED BY <2>2, <2>4 DEF Entry
<1>10. Places'
  <2> SUFFICES ASSUME NEW t \in Adders PROVE Place(t)'  BY DEF Places
  <2>1. Place(t)  BY DEF ListInv, Places
  <2> QED BY <1>0, <2>1 DEF Place, Linked, AtEnd, Unnamed, Passed, Arg
<1>11. Handled'
  <2>1. Handled  BY DEF ListInv
  <2>2. \A x, m : From(x, m)' <=> From(x, m)  BY <1>0 DEF From, Closed
  <2>3. /\ Linked(cur[Gui])' <=> Linked(cur[Gui])
        /\ Flagging(cur[Gui])' <=> Flagging(cur[Gui])
        /\ \A m : From(cur[Gui], m)' <=> From(cur[Gui], m)
    BY <1>0, <1>2, <1>5, <2>2
  <2> QED BY <1>0, <1>6, <1>7, <2>1, <2>3 DEF Handled, Kind
<1> QED BY <1>1, <1>3, <1>4, <1>8, <1>9, <1>10, <1>11 DEF ListInv

-----------------------------------------------------------------------------
(* What the invariant says when no task is inside. *)
LEMMA Counted == ASSUME ListInv PROVE OneSelected
<1>0. TypeOK /\ MutualExclusion /\ OneMenu /\ Entry  BY DEF ListInv
<1> SUFFICES ASSUME menu_sem = 1 PROVE
      /\ menus # NULL => Cardinality({m \in Menus : Linked(m) /\ sel[m] = 1}) = 1
      /\ Cardinality({e \in Entries : Linked(e) /\ sel[e] = 1})
           = Cardinality({m \in Menus : kids[m] # NULL})
  BY DEF OneSelected
<1>1. \A t \in Tasks : ~InCS(t)  BY <1>0 DEF MutualExclusion
<1>2. ~Between  BY <1>1 DEF Between, InCS, GuiCS, Tasks
<1>3. \A t \in Adders : pc[t] # "flag"  BY <1>1 DEF InCS, AdderCS, Tasks
<1>4. \A m \in Menus : Chosen(m) <=> Linked(m) /\ sel[m] = 1
  BY <1>3 DEF Chosen, Flagging
<1>5. ASSUME menus # NULL PROVE Cardinality({m \in Menus : Linked(m) /\ sel[m] = 1}) = 1
  <2>1. PICK m \in Menus : Chosen(m)  BY <1>0, <1>2, <1>3, <1>5 DEF OneMenu
  <2>2. {n \in Menus : Linked(n) /\ sel[n] = 1} = {m}  BY <1>0, <1>4, <2>1 DEF OneMenu
  <2> QED BY <2>2, FS_Singleton
<1>6. Cardinality({e \in Entries : Linked(e) /\ sel[e] = 1})
        = Cardinality({m \in Menus : kids[m] # NULL})
  <2> DEFINE E == {e \in Entries : Linked(e) /\ sel[e] = 1}
             M == {m \in Menus : kids[m] # NULL}
  <2>1. PICK own \in [Entries -> Menus \cup {NULL}] : Owned(own) /\ OneEntry(own)
    BY <1>0 DEF Entry
  <2> DEFINE f == [m \in M |-> CHOOSE e \in Entries : Picked(own, m, e)]
  <2>2. \A m \in M : f[m] \in Entries /\ Picked(own, m, f[m])
    BY <1>2, <2>1 DEF OneEntry
  <2>3. f \in [M -> E]  BY <2>2 DEF Picked
  <2>4. \A m, n \in M : f[m] = f[n] => m = n  BY <2>2 DEF Picked
  <2>5. \A e \in E : \E m \in M : f[m] = e
    <3> SUFFICES ASSUME NEW e \in E PROVE \E m \in M : f[m] = e  OBVIOUS
    <3>1. own[e] \in M /\ Picked(own, own[e], e)  BY <2>1 DEF Owned, Picked
    <3>2. f[own[e]] = e  BY <2>1, <2>2, <3>1 DEF OneEntry
    <3> QED BY <3>1, <3>2
  <2> HIDE DEF f, E, M
  <2>6. f \in Bijection(M, E)  BY <2>3, <2>4, <2>5 DEF Bijection, Injection, Surjection, IsInjective
  <2>7. ExistsBijection(M, E)  BY <2>6 DEF ExistsBijection
  <2>8. IsFiniteSet(M)
    <3>1. M \in SUBSET Menus  BY DEF M
    <3> QED BY <3>1, MenuAssumption, FS_Subset
  <2>9. Cardinality(E) = Cardinality(M)  BY <2>7, <2>8, FS_Bijection
  <2> QED BY <2>9 DEF E, M
<1> QED BY <1>5, <1>6

(* The selected menu that the search without menu_sem has found. *)
LEMMA SearchHolds == ASSUME ListInv PROVE SearchIsCurrent
  BY DEF ListInv, Handled, SearchIsCurrent, Chosen, Flagging

(* Whatever tasks add menus and entries, and whatever the user asks for    *)
(* meanwhile: the lists are doubly linked and of one kind, no name occurs  *)
(* twice, one menu and one entry of each menu are selected whenever nobody *)
(* is inside, and the handler acts on the menu that is still selected.     *)
THEOREM ListsStayIntact == Spec => []ListsIntact
<1>1. Init => ListInv  BY Beginning
<1>2. ListInv /\ [Next]_vars => ListInv'
  <2>1. ASSUME ListInv, Next PROVE ListInv'
    BY <2>1, AdderKeeps, HandlerKeeps DEF Next
  <2>2. ASSUME ListInv, UNCHANGED vars PROVE ListInv'  BY <2>2, Stuttering
  <2> QED BY <2>1, <2>2
<1>3. ListInv => ListsIntact
  BY Counted, SearchHolds DEF ListsIntact, ListInv, Lists
<1> QED BY <1>1, <1>2, <1>3, PTL DEF Spec

-----------------------------------------------------------------------------
(* The window.                                                             *)

(* What DialogsTracked says depends on: one task at most is closing the    *)
(* window, menu_task opens one only when there is none, and between        *)
(* destroying a dialog and forgetting it no dialog is live.                *)
OneStops == \A a, b \in Actors : Stopping(a) /\ Stopping(b) => a = b

Tracked ==
  /\ place["menu"] = "create" => gui_menu_task = NoDialog
  /\ \A a \in Actors : place[a] = "destroy" => gui_menu_task \in live
  /\ \A a \in Actors : place[a] = "forget" => gui_menu_task # NoDialog /\ live = {}
  /\ gui_menu_task \in live \cup {NoDialog} \/ \E a \in Actors : place[a] = "forget"
  /\ live \subseteq {gui_menu_task}

WindowTyped ==
  /\ gui_menu_task \in Dialogs \cup {NoDialog} /\ live \subseteq Dialogs
  /\ DOMAIN place = Actors /\ place = [a \in Actors |-> place[a]]
  /\ after \in [Actors -> {"idle", "loop", "redraw"}]

WindowInv == WindowTyped /\ (~overlapped => OneStops /\ Tracked)

-----------------------------------------------------------------------------
(* The initial states satisfy the invariant. *)
LEMMA WindowTracked == WindowInit => WindowInv
  BY WindowAssumption DEF WindowInit, WindowInv, WindowTyped, OneStops, Tracked, Stopping, Actors

(* The steps inside the window's functions, for any of the three tasks.    *)
LEMMA WindowKeeps == ASSUME NEW a \in Actors PROVE WindowInv /\ Window(a) => WindowInv'
<1> SUFFICES ASSUME WindowInv, Window(a) PROVE WindowInv'
  OBVIOUS
<1> USE DEF Actors
<1>1. CASE Stop(a)
  BY <1>1, WindowAssumption DEF WindowInv, WindowTyped, OneStops, Tracked, Stopping, Stop, Go, env, Actors
<1>2. CASE Destroy(a)
  BY <1>2, WindowAssumption DEF WindowInv, WindowTyped, OneStops, Tracked, Stopping, Destroy, Go, env
<1>3. CASE Forget(a)
  BY <1>3, WindowAssumption DEF WindowInv, WindowTyped, OneStops, Tracked, Stopping, Forget, Go, env
<1>4. CASE Clear(a)
  BY <1>4, WindowAssumption DEF WindowInv, WindowTyped, OneStops, Tracked, Stopping, Clear, Go, env
<1>5. CASE Redraw(a)
  BY <1>5, WindowAssumption DEF WindowInv, WindowTyped, OneStops, Tracked, Stopping, Redraw, Go, Done, env
<1>6. CASE Draw(a)
  BY <1>6, WindowAssumption DEF WindowInv, WindowTyped, OneStops, Tracked, Stopping, Draw, Go, Done, env
<1> QED
  BY <1>1, <1>2, <1>3, <1>4, <1>5, <1>6 DEF Window

(* A call of gui_stop_menu: a second one at a time counts as overlapped.   *)
LEMMA StopCalled ==
  ASSUME WindowInv, NEW a \in Actors, NEW l \in {"idle", "loop", "redraw"}, ~Stopping(a),
         place[a] # "create", CallStop(a, l), UNCHANGED <<gui_menu_task, live>>
  PROVE  WindowInv'
  BY DEF WindowInv, WindowTyped, OneStops, Tracked, Stopping, CallStop, Go, Actors

(* A task that goes from one place outside the window's functions to       *)
(* another, neither of them being "create".                                *)
LEMMA Elsewhere ==
  ASSUME WindowInv, NEW a \in Actors, NEW l, place[a] \notin {"stop", "destroy", "forget"},
         l \notin {"stop", "destroy", "forget", "create"},
         Go(a, l), UNCHANGED <<gui_menu_task, live, after, overlapped>>
  PROVE  WindowInv'
  BY DEF WindowInv, WindowTyped, OneStops, Tracked, Stopping, Go

(* menu_task *)
LEMMA TaskKeeps == WindowInv /\ menu_task => WindowInv'
<1> SUFFICES ASSUME WindowInv, menu_task PROVE WindowInv'
  OBVIOUS
<1> "menu" \in Actors
  BY DEF Actors
<1> USE DEF shared, env
<1>1. CASE Loop         BY <1>1, Elsewhere DEF Loop
<1>2. CASE TakeButton   BY <1>2, Elsewhere DEF TakeButton
<1>3. CASE Tick         BY <1>3, Elsewhere DEF Tick
<1>4. CASE CountTimeout
  <2>1. CASE menu_timeout' = 0
    BY <1>4, <2>1, StopCalled DEF CountTimeout, Stopping
  <2>2. CASE menu_timeout' # 0
    BY <1>4, <2>2, Elsewhere DEF CountTimeout
  <2> QED BY <2>1, <2>2
<1>5. CASE TestHidden   BY <1>5, Elsewhere DEF TestHidden
<1>6. CASE LoadHidden   BY <1>6, Elsewhere DEF LoadHidden
<1>7. CASE StoreHidden  BY <1>7, Elsewhere DEF StoreHidden
<1>8. CASE Dispatch     BY <1>8, Elsewhere DEF Dispatch
<1>9. CASE Toggle
  <2>1. CASE gui_menu_task # NoDialog
    BY <1>9, <2>1, StopCalled DEF Toggle, Stopping
  <2>2. CASE gui_menu_task = NoDialog
    BY <1>9, <2>2 DEF Toggle, WindowInv, WindowTyped, OneStops, Tracked, Stopping, Go, Actors
  <2> QED BY <2>1, <2>2
<1>10. CASE Create
  BY <1>10, WindowAssumption DEF Create, WindowInv, WindowTyped, OneStops, Tracked, Stopping, Go, Actors
<1> QED
  BY <1>1, <1>2, <1>3, <1>4, <1>5, <1>6, <1>7, <1>8, <1>9, <1>10, WindowKeeps DEF menu_task

(* The GUI task's handlers, focus_task, the button and the shutdown. *)
LEMMA WorldKeeps ==
  /\ WindowInv
  /\ \/ Button \/ RedrawEvent \/ CloseEvent("idle") \/ CloseEvent("redraw")
     \/ (\E t \in HideTimes : Hide(t)) \/ Shutdown \/ GoAway \/ UNCHANGED wvars
  => WindowInv'
<1> "gui" \in Actors /\ "focus" \in Actors
  BY DEF Actors
<1> USE DEF shared, locals, env
<1>1. WindowInv /\ UNCHANGED <<gui_menu_task, live, place, after, overlapped>> => WindowInv'
  BY DEF WindowInv, WindowTyped, OneStops, Tracked, Stopping
<1>2. WindowInv /\ (Button \/ Shutdown \/ GoAway \/ UNCHANGED wvars) => WindowInv'
  BY <1>1 DEF Button, Shutdown, GoAway, wvars
<1>3. WindowInv /\ RedrawEvent => WindowInv'
  BY Elsewhere DEF RedrawEvent
<1>4. ASSUME NEW l \in {"idle", "loop", "redraw"} PROVE WindowInv /\ CloseEvent(l) => WindowInv'
  BY StopCalled DEF CloseEvent, Stopping
<1>5. ASSUME NEW t \in HideTimes PROVE WindowInv /\ Hide(t) => WindowInv'
  BY Elsewhere DEF Hide
<1> QED BY <1>2, <1>3, <1>4, <1>5

(* gui_stop_menu, gui_hide_menu and menu_task share gui_menu_task without  *)
(* a lock: as long as gui_stop_menu runs in one task at a time, each       *)
(* dialog is destroyed once and none is forgotten while it lives.          *)
THEOREM DialogsNeverLost == WindowSpec => []DialogsTracked
<1>1. WindowInit => WindowInv
  BY WindowTracked
<1>2. WindowInv /\ [WindowNext]_wvars => WindowInv'
  BY TaskKeeps, WindowKeeps, WorldKeeps DEF WindowNext, Actors
<1>3. WindowInv => DialogsTracked
  BY DEF WindowInv, Tracked, DialogsTracked
<1> QED BY <1>1, <1>2, <1>3, PTL DEF WindowSpec
=============================================================================
