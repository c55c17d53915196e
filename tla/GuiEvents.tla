----------------------------- MODULE GuiEvents -----------------------------
(***************************************************************************)
(* my_gui_main_task of gui.c, which runs in the place of Canon's GUI task: *)
(* it takes the events that Canon's tasks post, gives the menu its button, *)
(* and drops what was posted before Canon cancelled all events.            *)
(***************************************************************************)
EXTENDS Integers, Sequences

CONSTANTS
  Kinds,       (* <<type, param>> of the events that are posted            *)
  Objs,        (* what owns the events: gui_main_struct.obj                *)
  MaxQueue,    (* how many events wait                                     *)
  Width,       (* bits of gui_main_struct.counter                          *)
  None         (* no event, no cancellation                                *)

CANCEL_ALL_EVENT == <<3, 17>>    (* 0x11 *)
ButtonEvent      == <<0, 19>>    (* 0x13, the picture style button *)

Halves        == {"set", "post"}
Events        == [kind : Kinds \cup {CANCEL_ALL_EVENT}, obj : Objs \cup {None},
                  stale : BOOLEAN, touched : BOOLEAN]
Cancellations == [obj : Objs, done : Halves]

GuiAssumption ==
  /\ CANCEL_ALL_EVENT \notin Kinds
  /\ MaxQueue \in Nat /\ Width \in Nat /\ 2^Width \in Nat /\ 2^Width > MaxQueue + 2
  /\ None \notin Events \cup Cancellations

VARIABLES
  queue,       (* gui_main_struct.msg_queue                                *)
  mainObj,     (* gui_main_struct.obj                                      *)
  counter,     (* gui_main_struct.counter                                  *)
  cancel,      (* the cancellation that Canon is half through              *)
  gui_sem,     (* the menu button was pressed, and menu_task has not seen  *)
  shutdown_requested,
  pc, event, obj, count,     (* my_gui_main_task and its locals            *)
  late,        (* stale events delivered since the last cancellation       *)
  again,       (* it used an object that was still in use                  *)
  lost,        (* an event that was not cancelled has been dropped         *)
  raced        (* counter has been changed between --'s load and its store *)

canon == <<queue, mainObj, counter, cancel>>
task  == <<pc, event, obj, count>>
ghost == <<late, again, lost, raced>>
vars  == <<canon, gui_sem, shutdown_requested, task, ghost>>

(* An event, and two ghosts: it was posted before a cancellation began,    *)
(* and one was under way at some time since it was posted.                 *)
Event(kind) == [kind |-> kind, obj |-> None, stale |-> FALSE, touched |-> cancel # None]
NULL == <<-1, 0>>            (* msg_queue_receive returns no event *)

Init ==
  /\ queue = <<>> /\ mainObj = 0 /\ counter = 0 /\ cancel = None
  /\ gui_sem = 0 /\ shutdown_requested = FALSE
  /\ pc = "loop" /\ event = None /\ obj = 0 /\ count = 0
  /\ late = 0 /\ again = FALSE /\ lost = FALSE /\ raced = FALSE

-----------------------------------------------------------------------------
(* Canon's tasks *)

Enqueue(e) ==
  /\ queue' = Append(queue, e)
  /\ counter' = (counter + 1) % 2^Width
  /\ raced' = (raced \/ pc = "store")

Post(kind) ==
  /\ Len(queue) < MaxQueue
  /\ Enqueue(Event(kind))
  /\ UNCHANGED <<mainObj, cancel, gui_sem, shutdown_requested, task, late, again, lost>>

(* A cancellation gives the events a new owner and posts the cancel event, *)
(* in either order.                                                        *)
Cancelled(e, begins) == [e EXCEPT !.touched = TRUE, !.stale = @ \/ begins]
InUse     == {obj, mainObj} \cup {e.obj : e \in {queue[k] : k \in DOMAIN queue}}
             \cup (IF event = None THEN {} ELSE {event.obj})

CancelHalf(o, half) ==
  LET begins == cancel = None
      q      == [k \in DOMAIN queue |-> Cancelled(queue[k], begins)]
  IN /\ IF begins THEN TRUE ELSE cancel.obj = o /\ cancel.done # half
     /\ cancel' = IF begins THEN [obj |-> o, done |-> half] ELSE None
     /\ event' = IF event = None THEN None ELSE Cancelled(event, begins)
     /\ again' = IF begins THEN o \in InUse ELSE again
     /\ late' = 0
     /\ IF half = "set"
        THEN /\ mainObj' = o /\ queue' = q
             /\ UNCHANGED <<counter, raced>>
        ELSE /\ Len(queue) <= MaxQueue
             /\ queue' = Append(q, [kind |-> CANCEL_ALL_EVENT, obj |-> o, stale |-> FALSE, touched |-> TRUE])
             /\ counter' = (counter + 1) % 2^Width
             /\ raced' = (raced \/ pc = "store")
             /\ UNCHANGED mainObj
  /\ UNCHANGED <<gui_sem, shutdown_requested, pc, obj, count, lost>>

ShutdownRequest ==
  /\ ~shutdown_requested
  /\ shutdown_requested' = TRUE
  /\ UNCHANGED <<canon, gui_sem, task, ghost>>

(* menu_task takes the semaphore. *)
MenuTask ==
  /\ gui_sem = 1
  /\ gui_sem' = 0
  /\ UNCHANGED <<canon, shutdown_requested, task, ghost>>

-----------------------------------------------------------------------------
(* my_gui_main_task *)

Type(kind)  == kind[1]
Param(kind) == kind[2]

(* The parameters of the events that are delivered though cancelled.       *)
Exempt(type) ==
  CASE type = 0 -> 37..42 \cup {31, 43, 35} \cup 44..50 \cup {59}
    [] type = 1 -> {0, 7, 5}
    [] type = 2 -> {23, 24, 20, 27, 48, 49}
    [] type = 3 -> {0, 3, 1, 18, 19, 20}

MayDrop(kind) == Type(kind) \in 0..3 /\ kind # CANCEL_ALL_EVENT /\ Param(kind) \notin Exempt(Type(kind))

Loop ==
  /\ pc = "loop"
  /\ pc' = IF shutdown_requested THEN "ended" ELSE "receive"
  /\ UNCHANGED <<canon, gui_sem, shutdown_requested, event, obj, count, ghost>>

msg_queue_receive ==
  /\ pc = "receive" /\ queue # <<>>
  /\ event' = Head(queue) /\ queue' = Tail(queue)
  /\ pc' = IF Head(queue).kind = NULL THEN "load" ELSE "switch"
  /\ UNCHANGED <<mainObj, counter, cancel, gui_sem, shutdown_requested, obj, count, ghost>>

(* Faulty: a cancel event is ignored unless its object is the current one. *)
CancelAllEventTested ==
  /\ pc = "switch" /\ event.kind = CANCEL_ALL_EVENT
  /\ obj' = IF mainObj = event.obj THEN event.obj ELSE obj
  /\ pc' = "load"
  /\ UNCHANGED <<canon, gui_sem, shutdown_requested, event, count, ghost>>

CancelAllEvent ==
  /\ pc = "switch" /\ event.kind = CANCEL_ALL_EVENT
  /\ obj' = event.obj
  /\ pc' = "load"
  /\ UNCHANGED <<canon, gui_sem, shutdown_requested, event, count, ghost>>

QueueClear ==
  /\ pc = "switch" /\ MayDrop(event.kind) /\ mainObj # obj
  /\ lost' = (lost \/ ~event.touched)
  /\ pc' = "load"
  /\ UNCHANGED <<canon, gui_sem, shutdown_requested, event, obj, count, late, again, raced>>

(* Faulty: events pass though they may be dropped. *)
PassesAny ==
  /\ pc = "switch" /\ event.kind # CANCEL_ALL_EVENT
  /\ pc' = "deliver"
  /\ UNCHANGED <<canon, gui_sem, shutdown_requested, event, obj, count, ghost>>

Passes ==
  /\ pc = "switch" /\ event.kind # CANCEL_ALL_EVENT
  /\ ~MayDrop(event.kind) \/ mainObj = obj
  /\ pc' = "deliver"
  /\ UNCHANGED <<canon, gui_sem, shutdown_requested, event, obj, count, ghost>>

(* The menu's button stays with us, the rest goes to Canon's dispatcher of *)
(* its type; an unknown type goes nowhere.                                 *)
Deliver ==
  /\ pc = "deliver"
  /\ gui_sem' = IF event.kind = ButtonEvent THEN 1 ELSE gui_sem
  /\ late' = IF MayDrop(event.kind) /\ event.stale /\ cancel = None /\ late < 2 THEN late + 1 ELSE late
  /\ pc' = "load"
  /\ UNCHANGED <<canon, shutdown_requested, event, obj, count, again, lost, raced>>

(* gui_main_struct.counter--, for whatever came of the event.              *)
CounterLoad ==
  /\ pc = "load"
  /\ count' = counter /\ pc' = "store"
  /\ UNCHANGED <<canon, gui_sem, shutdown_requested, event, obj, ghost>>

CounterStore ==
  /\ pc = "store"
  /\ counter' = (count - 1) % 2^Width
  /\ pc' = "loop" /\ event' = None /\ count' = 0
  /\ UNCHANGED <<queue, mainObj, cancel, gui_sem, shutdown_requested, obj, ghost>>

my_gui_main_task ==
  \/ Loop \/ msg_queue_receive \/ CancelAllEvent \/ QueueClear \/ Passes \/ Deliver
  \/ CounterLoad \/ CounterStore

-----------------------------------------------------------------------------
Canon ==
  \/ \E kind \in Kinds : Post(kind)
  \/ \E o \in Objs, half \in Halves : CancelHalf(o, half)

Next == Canon \/ ShutdownRequest \/ MenuTask \/ my_gui_main_task

(* Every task runs; a cancellation that Canon has begun, it completes.     *)
Completes == cancel # None /\ \E half \in Halves : CancelHalf(cancel.obj, half)
Spec == Init /\ [][Next]_vars /\ WF_vars(my_gui_main_task) /\ WF_vars(Completes)

-----------------------------------------------------------------------------
(* Properties *)

Held == IF event = None THEN <<>> ELSE <<event>>

TypeOK ==
  /\ Len(queue) <= MaxQueue + 1
  /\ {mainObj, obj} \subseteq Objs \cup {0}
  /\ gui_sem \in 0..1 /\ counter \in 0..2^Width - 1
  /\ event # None <=> pc \in {"switch", "deliver", "load", "store"}

(* However Canon divides and orders a cancellation, of the events that     *)
(* came before it at most one is delivered after it: the one that had been *)
(* compared and not yet passed on.  Provided the new owner is not one that *)
(* was in use: then old events look like new ones.                         *)
OneStale == ~again => late <= 1

(* No event is dropped that was posted after the last cancellation.        *)
NothingLost == ~lost

(* The counter is the number of events that wait or are being handled, the *)
(* dropped ones and the empty ones counted, until Canon changes it between *)
(* the load and the store of its decrement.                                *)
CounterAgrees == ~raced => counter = Len(queue) + Len(Held)

(* Of a cancellation's events one may slip through, none goes missing, and *)
(* Canon's count of them is right.                                         *)
EventsKept == OneStale /\ NothingLost /\ CounterAgrees

(* The task is not left deaf: when cancellations cease, it soon compares   *)
(* with the right owner for good, unless it ends.                          *)
Hears == []<>(cancel # None) \/ <>[](obj = mainObj) \/ <>(pc = "ended")
=============================================================================
