-------------------------------- MODULE Lens --------------------------------
(***************************************************************************)
(* The arithmetic of lens.c: the tables that turn Canon's raw exposure     *)
(* values into numbers, the depth of field in 32-bit words, and what       *)
(* update_lens_display shows of it.                                        *)
(***************************************************************************)
EXTENDS Integers, Sequences, FiniteSets

CONSTANT Undefined   (* what a division by zero or a wrapped product gives *)

-----------------------------------------------------------------------------
(* The tables: <<raw, value>> in the order of the initialisers, of which a *)
(* later one for the same slot would win.                                  *)

Apertures == <<
  <<13,12>>, <<16,14>>, <<19,16>>, <<21,18>>, <<24,20>>, <<27,22>>, <<29,25>>, <<32,28>>,
  <<35,32>>, <<37,35>>, <<40,40>>, <<43,45>>, <<45,50>>, <<48,56>>, <<51,63>>, <<53,71>>,
  <<56,80>>, <<59,90>>, <<61,100>>, <<64,110>>, <<67,130>>, <<69,140>>, <<72,160>>,
  <<75,180>>, <<77,200>>, <<80,220>>, <<83,250>>, <<85,290>>, <<88,320>>, <<91,360>>,
  <<93,400>>, <<96,450>> >>

Shutters == <<
  <<96,30>>, <<99,40>>, <<101,50>>, <<104,60>>, <<107,80>>, <<109,100>>, <<112,125>>,
  <<115,160>>, <<117,200>>, <<120,250>>, <<123,320>>, <<125,400>>, <<128,500>>,
  <<131,640>>, <<133,800>>, <<136,1000>>, <<139,1250>>, <<141,1600>>, <<144,2000>>,
  <<147,2500>>, <<149,3200>>, <<152,4000>> >>

Isos == <<
  <<72,100>>, <<75,125>>, <<77,160>>, <<80,200>>, <<83,250>>, <<85,320>>, <<88,400>>,
  <<91,500>>, <<93,640>>, <<96,800>>, <<99,1000>>, <<101,1250>>, <<104,1600>>,
  <<107,2000>>, <<109,2500>>, <<112,3200>>, <<115,4000>>, <<117,5000>>, <<120,6400>>,
  <<128,12500>> >>

Slot(raw) == raw \div 2

(* The handlers of PROP_APERTURE, PROP_SHUTTER and PROP_ISO: 0 in a gap of *)
(* the table and beyond it.                                                *)
Lookup(table, raw) ==
  LET same == { i \in 1..Len(table) : Slot(table[i][1]) = Slot(raw) }
  IN IF same = {} THEN 0 ELSE table[CHOOSE i \in same : \A j \in same : j <= i][2]

-----------------------------------------------------------------------------
(* calc_dof.  All in unsigned 32-bit words; focus_dist is in cm.           *)

(* a * b >= 2^32, decided without the product.                             *)
ExceedsWord(a, b) == b # 0 /\ a \div 2 > 2147483647 \div b

hyperfocal(fl, ap) == ((1000 * fl * fl) \div (ap * 29)) * 10

Near(H, fd) == ((H * (fd \div 10)) \div (H + fd)) * 10

(* Only fd > H is infinity: fd = H divides by zero.                        *)
Far(H, fd) == IF fd > H THEN 1000000
              ELSE IF fd = H THEN Undefined
              ELSE ((H * (fd \div 10)) \div (H - fd)) * 10

calc_dof(fl, ap, dist) ==
  LET fd == dist * 10
      H  == hyperfocal(fl, ap)
  IN IF fl = 0 \/ ap = 0 THEN [dof_near |-> 0, dof_far |-> 0, hyperfocal |-> 0]
     ELSE IF fd = 0      THEN [dof_near |-> 0, dof_far |-> 0, hyperfocal |-> H]
     ELSE IF ExceedsWord(H, dist)
       THEN [dof_near |-> Undefined, dof_far |-> Undefined, hyperfocal |-> H]
       ELSE [dof_near |-> Near(H, fd), dof_far |-> Far(H, fd), hyperfocal |-> H]

-----------------------------------------------------------------------------
(* lens_format_dist: digits and unit of a distance in mm, as the number    *)
(* they say and the mm one of its last digit stands for.                   *)
lens_format_dist(mm) ==
  CASE mm > 100000 -> [says |-> (mm \div 100) * 100, digit |-> 100]
    [] mm > 10000 /\ mm <= 100000 -> [says |-> (mm \div 10) * 10, digit |-> 10]
    [] mm > 1000 /\ mm <= 10000 -> [says |-> mm, digit |-> 1]
    [] OTHER -> [says |-> (mm \div 10) * 10, digit |-> 10]

(* update_lens_display: a value of zero is shown as the raw value, that of *)
(* the aperture for the shutter too.                                       *)
update_lens_display(info) ==
  << info.focal_len,
     IF info.focus_dist = 65535 THEN "Infnty" ELSE lens_format_dist(info.focus_dist * 10),
     IF info.aperture # 0 THEN <<info.aperture \div 10, info.aperture % 10>> ELSE info.raw_aperture,
     IF info.shutter # 0 THEN info.shutter ELSE info.raw_aperture,
     IF info.iso # 0 THEN info.iso ELSE info.raw_iso >>

-----------------------------------------------------------------------------
(* Every named value has a slot of its own and comes out of it; what the   *)
(* display says of a distance is less than a digit short of it.            *)
TableReads(table) == \A i \in 1..Len(table) : Lookup(table, table[i][1]) = table[i][2]
Says(mm) == LET d == lens_format_dist(mm) IN d.says <= mm /\ mm < d.says + d.digit

(* The subject in focus lies between the near and the far limit, and no    *)
(* limit but the true one to a cm is shown.                                *)
Brackets(fl, ap, dist) ==
  LET d == calc_dof(fl, ap, dist)  fd == 10 * dist
  IN fl # 0 /\ ap # 0 /\ fd # 0 /\ fd # d.hyperfocal =>
       /\ d.dof_near <= fd /\ fd <= d.dof_far
       /\ d.hyperfocal >= fd => fd <= 2 * d.dof_near + 20
=============================================================================
