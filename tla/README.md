# Magic Lantern in TLA+

A verification development for Magic Lantern, the firmware add-on of this repository
(Canon 5D Mark II, firmware 2.0.8), with the Lua 5.1.4 interpreter that it vendors. Magic Lantern has no program of
its own: it puts tasks, handlers and callbacks into Canon's DryOS, and almost everything that can go wrong in it
goes wrong between them. The modules here model those parts step by step, TLC checks them on small instances, and
TLAPS proves the central invariants of thirteen of them for every value of the constants.

All line numbers refer to the files of the repository; `PROJECT.json` maps every definition to its lines.

## 1. The system

### 1.1 Who runs

DryOS is preemptive. Nothing in the code disables interrupts or raises priorities, so two tasks interleave at
every access to memory they share. The actors are:

| actor | what of ours runs in it |
|---|---|
| Canon's property task | every `PROP_HANDLER`, one at a time; among them `prop_startup_handler`, which starts everything else |
| Canon's GUI task, replaced by `my_gui_main_task` | the event loop, `menu_handler`, every `select` and `display` callback of a menu entry |
| Canon's sound task, replaced by `my_sounddev_task` | `audio_configure`, once a second and when a recording starts or stops |
| Canon's PTP task | the commands 0x9995 to 0x9999 |
| tasks of `TASK_CREATE` | menu_task, dof_task (`lens_task`), focus_stack_task, focus_task, bracket_task, zebra_task, spotmeter, meter_task, audio_level_task, dump_task, movie_start; with build options timecode and liveview |

They share plain global variables, and a dozen semaphores of DryOS. `take_semaphore( sem, ms )` returns 0 when
it has the semaphore and something else when `ms` milliseconds have passed; 0 means no limit. Whether
`create_named_semaphore` makes a binary or a counting semaphore cannot be seen from this code, so it is a
constant, `SemMax`, where it makes a difference.

### 1.2 The components

| component | state | operations | what is hard | what makes it correct | module |
|---|---|---|---|---|---|
| menu lists (menu.c 75-380) | `menus`, doubly linked lists, `selected` flags, `menu_sem` | `menu_find_by_name`, `menu_add`, `menu_move`, `menu_entry_move`, `menu_entry_select` | tasks add menus while the GUI task walks them; the handler searches without the lock; `malloc` fails | one task inside at a time; well-formed lists; unique names; one selection; looks like one ordered list | `Menu`, `MenuList`, `MenuRefinement` |
| menu window (menu.c 420-696) | `gui_menu_task`, `menu_hidden`, `menu_timeout`, `gui_sem` | `menu_task`, `gui_stop_menu`, `gui_hide_menu`, `menu_handler` | no lock at all; timers decremented by load and store | a dialog is destroyed once and never lost; the button works; a hidden window returns; the task ends | `MenuWindow` |
| GUI event loop (gui.c) | Canon's event queue, owner, counter | `my_gui_main_task` | Canon cancels events in two steps, concurrently | what is cancelled is dropped, nothing else is, the task does not stay deaf | `GuiEvents` |
| boot and shutdown (init.c, property.c, tasks.h) | which tasks, handlers, semaphores and menus exist | dispatch hook, `prop_startup_handler`, init functions, task creation | initialisation order comes from the order of linking; Canon's tasks run already | nothing runs before what it uses exists; the configuration is read first; the tasks end | `Boot` |
| configuration file (config.c) | the card, the list, the variables | `config_parse_file`, `config_save_file`, `config_value`, `config_int` | battery pulled or card full in the middle of a save; read errors; malformed lines; strings that point to freed memory | a saved value comes back whole or not at all | `Config` |
| focus (focus.c, lens.c 290-330, 568) | `focus_done_sem`, `focus_stack_sem`, `focus_task_sem`, deltas | `lens_focus`, `lens_focus_wait`, `focus_stack`, `rack_focus`, `focus_task`, PTP 0x9998 | one semaphore is permission, completion and barrier; commands are dropped after 100 ms | one command at a time; a stack returns; a rack arrives | `Focus` |
| pictures (lens.c 330-360, 576, bracket.c) | `job_sem`, `job_state`, exposure | `lens_take_picture`, `bracket_task`, its menu | timeouts against late reports, refused releases | one release at a time, unless a timeout overtakes another; brackets are symmetric around what `lens_get_ae` returns, and end | `Shooting` |
| movie log (lens.c 367-490, 592) | the file handle, `last_*`, `lens_info` | `mvr_create_logfile`, `mvr_update_logfile` in two tasks | no lock; file closed during an update; creation fails | no handle lost, log up to date | `MovieLog` |
| audio levels (audio.c 120-330) | `audio_levels[]` | `compute_audio_levels`, `draw_meters` | read field by field during updates; integer decay | order and range of levels; they fall silent | `AudioLevels` |
| audio chip (audio.c 340-560, 785-875) | the chip's registers, what was noted of them, the settings | `audio_configure` and its callers | three tasks and Canon's firmware change the same registers | the chip comes to hold what was noted of it, and without a race that is what was set | `AudioConfig` |
| overlays (zebra.c) | `lv_drawn`, the switches, the screen, the crop marks' memory | `zebra_task`, `draw_zebra`, `bmp_load` | aborts in the middle when the menu opens; any step of the loading fails | they give way to the menu, and the screen recovers | `Overlays` |
| screen arithmetic (bmp.c, zebra.c, spotmeter.c) | none | `bmp_fill`, `bmp_puts`, `edge_detect`, `hist_build`, spot meter | clipping, fields of bits | drawn inside the screen, true to the picture | `Pixels` |
| lens numbers (lens.c 131-260, lens.h) | none | `calc_dof`, exposure tables, `update_lens_display` | 32-bit overflow, division by zero | limits on the right side of the subject | `Lens` |
| timecode (timecode.c; off by default) | bit clock, frame | `tc_sample`, `tc_task` | noisy clock recovery, a timer that wraps | the time shown was sent, and comes again after a disturbance | `Timecode` |
| small entries (bootflags.c, debug.c, script.c, ptp.c) | boot sector, flags, buffers, recording | boot flags, power save, timed start, `run_script` | reads that fail, switches between the steps | nothing on the card is lost, memory is freed | `Services` |
| library (stdio.c) | none | `strtol`, `strtoul`, `streq`, `realloc` | prefixes, saturation | what C says of them | `Stdlib` |
| relocation (reloc.c, liveview.c) | none | `reloc`, `reloc_dlgliveviewapp` | relative addresses | the copy does what the original does | `Reloc` |
| firmware tools (decrypt-block.c, dissect_fw.c, pack-fir.c) | files | decrypt, dissect, pack | pieces of any size, missing files | no byte is lost | `Firmware` |
| Lua: collector (lgc.c, lfunc.c, lstate.c, lstring.c) | colours, lists, white, upvalues | one step; barriers; finalizers; close | marks while the program stores | nothing in use is freed, what is not is | `LuaGC` |
| Lua: tables (ltable.c) | array part, hash part | set, get, next, rehash | collisions, dead keys | a table is the map it was told to be | `LuaTable` |
| Lua: calls (ldo.c, lapi.c, lbaselib.c) | frames, `nCcalls`, status | call, pcall, error, resume, yield | longjmp across both stacks | the two stacks agree | `LuaCall` |
| Lua: compiler (lparser.c, lcode.c) and loop (lvm.c, ldebug.c) | code, registers, jump lists | one-pass compilation, execution | jumps on hold, registers saved late | code means what the source says | `LuaParse`, `LuaCode`, `LuaVM`, `LuaMeaning` |
| Lua: strings (lstrlib.c) | captures | matcher, find, gsub, gmatch, sub | backtracking | the first match in the order of preference | `LuaPattern` |
| Lua: dumps (ldump.c, lundump.c, lzio.c) | bytes, pieces | dump and undump | truncation, refusals, pieces of any size | a function comes back whole or not at all | `LuaDump` |
| hotplug, loader stubs, build scripts, the rest of Lua | little or none | straight-line code | none between tasks | see section 5 | none |

The interfaces: `menu_sem` is taken by everybody who adds entries (`Menu`); `my_gui_main_task` gives `gui_sem` (`GuiEvents`)
that `menu_task` takes (`MenuWindow`); `gui_stop_menu` is called by `select` callbacks in the GUI task before they
wake a task (`Focus`, `Shooting`); `focus_stack` takes pictures between focus steps, so `focus_stack_task` is an actor of
both `Focus` and `Shooting`; `shutdown_requested` is set once, by `prop_startup_handler`, and read by
every loop.

## 2. Modules

Each component's module has its state as VARIABLES named as in the source, one action per access to shared memory where the
order of accesses matters, and otherwise one per operation. `pc` says where each task is. Where the code has no state that outlives a
call, the module is a set of operators, and the check compares them with a reference definition over enumerated inputs. Definitions
marked "Faulty" are variants of the definition below them as a plausible bug would have it; they are not used by
the specification and serve to see that the properties notice.

* **Menu**. `menu_find_by_name`: `FindTake`, the walk, `malloc` (which may fail), linking, and the late setting of the
  `selected` field; `menu_add`: walk to the tail and link; the handler: search without lock (`search`),
  `ActTake` (100 ms, may time out), the moves with their wrap-around walk. **MenuList** is what the callers are promised: an
  ordered list with a cursor, every operation indivisible. **MenuRefinement** gives the mapping: a node
  counts as listed when it is linked, and a move takes effect when the new node's flag is set.
* **MenuWindow**. `menu_task` from one semaphore wait to the next, with `--menu_hidden` as a load and a
  store; `gui_stop_menu` as test, destroy and forget, in whichever task calls it; redraw and drawing apart.
  `focus_task` calls `gui_hide_menu` for every rack (focus.c:278). In the present build there is nothing to rack:
  `focus_task_delta`, which `focus_toggle` copies, only grows while a direction is held, and the two calls of `lens_focus_start`
  (menu.c:497 and 505) are compiled out. `HideTimes` is not empty in the run of the invariant and empty in the run of the finding, which needs no rack. `menu_damage` only saves drawing and is left out.
  `place` says where each task is; the specification is `WindowSpec`, so that MenuProofs can extend this module beside `Menu`.
* **GuiEvents**. The loop access by access: test, receive, comparison with `gui_main_struct.obj`, delivery, load and store
  of the counter. Canon's side is external: it posts, and it cancels by setting the owner and posting event 0x11,
  in either order, with anything in between.
* **Boot**. A program is a sequence of steps, and a step says which semaphores it creates or uses, whether it adds menus,
  registers handlers, reads the configuration, or loops until the shutdown. `focus_stack_task` and `focus_task` also have inner loops that do not
  look at `shutdown_requested` (lens.c:304, focus.c:296): `inside` has the tasks that are in one, and `answers` says whether the lens completes commands, so that they come out. The startup
  handler is the concatenation of `menu_init`, `debug_init`, the configuration and the init functions in the
  order of `ML_OBJS` in the Makefile.
* **Config**. Characters matter here and are modelled: the file is a sequence of characters, `read_line`,
  `config_parse_line`, `atoi` and `%d` are what they compute; a save is a truncation and one action per
  line, and power may go at any point, also within a line. A read may fail (config.c:121). `loose` has the string variables whose memory has been freed or that have lost
  their end (config.c:84): when one is printed, it may read as anything of `Freed`, newlines, spaces and other variables' lines among it. The byte of the heap that the NUL of config.c:84
  overwrites is not followed.
* **Focus**. `lens_focus` (take within 100 ms or drop), `lens_focus_wait`, the handler of PROP_LV_FOCUS_DONE,
  `focus_stack`, `rack_focus`, `focus_task`, the toggle and reset, `lens_focus_start` and `stop`,
  the PTP command. `focus_task` reads `focus_rack_delta` twice, for its test and, after it has hidden the menu, as `rack_focus`'s argument (`TaskAwake`, `RackStart`). Ghosts: what each task has sent and whether a command was lost.
* **Shooting**. `lens_take_picture` with both waits in both callers, the job states, `bracket_task`, the menu's
  changes of count and step. Any wait may time out at any time, those of both shooters together. The camera may refuse a release, keep up to `Pending` of them before it begins a job, and never end a job. `place` and `bracket_i` are `pc` and the
  local `i`, so that MCCamera can extend this module beside `Focus`. Ghost: `overtaken`, a shooter went on without `job_sem` while the other was about to release or the camera had yet to begin.
* **MovieLog**. Both tasks' passes through `mvr_update_logfile`: test of the handle, comparison of the
  settings, noting, formatting, `fprintf` with the handle it was called with; two settings stand for the two kinds (those
  whose handler only stores them, those whose handler also wakes `lens_task`).
* **AudioLevels**. `compute_audio_levels` field by field, `draw_meters` between. `audio_level_to_db` is `db`.
* **AudioConfig**. `audio_configure` as a list of register accesses. The three-bit gain (audio.c:350) is here one bit in each of SIG1 and SIG2; the load of `alc_enable`,
  the store of `gain.alc1` (audio.c:531) and its use for the register are three accesses;
  registers that are only written (volumes, filters, power, monitor) are left out.

* **Overlays**. `bmp_load` step by step, each of which may fail; `zebra_task`'s loop with one action for each look at
  `gui_menu_task` and `lv_drawn` and one for each pair written; histogram and waveform without another look, as in the code. Beside it the
  menu opens, draws, switches overlays and clears, and the two property handlers write `lv_drawn`. `screen` has what each pair of pixels shows; `stray` counts what `zebra_task` wrote since the menu was opened: pairs, boxes, and clearings of the whole screen (zebra.c:716). What
  a pair shows where nothing is drawn is "clear"; the boxes of others are not touched.
* **Pixels**. `bmp_fill`'s clipping in words that wrap, `bmp_puts` with its glyph lookup and its newline, as high as the font's space (bmp.c:195), `edge_detect` with fields of 16 bits, `hist_build`, the spot meter;
  each next to what it should be.
* **Lens**. The exposure tables, `calc_dof` in 32-bit words (computed by parts, since TLC's integers are no longer), the formats.
* **Timecode**. `tc_sample` for each transition of a biphase mark signal, the timer modulo 2^24, sync search, frame, display. The recorder is external: it
  sends times with jitter, may pause, may lose bits and invert the line.
* **Services**. The entries of bootflags.c step by step, `powersave_toggle`, `run_script`, `movie_start`, and the button; the camera
  may be switched off at any time.
* **Stdlib**, **Reloc**, **Firmware**. Functions: numbers in any base with saturation; `reloc` as a fold over the words of a function with branches, loads and additions relative
  to the program counter, where a load must be able to reach its own literal within the 12 bits that `reloc` masks with (shorter here), and the function may be longer; decryption, dissection and packing of firmware files over bytes that say where they come from.
* **LuaGC**. `singlestep` of lgc.c in its states, one object at a time, against the instructions of a program: assignments to tables, environments and
  upvalues with their barriers, closures that share upvalues, blocks that close them, coroutines, strings found again while dead, weak tables, finalizers
  that store what they finalize, `lua_gc` "collect", `lua_close`. An object is its kind, its colour and two fields. `L` is the running thread.
  Pacing is left out: the collector may take its step at any time. `lua_close` closes upvalues, separates all userdata and calls their finalizers, which are programs like any other, with steps of the collector between
  their instructions. A userdata that is whitened while a black object holds it makes `closing` "unsafe" (finding 4); once a reference dangles, what is done with it is not followed. Strings are swept in one step: they refer to
  nothing, so no order of the buckets shows. Every userdata has a `__gc` (lgc.c:136-139 and 459 pass over the others), and the guard of `luaS_resize` (lstring.c:26) goes with the buckets.
* **LuaTable**. Nodes with key, value and next; `luaH_set`, `luaH_get`, `newkey`, `rehash`, `luaH_next`, `luaH_getn`; the collector clears and marks keys dead. `fields` is the map the
  program believes in, `must` and `seen` what a traversal has to visit and has visited.
* **LuaCall**. `native` is the machine's stack of C activations, `th` the threads with their CallInfo chains: `luaD_call`, `luaD_precall`, `luaD_poscall`,
  `luaD_pcall`, `luaD_throw`, `lua_resume`, `lua_yield`, `luaG_errormsg`, growing and shrinking of the CallInfo array, the parser's levels.
  Of values only whether a coroutine's stack is empty is kept, which `lua_checkstack` may leave full (`TooManyResults`, lbaselib.c:531). What Lua `load`'s reader may call in the middle of the parser (lbaselib.c:297-312), and the
  resumption of a C function that has yielded without a Lua function below it, are left out.
* **LuaCode**, **LuaParse**. lcode.c and the expression and statement parts of lparser.c as functions on the FuncState, jump lists inside the code included.
  **LuaVM** has `luaG_checkcode` and the interpreter loop. **LuaMeaning** is the reference: what a tree means, and the tokens it is written as; what functions and arithmetic
  compute is arbitrary, but a function of the arguments and of all calls before, so that order shows. The end of **LuaVM** is the grammar of inputs.
* **LuaPattern**. The matcher of lstrlib.c with its captures; the reference goes through all ways a pattern's items may match and takes the
  first in the order of preference.
* **LuaDump**. `luaU_dump` block by block into a writer that may refuse, `luaZ_read` and `luaU_undump` from a reader that hands out pieces.

Four modules put parts that share no state into one run each: **MCCamera** (Focus, Shooting), **MCSystem** (Boot, GuiEvents, Services), **MCLiveView** (AudioLevels, AudioConfig, Overlays, Pixels, Lens)
and **MCRecords** (MovieLog, Config, Timecode and, through **MCFunctions**, the functions and LuaTable). The variable `running` says which
of them a behaviour is about; the others stay in one of their initial states, so nothing is lost and nothing multiplied. Assumptions of an instanced module are
asserted by the module that instances it (`SystemAssumption`, `LiveViewAssumption`, `RecordsAssumption`). Fairness is stated again there, of the same actions and as weak or strong as theirs, as
fairness of the action with its guard on `running`.

Functions are checked by exploring inputs: a state holds one (`probe`), and the property is evaluated in the step from it to the next. That is why `FunctionsAgree`, `CompilesRight` and
`BooleansRight` are written as properties of steps, although they speak of one state.

## 3. What is checked

One cfg per run. Definitions for constants are at the end of a module or, for the composed runs, in MCCamera, MCSystem, MCLiveView, MCRecords and MCFunctions. "Deadlock off" is said where the system may really come to rest: after a shutdown, or when the user and the
camera do nothing more.

| run | bounds | what it shows |
|---|---|---|
| menu | three menus, three entries, two adding tasks, any events | `MutualExclusion`; `ListsIntact`: well-formed lists, unique names, one selection, and the menu found without the lock still is the selected one under it; refinement of `MenuList` (`ImplementsMenuList`); `CallsComplete`: every add and event is finished |
| menu_window | two dialogs, timers of 2 ticks, binary semaphore | `DialogsTracked` until two closings overlap; `TaskServes`: a press of the button is served, a hidden window returns, a shutdown ends the task |
| menu_window_timeout | the same, no hiding | a violation: finding 1 |
| camera | Focus: three setups: stacks; racks; a lens with stray reports and a count of 0; binary semaphores. Shooting: both shooters, counts to 5, steps to 3, an exposure of 3 set by the user, two releases pending, refusals; counting semaphores | `OneCommand`, `MovesAsAsked` (a stack returns, a rack arrives), `StackEnds`; `OneRelease`, `BracketSymmetric`, `BracketEnds` |
| system | one task of each kind of program, one startup; an event queue of 1 with a cancel event, two owners, a 2-bit counter; Services: five choices | `BootOrdered` (semaphores, menus, configuration before their use), `ShutdownEnds`; `EventsKept`, `Hears`; `EntriesSettle` |
| live_view | two channels, samples 0 and 8; a user in Live View or in the menu; five pairs of pixels, four events; the inputs of Pixels and Lens | `LevelsOrdered`, `NoInventedPeak`, `FallsSilent`; `NotedIsWanted`, `SoundSettles`; `OverlaysYield`, `ScreenRecovers`; `PictureIsRight` |
| records | MovieLog: two values, two handles; Config: two variables, files of three lines of 16 kinds, 5-bit integers, four texts in freed memory; Timecode: two times, one disturbance; the inputs of MCFunctions; tables of keys 1 to 4 and two objects, two pairs of which collide | `NoHandleLost`, `LogKept`; `FileServes`; `TimeIsRight`; `FunctionsAgree`; `CompilesRight`; `HoldsFields`, `VisitsOnce` |
| movie_log_changes | two values, two handles | a violation: finding 2 |
| lua_gc | three objects, in six families of kinds | `NoDangling`, `TriColour`, `FinalizedOnce`, `Collected` |
| lua_call | two coroutines, 5 frames, 3 C calls and 1 more for errors, 8 activations of C | `DepthCounted`, `StacksAgree`, `StatusHonest` |
| lua_boolean | chains of three "and" and "or" | a violation: finding 3 |
| lua_close | as lua_gc | a violation: finding 4 |

Most modules also have a type invariant, `TypeOK`, which states the types for the reader and for the proofs; the properties above are
evaluated over those types.

### Why the bounds are enough

* Menus: three nodes are the fewest that tell forward from backward in a circle; two tasks ask for the same new name, which is what the
  lock is for. More adders only repeat the same critical section, and mutual exclusion is proved for any number.
* Timers: `menu_timeout_time` and the hiding time are 2, so that a timer can be caught before, at and after 1;
  −1 stands for every value past zero, from which a counter does not come back for 2^32 ticks.
* GuiEvents: with two owners an owner can be used again while an older cancellation is still queued. One event that may be dropped, one that may not
  and the empty event stand for the types: the four lists of parameters in `Exempt` differ in content, not in use.
* Boot: `SomeTasks` leaves out tasks whose program has the same steps as one that is in.
* Config: lines are of every kind the parser distinguishes (empty, comment, blank, with and without spaces, with a carriage return,
  no equals sign, no name, name too long, value as long as its buffer and longer, line too long) in every combination of three, with and without a last newline.
  31 is the integer that is printed with a minus sign in 5 bits.
  `Freed` has an empty text, one with a carriage return, one that ends the line and begins another variable's, and one of empty lines.
* Focus: counts on both sides of the limit of 15; −2340 is the largest step whose return still fits into the 16 bits of the command;
  rack speeds that divide the distance and that do not; `MaxDelta` bounds how long a direction is held. `FOCUS_MAX` is 0, since the position
  counter is only shown and sent to the host; nothing depends on it, nor on which step the host asks for.
* Shooting: the menu's real limits are 13 and 8; smaller ones have every direction of the changes, steps only scale exposures, and the symmetry is proved for any. Two
  releases pending are what two shooters can cause between two reports.
* AudioLevels: rounding matters most for small levels; the order of levels is proved for all.
* Overlays: five pairs have one in each box and overlap of crop marks with edges and of edges with zebras; four events open the menu, switch, close it and change Live View.
  That few pairs are stray is proved for any number.
* Timecode: `Jitter` 47 is the largest that the decoder's windows (`EPS` 48) accept; the pauses lie on both sides of the timer's wrap; the skips lose a bit and most of a frame; one disturbance
  at every place. Times with the flag in bit 43 set, which `tc_task` does not mask, are excluded.
* Lens: focal lengths up to 50 mm keep the exact arithmetic within TLC's integers while short words of the code's still overflow.
* MCFunctions: numbers of 8 bits with one to three digits around the limits; functions of four words of every combination, with a mask that reaches less far than they are long; files of up to three bytes; patterns of
  up to three pieces of every kind (four after an open parenthesis) and of any four characters; dumps that end at every byte and are refused at every block.
* LuaGC: three objects beside the main thread hold a black object, a white one and a path between them; each family has the kinds that a barrier or list tells apart. For safety the theorems of `LuaGCProofs` have no bound.
* LuaTable: six keys over a hash part that grows to 8 give chains of two collisions, dead keys in them, and rehashes both ways.
* LuaCall: two coroutines resume each other; 3 C calls are enough to overflow during an error of an overflow, and `MaxNative` keeps a program from starting an activation above the eighth, which leaves room for two nested resumes in a protected call and for both overflows inside an error handler; errors, yields and returns are not limited by it. `Coroutines` are symmetric; no liveness is checked in that run.
* LuaVM's grammar: expressions of up to three operators, every statement that can hold one, and the statements in pairs where registers carry over.

### Fairness

Weak fairness of each task's next step says that DryOS schedules every task. Strong fairness is assumed for waits on a semaphore that others take
again and again: `menu_sem` (its holders never wait inside, and DryOS queues waiters), `lens_focus_wait`, and the timed waits of the bracketing task, whose clock
runs although the stacking task may take `job_sem` in between. In `Focus` the lens completes its commands;
`Shooting` assumes only that an accepted job begins. Canon completes a cancellation it has begun. The user, the card, Canon's
startup and shutdown are never obliged to anything. `Shooting` assumes nothing
about time: a wait may end at once. `Boot` has two assumptions on Canon. `answers`: the lens completes each command, and a direction is not held for ever, which is what the inner loops of
`focus_stack_task` and `focus_task` wait for; `ShutdownEnds` promises their end (and that of a task that waits for them) only then. `prompt`: Canon starts its tasks before it asks for the
startup, which is over within the two seconds of `my_sounddev_task`; both values are explored, and properties that need it say so.
`LuaGC` assumes that the collector goes on (`[]<><<Moves>>`): a program that allocates makes it, and its steps are always enabled, so this is weak fairness of
`Step` written without ENABLED, which is costly to evaluate there.

### Findings

1. **An idle menu does not time out** (run menu_window_timeout). The comment says "Count down the menu timeout" and the option debug.menu-timeout is there for it;
   but `menu_task` itself sends the synthetic event 1 to `menu_handler` each half second, and every event resets `menu_timeout`.
2. **The movie log can miss a change** (run movie_log_changes). "Record the last settings so that we know if anything
   changes": the settings are read once to be noted and again to be printed. A setting that changes in between and changes back leaves a
   line that is not what was noted, and no further line.
3. **Some boolean expressions get the wrong value** (run lua_boolean). `((x or x) and false) and x` is compiled to code that gives `x` where it is `false`:
   `luaK_goiftrue` compiles a constant false with `luaK_jump`, which takes the jumps on hold, those of the inner `or`, into the list of false results; `luaK_goiffalse` does the same
   with a constant true. `CompilesRight` is checked for all other expressions of the grammar (`Mishandled` says which ones those are).
4. **A finalizer of `lua_close` can leave a dangling reference** (run lua_close). lobject.h:111-113 asserts that no value that is read is dead. `lua_close` calls finalizers whatever the collector is doing; while it marks, `GCTM` makes a userdata white that
   a black object may hold (lgc.c:457), and a collection in the next finalizer frees it. `NoDangling` and the two other properties hold until then.

Where the code and a comment of its own disagree, and the properties follow the code:

* bracket.c:102 says "Get the current value for a starting point", but `lens_get_ae` is the constant 0 ("This is currently broken", lens.h:208): exposures are symmetric around 0 and a bracket ends by
  setting 0, whatever the user had set. `BracketSymmetric` is about what `lens_get_ae` returned; the run begins at 3.
* zebra.c:393-398 lists "The stacking order of the overlays" with zebras before edge detection; `draw_zebra` (470-477) asks for an edge first and goes on when there is one, so edges hide zebras. `ScreenRecovers` does not say which of the two is above.
* ltable.c:11-13 says of an array's size that it is the largest n "such that at least half the slots between 0 and n are in use"; `computesizes` asks for more than half (198), and a table of which just half would be in use gets a smaller array. `HoldsFields` checks the latter.
* lbaselib.c:502 takes a coroutine without frames and with something on its stack for one in its "initial state". When `lua_checkstack` fails in `auxresume` (531) the results of a coroutine that has ended stay there: it is "suspended" again,
  and a resume calls the topmost result. `StatusHonest` says so.

Seen while modelling, and stated as exceptions of properties or here rather than claimed as findings:

* a focus command that is dropped after 100 ms is not reported: the stack or rack counts it as done (`lost` in `Focus`);
* focus.count = 0 takes no picture and still moves the lens, since `count - 1` is unsigned (focus.c:105);
* a toggle of the rack direction during a rack is overwritten at its end (focus.c:284);
* two shooters whose waits for `job_sem` time out together both release, and so does one whose picture the camera has not begun after a second (lens.c:335-350; `overtaken` in `Shooting`);
* a task in an inner loop of `lens_focus_wait` or `focus_task` does not see a shutdown (lens.c:304, focus.c:296);
* a rack whose delta is reset between focus.c:276 and 281 is a rack of 0;
* `menu_handler` may draw once after its window was closed (menu.c:539);
* a toggle of `alc_enable` between its load and the store of `gain.alc1` (audio.c:531) leaves the AGC as it was, and the poll does not notice, since it compares the chip with what was noted;
* after an `audio_configure` that was interrupted by another the chip may keep a gain that was not asked for; `enable_meters` overwrites the loopback setting;
* a recording may start before `my_sounddev_task` has created `gain.sem`, which then still is `(void*) 1` (audio.c:796);
* the movie log of each recording overwrites the last one; `lens_task` may print a line twice;
* `config_parse_file` never returns NULL, so the start screen always says YES; `atoi` has no sign, so values from 2^31 come back as 0;
  a line of one space deletes the whole list, and string variables then point to freed memory, and a save writes what is there, other variables' lines included;
* with a Canon that is not prompt, the audio menu is lost and the chip is configured before the file is read;
* an owner that Canon uses again while it is still in use lets cancelled events pass; a lost `counter--` stays wrong for good;
* a shutdown request that comes before the startup is not taken back: the tasks then end as soon as they are created;
* the histogram and waveform are drawn after the last pair without a look at `gui_menu_task`, so up to two boxes may cover an open menu; what an aborted picture drew stays when all overlays are switched off;
  `zebra_task` clears the whole screen when it starts (zebra.c:716), a menu that is open included;
* `calc_dof`'s H overflows for long lenses although lens.c:166 says it is scaled back, and `fd = H` divides by zero; an unknown shutter shows the raw aperture (lens.c:258);
* `edge_detect`'s absolute values are off by one bit for differences of more than 16 bits, and a gradient of 256 disappears; `bmp_fill` right of the screen has a width that wraps; a font without a space makes `bmp_puts` follow a NULL;
* `bootflag_write_bootblock` writes the block back whether or not it was read; a timed start stops a recording that the user has started, since `MovieStart` toggles;
* `realloc` never frees the old buffer; `strtod` and `strtol` do not write their end pointers, which Lua's `luaO_str2d` reads;
* `DlgLiveViewApp`, which `reloc` is used for, is 0x14DC bytes long (liveview.c:19-22), more than 12 bits: a load in its last part of a word outside the function would be masked to the wrong literal;
* `reloc` writes one word past the copy, has room for four literals and does not count them, reports a jump out of reach only on the host, and adapts data that looks like an instruction;
* `pack-fir` writes a pack without the main firmware if that is missing; decrypt-block.c and dissect_fw.c mask the base differently (0x1FF and 0xFF);
* Lua: a userdata that a finalizer of `lua_close` makes is freed without its own finalizer; a "C stack overflow" raised in `lua_resume` before a coroutine has started leaves it "dead" although it never ran; `restore_stack_limit` keeps an enlarged CallInfo array when the frames in use reach the limit at that moment; a dump that is played back
  block by block ends at the first empty vector, since `DumpVector` writes an empty block and `luaZ_fill` takes an empty piece for the end; `gmatch` does not know the anchor `^`.

## 4. What is proved

| module | theorem | for |
|---|---|---|
| MenuProofs | `MenuSemProtects == Spec => []MutualExclusion` | any tasks, calls and memory |
| MenuProofs | `ListsStayIntact == Spec => []ListsIntact` | any finite set of menus, any entries, tasks, calls, events and memory |
| MenuProofs | `DialogsNeverLost`: `WindowSpec => []DialogsTracked` of `MenuWindow` | any dialogs, timeouts and kind of semaphore |
| ShootingProofs | `NeverReleasesTwice == ShootSpec => []OneRelease` | both kinds of semaphore, any settings, refused releases, any number of pending releases, timeouts at any time |
| ShootingProofs | `BracketsAreSymmetric == ShootSpec => []BracketSymmetric` | brackets of any length and step, any exposure before |
| FocusProofs | `NeverTwoCommands == Spec => []OneCommand` | both kinds of semaphore, any options and steps |
| FocusProofs | `MovesAreAsAsked == Fits => (Spec => []MovesAsAsked)` | any setups whose steps fit into a focus command |
| MovieLogProofs | `HandlesAreClosed == Spec => []NoHandleLost` | any handles, settings and kind of semaphore |
| MovieLogProofs | `LogIsKept == Spec => []LogKept` | the same |
| SystemProofs | `BootIsOrdered == SysSpec => []BootOrdered` | any selection of the tasks |
| SystemProofs | `EventsAreKept == SysSpec => []EventsKept` | any events, owners, length of the queue and width of the counter |
| SystemProofs | `EntriesSettleDown == SysSpec => []EntriesSettle` | any number of choices and restarts, any time of the start |
| LiveViewProofs | `LevelsAlwaysOrdered == Spec => []LevelsOrdered`, `PeaksAreSamples == Spec => NoInventedPeak` | any samples, channels and calibration |
| LiveViewProofs | `OverlaysGiveWay == OvSpec => []OverlaysYield` | any number of pixels, boxes and switches |
| LiveViewProofs | `NotesAreWanted == LiveSpec => []NotedIsWanted` | any registers that Canon resets, any callers |
| LuaCallProofs | `DepthIsCounted == Spec => []DepthCounted` | any coroutines, limits and sizes of the CallInfo array |
| LuaCallProofs | `StacksAlwaysAgree == Spec => []StacksAgree` | the same |
| LuaCallProofs | `StatusIsHonest == Spec => []StatusHonest` | the same |
| LuaGCProofs | `NothingDangles == GCSpec => []NoDangling` | any number of objects, any kinds at their addresses, any program |
| LuaGCProofs | `ColoursRight == GCSpec => []TriColour` | the same |
| LuaGCProofs | `FinalizersRunOnce == GCSpec => FinalizedOnce` | the same |

* **MutualExclusion** with the types of `pc` and `menu_sem` is inductive. Every action is one of four: it takes the
  semaphore and enters (`Entering`), gives it and leaves (`Leaving`), moves within or outside (`Moving`), or does not touch either
  (`Staying`); one lemma for each, and each action's case names its lemma. Assumption: `MenuAssumption`.
* **ListsIntact** follows links that are as long as the list, and needs no induction over them: a linked menu is one that is in every set which holds the head and the `next` of each
  of its members (`Reach`), and the entries have owners, a function from entries to menus that links respect (`Entry`). The rest of `ListInv` is where a task may be while it is inside
  (`Places`), which entries nothing points to yet (`Fresh`), at most one selected menu save between the two stores of a move and the late store of a new menu's flag (`OneMenu`),
  and for the handler that the menu it found without the lock still is the selected one (`Handled`). Assumption: `MenuAssumption`, which says that the
  set of menus is finite and that each call of `menu_add` passes an array of its own, as all callers in the source do.
* **DialogsTracked** depends on who is closing: the invariant says that one task at most is inside `gui_stop_menu` while no overlap has been noted, that `menu_task` opens a window only when there is none, and
  that between destroying and forgetting the dialog is gone and still referred to. Assumption: `WindowAssumption`.
* **OneRelease** is not inductive: that a release after a timeout is harmless follows from where the token of `job_sem` is. The invariant says that there is at most one token, in
  the semaphore, with a shooter, or with the camera as a release or a job; a refused release loses it, and a shooter that times out
  makes a new one only when it is lost, or else has overtaken (`overtaken`). That exception is the code's: finding nobody at work is all that lens.c:335-350 looks at, and after it two releases may come. Assumption: `ShootingAssumption`.
* **BracketSymmetric** (around what `lens_get_ae` returned) is about a set of exposures collected over a whole bracket. The invariant says what the set is after each picture, as a function of the number of rounds done;
  the rest is arithmetic over intervals.
* **OneCommand** needs that no call of `lens_focus` returns into the middle of `lens_focus_wait`; with that the token is in
  `focus_done_sem`, with `lens_focus_wait` or with the lens. It is conditional on a lens that reports only its own completions, as the run's
  property is. Assumption: `FocusAssumption`.
* **MovesAsAsked** relates what a task has sent to where it is: in a stack the sum of the steps so far (`InStack`), in a rack what is left of the distance (`InRack`), each for a
  command that is on its way and for one that has gone. The distance is the one `rack_focus` was called with, which may be 0 although the test before saw another. It is proved under `Fits`: the step of a stack is at most 2340 and a speed is below 2^15. A larger step overflows
  the 16 bits of the command on the way back (14 times as far), so the hypothesis is the code's own limit and every setup of the run satisfies it.
* **NoHandleLost** speaks only of the times when no handler runs. The invariant has the time between the close and the reset of the handle, and that a start finds the handle
  forgotten, which follows from the order in which Canon announces recordings. No assumption on constants is needed.
* **LogKept** needs what each task carries in its buffer (`Buffers`), that the handler of a start keeps its handle until header and line are written (`Forced`), how many lines can still go
  to a closed file from each place of each task (`FewMore`), and which wake-up, or which place in a pass, still stands between the log and the settings (`UpToDate`).
* **BootOrdered** rests on what the steps of the startup create, one fact for each index of the concatenated program (`StartupSteps`), and of each task (`ProgramSteps`). `BInv` says what has been
  prepared when the startup is at a step (`Prepared`), that a task past its first step has its own semaphore (`Owned`), and that tasks of ours begin after the startup (`After`).
  Assumption: `BootAssumption`, the selection is one of tasks the source has.
* **EventsKept**: `Counted` says that Canon's counter is the length of the queue and what the task holds; `Owners` and `Untouched` say that the owner the task compares with becomes Canon's
  once the queue's last cancellation has been taken, and `Stale` and `Few` that only an event that was compared before its cancellation began can slip through. Assumption: `GuiAssumption`: the counter's width
  holds the queue, the cancel event is not one of the others, and `None` is no event.
* **EntriesSettle** is nearly inductive: what is allocated belongs to the entry at hand or to a script that stays (`Allocated`), the copy on its way to the card is as good as the card (`Sector`).
* **LevelsOrdered** is strengthened by what holds at each point of `compute_audio_levels` (`LevelInv`). The two facts about integer
  division, `AverageBounds` and `DecayBounds`, are the heart of it. Assumption: `LevelAssumption`.
* **OverlaysYield** has two halves. `Written` says what may have been drawn since the menu was opened, for each place of `zebra_task`: nothing before a pair it had tested for already, no box before the last pair.
  A clearing of the whole screen comes at most once and before anything is drawn over the menu.
  `Memory` says what `bmp_load` holds at each step. No assumption on constants is needed.
* **NotedIsWanted**: while no call was interrupted at most one `audio_configure` is under way, and `Progress` says of each of its register accesses which values have been noted already.
* **DepthCounted**, **StacksAgree** and **StatusHonest** follow from one invariant of `LuaCall`, in three layers. `Core` speaks of a pair of stacks and holds in the middle of an
  operation too, wherever `luaD_throw` may be called: the C stack is a pile of segments, each one coroutine's and begun by its `lua_resume` (`Segments`), with frames in the order in which
  the code can stack them (`Ordered`); every `pcall` and `resume` frame has saved the depth, the error function and the length of the chain as they are at its own place (`Counted`, `Handlers`, `Chained`).
  That is what none of the three properties says, and why none is inductive: they speak of the stacks as they are, an error goes back to what a frame remembers. `Good` adds what
  holds between operations, and for each operation (`CallGood`, `ThrowGood`, `YieldGood`, `ResumeGood`, ...) a lemma takes a good pair to a good one and says what it keeps of the other threads. `Fated` relates the
  history of each coroutine to its status, chain and stack, so that the answers of `costatus` can be told apart. A chain is `FlattenSeq` of what the activations own; the few facts
  about its recursion are proved from the table it is computed by (`Flattens`) and from the least number for which a claim would fail (`LeastNumber`). Assumption:
  `LuaCallAssumption`. TLC checked the invariant on the run's constants first. The attempt showed that two cases of `Back` were not exclusive: a frame of
  `lua_resume` also met the condition of the case for frames that a return leaves alone, and CASE may choose either; the condition now names both kinds.

* **NoDangling**, **TriColour** and **FinalizedOnce** of the collector can only be proved together: a barrier asks for the colour of what a black object refers to, so that has to be there; it is there
  because the last sweep freed nothing in use; and this rests on the marking having left no gray object. The invariant, `CollectorInvariant`, is `Base` and `Phase`. `Base` holds all
  the time: objects are formed and coloured as their kinds allow (`Good`), what is not dead refers to nothing dead (`Safe`), the roots, the running thread and what waits for its finalizer are not dead (`Rooted`), and each userdata's
  count of calls is that of its place on the way to its end (`Finalized`). `Phase` depends on `gcstate`: while objects are marked none is dead, a black one refers to nothing white and the three lists hold the gray ones (`Tri`);
  otherwise what is not to be swept any more has the current white, an open upvalue together with its thread (`Swept`). From these: `PropagateMark` and `PropagateAll` say that each round of `propagateall` takes an object that no later
  round takes again, so that its table is long enough, whatever the order; `ProgramMarkedDone` that after it nothing marked refers to anything unmarked save through weak fields and what waits for a finalizer;
  `Atomic` that `cleartable` and the change of the white then make dead what nothing in use refers to; one lemma for each of the sweep's cases, each barrier and each instruction of the program says what it keeps. `LiveInUse` and
  `SeparatedUnreached` compare with what `Reach` finds: a set that holds the roots and is closed under references holds all that is reached (`ReachWithin`). TLC checked the invariant on the run's constants first.
  Assumption: `LuaGCAssumption`: a finite number of objects, which differ from the main thread and from null.

All three are stated for as long as `closing` is not "unsafe": `callallgcTM` may whiten what a black object holds (finding 4), and no invariant of the collector survives that. Up to there the finalizers of `lua_close`
are arbitrary programs. `FinalizedOnce` excepts a userdata that such a finalizer made, which `luaC_freeall` frees as it is.

The first attempt at `FinalizedOnce` failed for a reason that needs five objects to show and that the run's three do not: a userdata that waits for its finalizer stays black from the cycle before, so a `luaC_fullgc` inside another finalizer does not go
on from it, and separates what only it refers to although the program will come to it through that finalizer. `marktmu` keeps the object, and nothing is freed too early. The property says so now: what is separated was
not reached other than through an object that waits for its finalizer.

The runs that have theorems about several parts state them over the composed specification (`SysSpec`, `LiveSpec`), where the steps of the other parts leave the variables alone, or over the
part's own (`Spec`, `OvSpec`), which every behaviour of the composed one satisfies by that same fact.

Only model-checked, and why: all liveness (the prover has no ENABLED, hence no fairness); what is computed by recursion or by folds over data and follows from nothing but its recursion
(`FileServes`, `FunctionsAgree`, `CompilesRight`, `HoldsFields`, `VisitsOnce`, `PictureIsRight`); the refinement of `MenuList`, whose mapping filters a path of links;
`TimeIsRight`, which is arithmetic on the bits of two frames.

## 5. What is not modelled, and why

Fonts, palettes and the wording of menus; the registers of the audio chip that are only written; memory and
return values of Canon's functions beyond what our code looks at. The loader stubs and dumpers copy an image and jump, and are gone when the system runs. The PyMite port only passes calls
to a virtual machine that is not in the repository. A second startup request is
not modelled: it would run `menu_init` and every task again, and whether Canon ever sends it cannot be seen here. The user's own
shutter button, whose job ends nobody waits for, is outside `Shooting`. Races of two `gui_stop_menu` are modelled up to the first
overlap; what Canon's firmware does with a dialog that is destroyed twice is unknown.

Of Lua: the characters of the lexer, `string.format`, the wrappers of C's mathematics, files and clock, the debug library, the package loader and the hosts (lua.c, luac.c). In the compiler, nested functions, varargs and
generic `for`; in a table constructor, where a keyed item is evaluated against the list items that are still to be stored (the order is fixed by the flushes of SETLIST), so chunks do not depend on it.

## 6. Plan

What a next step would take up, in this order:

1. Nested functions in `LuaParse`, with upvalues and `OP_CLOSE`, and generic `for`.
2. The user's shutter button in `Shooting`; the menu button from `GuiEvents` through `MenuWindow` as one composition.
3. Proofs: that each step of `Menu` maps to a step or a stutter of `MenuList`, for which `Reach` of `MenuProofs` would have to be related to the path that the mapping filters; `TimeIsRight`, from the
   distance of two frames.
