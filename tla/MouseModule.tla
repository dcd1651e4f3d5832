---------------------------- MODULE MouseModule ----------------------------
(***************************************************************************)
(* mouse_init and mouse_exit of HW14-driver/mouse_driv.c: what the module  *)
(* registers and in which order, the labels that take it back when a       *)
(* registration fails, the teardown, and who may be inside the module's    *)
(* code meanwhile.  insmod, rmmod, open files and the timer are the        *)
(* kernel's.                                                               *)
(***************************************************************************)
EXTENDS Integers

CONSTANT Files      \* the open files that users of the device may hold

VARIABLES
    phase,      \* "out", "init", "unwind", "live", "exit"; "oops" ends it all
    step,       \* the next entry of Steps, Unwind or Exit
    held,       \* what is registered or allocated
    result,     \* of mouse_init: "unset" until an assignment, "error"
    file,       \* each file: "closed", "open", "inside" a call of the driver
    orphans,    \* the files that were open when their module was thrown out
    timer,      \* "none", "armed", "running"
    mode        \* the sysfs file display_mode: "idle", "inside" a call

vars == <<phase, step, held, result, file, orphans, timer, mode>>

\* The registrations of mouse_init, in the order of the code, ...
Steps  == <<"buffer", "chrdev", "class", "device", "cdev", "kobj", "sysfs", "timer">>
\* ... what the labels undo from fail_sysfs down, ...
Unwind == <<"kobj", "cdev", "device", "class", "chrdev", "buffer">>
\* A slip: one label too far up.
LabelAbove == [buffer |-> 7, chrdev |-> 6, class |-> 5, device |-> 4, cdev |-> 2,
               kobj |-> 2, sysfs |-> 1]
\* ... the place in Unwind of the label each failure jumps to: a failing
\* kmalloc returns at once, and mod_timer cannot fail, ...
Label  == [buffer |-> 7, chrdev |-> 6, class |-> 5, device |-> 4, cdev |-> 3,
           kobj |-> 2, sysfs |-> 1]
\* ... and mouse_exit.
Exit   == <<"timer", "sysfs", "kobj", "cdev", "device", "class", "chrdev", "buffer">>

Open(f) == file[f] # "closed"

Init ==
    /\ phase = "out" /\ step = 1 /\ held = {} /\ result = "unset"
    /\ file = [f \in Files |-> "closed"] /\ orphans = {}
    /\ timer = "none" /\ mode = "idle"

-----------------------------------------------------------------------------
(* Loading.                                                                *)

Insmod ==
    /\ phase = "out"
    /\ phase' = "init" /\ step' = 1 /\ result' = "unset"
    /\ UNCHANGED <<held, file, orphans, timer, mode>>

Acquire ==
    /\ phase = "init"
    /\ held' = held \cup {Steps[step]}
    /\ IF Steps[step] = "timer"
         THEN phase' = "live" /\ step' = 1 /\ timer' = "armed"
         ELSE step' = step + 1 /\ UNCHANGED <<phase, timer>>
    /\ UNCHANGED <<result, file, orphans, mode>>

\* The branch of register_chrdev jumps without assigning result.
Fail ==
    /\ phase = "init" /\ Steps[step] # "timer"
    /\ phase' = "unwind" /\ step' = Label[Steps[step]]
    /\ result' = IF Steps[step] = "chrdev" THEN result ELSE "error"
    /\ UNCHANGED <<held, file, orphans, timer, mode>>

\* del_timer_sync waits for a running callback, after which the timer is armed
\* again, and sysfs_remove_file for whoever is in mode_show or mode_store.
Release(x) ==
    /\ x = "timer" => timer # "running"
    /\ x = "sysfs" => mode = "idle"
    /\ IF x \in held
         THEN held' = held \ {x} /\ step' = step + 1 /\ UNCHANGED phase
         ELSE phase' = "oops" /\ UNCHANGED <<held, step>>
    /\ timer' = IF x = "timer" THEN "none" ELSE timer
    /\ UNCHANGED <<result, file, orphans, mode>>

Undo == phase = "unwind" /\ step \in DOMAIN Unwind /\ Release(Unwind[step])

\* A failed module is thrown out, users or not.  An unset result may have any
\* value, and one that is not negative makes the module a loaded one.
InitFails ==
    /\ phase = "unwind" /\ step \notin DOMAIN Unwind
    /\ \/ phase' = "out" /\ orphans' = {f \in Files : Open(f)}
       \/ result = "unset" /\ phase' = "live" /\ UNCHANGED orphans
    /\ step' = 1
    /\ UNCHANGED <<held, result, file, timer, mode>>

-----------------------------------------------------------------------------
(* Unloading.                                                              *)

\* A slip: a module that nobody pins.
RmmodAnyTime ==
    /\ phase = "live"
    /\ phase' = "exit" /\ step' = 1
    /\ UNCHANGED <<held, result, file, orphans, timer, mode>>

\* fops.owner lets each open file pin the module.
Rmmod ==
    /\ phase = "live" /\ \A f \in Files \ orphans : ~Open(f)
    /\ phase' = "exit" /\ step' = 1
    /\ UNCHANGED <<held, result, file, orphans, timer, mode>>

\* A slip: the class goes before its device.
ClassFirst ==
    /\ phase = "exit" /\ step \in DOMAIN Exit
    /\ Release(CASE step = 5 -> "class" [] step = 6 -> "device" [] OTHER -> Exit[step])

TearDown == phase = "exit" /\ step \in DOMAIN Exit /\ Release(Exit[step])

Unloaded ==
    /\ phase = "exit" /\ step \notin DOMAIN Exit
    /\ phase' = "out" /\ step' = 1
    /\ UNCHANGED <<held, result, file, orphans, timer, mode>>

-----------------------------------------------------------------------------
(* The users and the timer.  A module on its way out opens no files, one   *)
(* that is still in mouse_init does.                                       *)

OpenFile(f) ==
    /\ ~Open(f) /\ "chrdev" \in held /\ phase \in {"init", "unwind", "live"}
    /\ file' = [file EXCEPT ![f] = "open"]
    /\ UNCHANGED <<phase, step, held, result, orphans, timer, mode>>

EnterCall(f) ==
    /\ file[f] = "open"
    /\ file' = [file EXCEPT ![f] = "inside"]
    /\ UNCHANGED <<phase, step, held, result, orphans, timer, mode>>

LeaveCall(f) ==
    /\ file[f] = "inside"
    /\ file' = [file EXCEPT ![f] = "open"]
    /\ UNCHANGED <<phase, step, held, result, orphans, timer, mode>>

CloseFile(f) ==
    /\ file[f] = "open"
    /\ file' = [file EXCEPT ![f] = "closed"] /\ orphans' = orphans \ {f}
    /\ UNCHANGED <<phase, step, held, result, timer, mode>>

UseMode ==
    /\ mode' = IF mode = "idle" THEN "inside" ELSE "idle"
    /\ mode = "idle" => "sysfs" \in held
    /\ UNCHANGED <<phase, step, held, result, file, orphans, timer>>

\* simulate_mouse_data, whose last call arms the timer again.
Callback ==
    /\ timer # "none"
    /\ timer' = IF timer = "armed" THEN "running" ELSE "armed"
    /\ UNCHANGED <<phase, step, held, result, file, orphans, mode>>

Users == \E f \in Files : OpenFile(f) \/ EnterCall(f) \/ LeaveCall(f) \/ CloseFile(f)

Next ==
    /\ phase # "oops"
    /\ \/ Insmod \/ Acquire \/ Fail \/ Undo \/ InitFails
       \/ Rmmod \/ TearDown \/ Unloaded
       \/ Users \/ UseMode \/ Callback

Spec == Init /\ [][Next]_vars

-----------------------------------------------------------------------------
(* Properties.                                                             *)

Things == {"buffer", "chrdev", "class", "device", "cdev", "kobj", "sysfs", "timer"}

TypeOK ==
    /\ phase \in {"out", "init", "unwind", "live", "exit", "oops"}
    /\ step \in 1 .. 9
    /\ held \subseteq Things
    /\ result \in {"unset", "error"}
    /\ file \in [Files -> {"closed", "open", "inside"}]
    /\ orphans \subseteq {f \in Files : Open(f)}
    /\ timer \in {"none", "armed", "running"}
    /\ mode \in {"idle", "inside"}

\* The place of each registration in mouse_init.
Position == [buffer |-> 1, chrdev |-> 2, class |-> 3, device |-> 4, cdev |-> 5,
             kobj |-> 6, sysfs |-> 7, timer |-> 8]

\* The buffer is there for whoever is inside the driver: for the timer always,
\* for a call of a file unless the file was opened while mouse_init was on its
\* way to a failure, and what serves display_mode is not removed under its user.
BufferOutlivesItsUsers ==
    /\ timer # "none" => "buffer" \in held
    /\ mode = "inside" => "sysfs" \in held
    /\ \A f \in Files :
          file[f] = "inside" => "buffer" \in held \/ f \in orphans \/ phase = "unwind"

\* mouse_exit and the labels of mouse_init never release what is not held,
\* except after the unset result of a failing register_chrdev was taken for a
\* success; and a module that is out has left nothing behind.
ReleasesWhatItHolds ==
    /\ phase = "oops" => result = "unset"
    /\ phase = "out" => held = {} /\ timer = "none" /\ mode = "idle"

\* Whatever is released, by the labels or by mouse_exit, is the newest of what
\* is held: nothing loses what it was built on.
UndoneInReverse ==
    [][\A x \in held \ held', y \in held' : Position[y] < Position[x]]_vars
=============================================================================
