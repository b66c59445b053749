------------------------------- MODULE Files -------------------------------
(***************************************************************************)
(* The file descriptors of the board support package (HAL/src/alt_open.c,  *)
(* alt_close.c, alt_get_fd.c, alt_release_fd.c, alt_ioctl.c, alt_fd_lock.c,*)
(* alt_fcntl.c, alt_io_redirect.c): one array of descriptors, the highest  *)
(* index ever allocated (alt_max_fd) that bounds the searches, and the     *)
(* ALT_FD_EXCL flag of a descriptor that claimed its device.               *)
(*                                                                         *)
(* The calls run to completion one after another: the package is built     *)
(* without an operating system and its semaphores are empty macros.        *)
(***************************************************************************)
EXTENDS Integers, FiniteSets

CONSTANTS MaxFd,     \* ALT_MAX_FD (32 in the product)
          Devices,   \* the registered devices
          NullDev,   \* /dev/null
          Console,   \* the device the standard channels are redirected to
          NoDev      \* a null pointer

ASSUME FilesAssumption ==
    /\ MaxFd \in Nat /\ MaxFd > 3
    /\ NullDev \in Devices /\ Console \in Devices /\ NullDev # Console
    /\ NoDev \notin Devices

VARIABLES fds,       \* alt_fd_list
          max,       \* alt_max_fd
          channels,  \* how many standard channels alt_io_redirect has left
          held       \* the descriptors open() gave the program

fileVars == <<fds, max, channels, held>>

Descriptors == 0..(MaxFd - 1)
Standard    == 0..2
Excl     == "ALT_FD_EXCL"
Dev      == "ALT_FD_DEV"
NonBlock == "O_NONBLOCK"

Free == [dev |-> NoDev, flags |-> {}]

FilesInit ==
    /\ fds = [i \in Descriptors |->
                 IF i \in Standard THEN [dev |-> NullDev, flags |-> {}] ELSE Free]
    /\ max = -1
    /\ channels = 3
    /\ held = {}
-----------------------------------------------------------------------------
\* alt_get_fd(): the first free descriptor.
IsFirstFree(i) == /\ fds[i].dev = NoDev
                  /\ \A j \in Descriptors : fds[j].dev = NoDev => i <= j
HighWater(i) == IF i > max THEN i ELSE max

\* The loop of alt_fd_lock() copied.
LockedShort(d, bound) == \E i \in Descriptors :
    i < bound /\ fds[i].dev = d /\ Excl \in fds[i].flags

\* alt_file_locked(): a descriptor up to alt_max_fd claimed the device.
Locked(d, bound) == \E i \in Descriptors :
    i <= bound /\ fds[i].dev = d /\ Excl \in fds[i].flags

\* open() of a registered device: the flags an argument cannot set are
\* masked out; a descriptor allocated for a device that turns out to be
\* locked is released, alt_max_fd keeps its value; with no free descriptor
\* nothing changes (nor does it for a name that is not registered).
Opens(d, i)  == IsFirstFree(i) /\ ~Locked(d, HighWater(i))
Refuses(d, i) == IsFirstFree(i) /\ Locked(d, HighWater(i))

Open(d, mode) ==
    \/ \E i \in Descriptors :
          /\ Opens(d, i)
          /\ fds' = [fds EXCEPT ![i] = [dev |-> d, flags |-> mode \union {Dev}]]
          /\ max' = HighWater(i)
          /\ held' = held \union {i}
    \/ \E i \in Descriptors :
          /\ Refuses(d, i)
          /\ max' = HighWater(i)
          /\ UNCHANGED <<fds, held>>
    \/ /\ \A i \in Descriptors : fds[i].dev # NoDev
       /\ UNCHANGED <<fds, max, held>>

\* alt_release_fd(): the standard channels stay allocated.
Released(i) == IF i \in Standard THEN fds ELSE [fds EXCEPT ![i] = Free]

Close(i) == /\ fds' = Released(i)
            /\ held' = held \ {i}
            /\ UNCHANGED max

\* ioctl(TIOCEXCL) -> alt_fd_lock(): the search ends before alt_max_fd.
Shared(i) == \E j \in Descriptors : j < max /\ j # i /\ fds[j].dev = fds[i].dev
Lock(i) ==
    /\ Dev \in fds[i].flags
    /\ fds' = IF Shared(i) THEN fds
              ELSE [fds EXCEPT ![i].flags = @ \union {Excl}]
    /\ UNCHANGED <<max, held>>

\* ioctl(TIOCNXCL) -> alt_fd_unlock().
Unlock(i) ==
    /\ Dev \in fds[i].flags
    /\ fds' = [fds EXCEPT ![i].flags = @ \ {Excl}]
    /\ UNCHANGED <<max, held>>

\* fcntl(F_SETFL): only the flags a caller may change.
SetFlags(i, flags) ==
    /\ fds' = [fds EXCEPT ![i].flags = (@ \ {NonBlock}) \union flags]
    /\ UNCHANGED <<max, held>>

\* alt_open_fd(): a standard channel takes over what open() returned, and
\* that descriptor is released. Nothing is locked before main(), so open()
\* succeeds.
Redirect(i) ==
    /\ \E old \in Descriptors :
          /\ Opens(Console, old)
          /\ fds' = [fds EXCEPT ![i] = [dev |-> Console, flags |-> {Dev}]]
          /\ max' = HighWater(old)
    /\ UNCHANGED held

\* alt_io_redirect(): standard output, input, error, before main().
Channel == CASE channels = 3 -> 1 [] channels = 2 -> 0 [] channels = 1 -> 2
StartUp == /\ channels > 0 /\ Redirect(Channel)
           /\ channels' = channels - 1

\* main() and the library: a descriptor that was not opened is not used.
Main ==
    /\ channels = 0
    /\ \/ \E d \in Devices, mode \in SUBSET {NonBlock} : Open(d, mode)
       \/ \E i \in held \union Standard :
             \/ Close(i) \/ Lock(i) \/ Unlock(i)
             \/ \E flags \in SUBSET {NonBlock} : SetFlags(i, flags)
    /\ UNCHANGED channels

FilesNext == StartUp \/ Main

FilesSpec == FilesInit /\ [][FilesNext]_fileVars
-----------------------------------------------------------------------------
Holders == [d \in Devices |-> {i \in Descriptors : fds[i].dev = d}]
Owners  == [d \in Devices |-> {i \in Descriptors : fds[i].dev = d /\ Excl \in fds[i].flags}]

Locks == INSTANCE DeviceLocks WITH holders <- Holders, owners <- Owners

(***************************************************************************)
(* Exclusive access as alt_fd_lock.c:43-50 promises it: the claim is       *)
(* granted if no other descriptor is open on the device. It is not so: the *)
(* search ends before alt_max_fd (alt_fd_lock.c:61), and a descriptor of   *)
(* the device with the highest number ever allocated is not seen.          *)
(***************************************************************************)
LocksExclusive == Locks!Spec

(***************************************************************************)
(* What is left of it: a claim is granted beside at most one other         *)
(* descriptor of the device, of a higher number; from then on no open() of *)
(* the device succeeds, no second descriptor claims it (that other one     *)
(* least of all), and neither fcntl() nor closing another descriptor ends  *)
(* the claim. The searches that see to it are bounded by alt_max_fd, which *)
(* is never lowered (alt_open.c:79-87, alt_fd_lock.c:61-68).               *)
(***************************************************************************)
LocksObeyed == Locks!WeakSpec
=============================================================================
