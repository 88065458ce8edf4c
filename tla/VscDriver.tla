----------------------------- MODULE VscDriver ------------------------------
(***************************************************************************)
(* The character device of a booted stick (deps/drv_vsc/myd_vsc.c), built  *)
(* without BLOCK_DRV: processes open it, write, read, flush and close it,  *)
(* while the USB core completes requests, disconnects, suspends or resets  *)
(* the device.                                                             *)
(*                                                                         *)
(* A write waits for a permit of limit_sem, takes an URB of the free list  *)
(* (or allocates one, in the zero-copy write), submits it and returns; the *)
(* completion gives both back.  A read, alone under io_read_mutex, starts  *)
(* the one URB for input, sleeps until it completes and takes the data.    *)
(* An error of any completion is kept in `errors' for the next call.       *)
(* Processes hold one file each.  The structure of a device that is        *)
(* plugged in again is another one: Probe starts when this one is freed.   *)
(***************************************************************************)
EXTENDS Naturals, FiniteSets

CONSTANTS
    Processes,        \* each with a file of its own
    Core,             \* the thread of the USB core that calls the driver back
    Makes,            \* the kinds of calls each makes, see WriteKinds and ReadKinds
    WRITES_IN_FLIGHT,
    None

WriteKinds == {"one", "two", "nonblock", "zero"}   \* one URB, two, O_NONBLOCK, zero-copy
ReadKinds  == {"read", "nonblockRead"}              \* the zero-copy read is a "read"

ASSUME VscDriverAssumption ==
    /\ IsFiniteSet(Processes)
    /\ Core \notin Processes /\ None \notin Processes \cup {Core}
    /\ Makes \in [Processes -> SUBSET (WriteKinds \cup ReadKinds)]
    /\ WRITES_IN_FLIGHT \in Nat \ {0}

Threads == Processes \cup {Core}
Mutexes == {"io_write_mutex", "io_read_mutex", "io_mutex"}

VARIABLES
    plugged,             \* the core lets URBs be submitted
    interface, freed,    \* dev->interface is set; dev has been freed
    kref, open,          \* dev->kref; the processes that have the file open
    limit_sem, urbs,     \* permits; URBs on bulk_out_urb_head
    sent, sentZero,      \* writes in flight with an URB of the list, with their own
    posting,             \* write callbacks that have not yet posted limit_sem
    reading,             \* bulk_in_urb is in flight
    ongoing_read, filled,   \* ongoing_read; bulk_in_filled > 0
    errors,              \* 0, EPIPE or another error
    mutex,               \* the thread that holds each mutex, or None
    pc, call             \* where each thread is, and what it does

device  == <<plugged, interface, freed, kref, open>>
pool    == <<limit_sem, urbs, sent, sentZero, posting>>
input   == <<reading, ongoing_read, filled>>
threads == <<pc, call>>
vars == <<device, pool, input, errors, mutex, threads>>

Errors == {"none", "EPIPE", "EIO"}

\* Where a thread is within a call.
Lockers == {"lockWrite", "lockRead", "lockIo"}
Labels == {"idle", "permit", "prepare", "submitWrite", "startRead", "retry", "buffer",
           "clear", "submitRead", "drain", "finish"} \cup Lockers

\* Types of the variables.
TypeOK ==
    /\ plugged \in BOOLEAN /\ interface \in BOOLEAN /\ freed \in BOOLEAN
    /\ kref \in 0..(Cardinality(Processes) + 1) /\ open \subseteq Processes
    /\ limit_sem \in 0..WRITES_IN_FLIGHT /\ urbs \in 0..WRITES_IN_FLIGHT
    /\ sent \in 0..WRITES_IN_FLIGHT /\ sentZero \in 0..WRITES_IN_FLIGHT
    /\ posting \in 0..WRITES_IN_FLIGHT
    /\ reading \in BOOLEAN /\ ongoing_read \in BOOLEAN /\ filled \in BOOLEAN
    /\ errors \in Errors
    /\ mutex \in [Mutexes -> Threads \cup {None}]
    /\ pc \in [Threads -> Labels]
    /\ call \in [Threads -> {"none", "second", "flush", "close", "release", "disconnect", "reset"}
                             \cup WriteKinds \cup ReadKinds]

\* What myd_vsc_probe makes of a new structure.
Probed ==
    /\ plugged' = TRUE /\ interface' = TRUE /\ freed' = FALSE
    /\ kref' = 1
    /\ limit_sem' = WRITES_IN_FLIGHT /\ urbs' = WRITES_IN_FLIGHT
    /\ errors' = "none" /\ ongoing_read' = FALSE /\ filled' = FALSE

\* No device yet.
Init ==
    /\ plugged = FALSE /\ interface = FALSE /\ freed = TRUE /\ kref = 0 /\ open = {}
    /\ limit_sem = 0 /\ urbs = 0 /\ sent = 0 /\ sentZero = 0 /\ posting = 0
    /\ reading = FALSE /\ ongoing_read = FALSE /\ filled = FALSE
    /\ errors = "none"
    /\ mutex = [m \in Mutexes |-> None]
    /\ pc = [t \in Threads |-> "idle"] /\ call = [t \in Threads |-> "none"]

-----------------------------------------------------------------------------
(* Calls, mutexes, the free list.                                           *)

Enter(t, what, label) ==
    /\ pc[t] = "idle"
    /\ pc' = [pc EXCEPT ![t] = label] /\ call' = [call EXCEPT ![t] = what]
Goto(t, label) == pc' = [pc EXCEPT ![t] = label] /\ UNCHANGED call
Return(t) == pc' = [pc EXCEPT ![t] = "idle"] /\ call' = [call EXCEPT ![t] = "none"]

IsFree(m) == mutex[m] = None
Lock(t, m) == IsFree(m) /\ mutex' = [mutex EXCEPT ![m] = t]
UnlockAll(t) == mutex' = [m \in Mutexes |-> IF mutex[m] = t THEN None ELSE mutex[m]]

-----------------------------------------------------------------------------
(* Writes.                                                                  *)

StartWrite(p) ==
    /\ p \in open
    /\ \E kind \in Makes[p] \cap WriteKinds : Enter(p, kind, "permit")
    /\ UNCHANGED <<device, pool, input, errors, mutex>>

\* down_interruptible, or down_trylock, which does not wait.
TakePermit(p) ==
    /\ pc[p] = "permit"
    /\ \/ /\ limit_sem > 0 /\ limit_sem' = limit_sem - 1
          /\ Goto(p, "prepare")
       \/ /\ limit_sem = 0 /\ call[p] = "nonblock"
          /\ Return(p) /\ UNCHANGED limit_sem
    /\ UNCHANGED <<device, urbs, sent, sentZero, posting, input, errors, mutex>>

\* MUTANT of GiveUp: the URB is put back, the permit is not.
GiveUpPermit(p, urb) ==
    /\ Return(p)
    /\ urbs' = urbs + urb
    /\ UNCHANGED limit_sem

\* MUTANT of GiveUp: the second half puts the URB of the first back too.
GiveUpBoth(p, urb) ==
    /\ Return(p)
    /\ urbs' = urbs + (IF call[p] = "second" /\ urb = 0 THEN 1 ELSE urb)
    /\ limit_sem' = limit_sem + 1

\* error: the URB, when the call has one of the list, and the permit.
GiveUp(p, urb) ==
    /\ Return(p)
    /\ urbs' = urbs + urb
    /\ limit_sem' = limit_sem + 1

\* An earlier error is reported by this write and forgotten.  Then the write
\* fails when the list is empty, copy_from_user does, or the zero-copy write
\* gets no memory; or it takes an URB.
PrepareWrite(p) ==
    LET urb == IF call[p] = "zero" THEN 0 ELSE 1 IN
    /\ pc[p] = "prepare"
    /\ \/ errors # "none" /\ errors' = "none" /\ GiveUp(p, 0)
       \/ errors = "none" /\ GiveUp(p, 0) /\ UNCHANGED errors
       \/ /\ errors = "none" /\ urbs >= urb
          /\ urbs' = urbs - urb
          /\ Goto(p, "submitWrite")
          /\ UNCHANGED <<limit_sem, errors>>
    /\ UNCHANGED <<device, sent, sentZero, posting, input, mutex>>

\* Under io_write_mutex, unless the device is gone: usb_submit_urb, which may
\* refuse.  The first of two URBs is followed by the second.
SubmitWrite(p) ==
    LET urb == IF call[p] = "zero" THEN 0 ELSE 1 IN
    /\ pc[p] = "submitWrite" /\ IsFree("io_write_mutex")
    /\ \/ GiveUp(p, urb) /\ UNCHANGED <<sent, sentZero>>
       \/ /\ interface /\ plugged
          /\ sent' = sent + urb /\ sentZero' = sentZero + 1 - urb
          /\ IF call[p] = "two"
             THEN pc' = [pc EXCEPT ![p] = "permit"] /\ call' = [call EXCEPT ![p] = "second"]
             ELSE Return(p)
          /\ UNCHANGED <<limit_sem, urbs>>
    /\ UNCHANGED <<device, posting, input, errors, mutex>>

\* __myd_vsc_write_bulk_callback up to the free list: any status but success
\* is kept, that of an URB that is killed too.
CompleteWrite(zero, error) ==
    /\ ~freed
    /\ IF zero THEN sentZero > 0 /\ sentZero' = sentZero - 1 /\ UNCHANGED <<sent, urbs>>
               ELSE sent > 0 /\ sent' = sent - 1 /\ urbs' = urbs + 1 /\ UNCHANGED sentZero
    /\ errors' = IF error = "none" THEN errors ELSE error
    /\ posting' = posting + 1
    /\ UNCHANGED <<device, limit_sem, input, mutex, threads>>

\* The rest of it: up(&dev->limit_sem).
PostPermit ==
    /\ posting > 0
    /\ posting' = posting - 1 /\ limit_sem' = limit_sem + 1
    /\ UNCHANGED <<device, urbs, sent, sentZero, input, errors, mutex, threads>>

-----------------------------------------------------------------------------
(* Reads.                                                                   *)

StartRead(p) ==
    /\ p \in open
    /\ \E kind \in Makes[p] \cap ReadKinds : Enter(p, kind, "startRead")
    /\ UNCHANGED <<device, pool, input, errors, mutex>>

\* io_read_mutex; nothing is read from a device that is gone.
LockReader(p) ==
    /\ pc[p] = "startRead" /\ IsFree("io_read_mutex")
    /\ IF interface THEN Lock(p, "io_read_mutex") /\ Goto(p, "retry")
                    ELSE Return(p) /\ UNCHANGED mutex
    /\ UNCHANGED <<device, pool, input, errors>>

Leave(p) == Return(p) /\ UnlockAll(p)

\* retry: with a read under way the call sleeps until it ends, or gives up.
WaitForRead(p) ==
    /\ pc[p] = "retry"
    /\ \/ ~ongoing_read /\ Goto(p, "buffer") /\ UNCHANGED mutex
       \/ ongoing_read /\ call[p] = "nonblockRead" /\ Leave(p)
    /\ UNCHANGED <<device, pool, input, errors>>

\* MUTANT of Interrupted: the read is taken for ended, its URB is in flight.
ForgetRead(p) ==
    /\ \/ pc[p] = "permit" /\ limit_sem = 0
       \/ pc[p] = "startRead" /\ ~IsFree("io_read_mutex")
       \/ pc[p] = "retry" /\ ongoing_read
    /\ ongoing_read' = (pc[p] # "retry" /\ ongoing_read)
    /\ Leave(p)
    /\ UNCHANGED <<device, pool, reading, filled, errors>>

\* A signal ends a wait for a permit, for io_read_mutex or for the data; the
\* URB stays in flight for the next reader.
Interrupted(p) ==
    /\ \/ pc[p] = "permit" /\ limit_sem = 0
       \/ pc[p] = "startRead" /\ ~IsFree("io_read_mutex")
       \/ pc[p] = "retry" /\ ongoing_read
    /\ Leave(p)
    /\ UNCHANGED <<device, pool, input, errors>>

\* Errors first, read without err_lock; then the data, whole or as much as was
\* asked for, the rest is dropped; with no data a new read is prepared, before
\* the URB is submitted.
TakeData(p) ==
    /\ pc[p] = "buffer"
    /\ \/ errors # "none" /\ Goto(p, "clear") /\ UNCHANGED <<input, mutex>>
       \/ /\ errors = "none" /\ filled
          /\ filled' = FALSE /\ UNCHANGED <<reading, ongoing_read>>
          /\ Leave(p)
       \/ /\ errors = "none" /\ ~filled
          /\ ongoing_read' = TRUE /\ filled' = FALSE /\ UNCHANGED reading
          /\ Goto(p, "submitRead") /\ UNCHANGED mutex
    /\ UNCHANGED <<device, pool, errors>>

\* The error the call has seen is cleared, and reported.
ClearErrors(p) ==
    /\ pc[p] = "clear"
    /\ errors' = "none"
    /\ Leave(p)
    /\ UNCHANGED <<device, pool, input>>

\* MUTANT of SubmitRead: a read that cannot be submitted stays ongoing.
KeepOngoing(p) ==
    /\ pc[p] = "submitRead"
    /\ \/ /\ plugged /\ reading' = TRUE
          /\ Goto(p, "retry")
          /\ UNCHANGED <<ongoing_read, filled, mutex>>
       \/ Leave(p) /\ UNCHANGED input
    /\ UNCHANGED <<device, pool, errors>>

\* do_read_io, from usb_submit_urb on.
SubmitRead(p) ==
    /\ pc[p] = "submitRead"
    /\ \/ /\ plugged /\ reading' = TRUE
          /\ Goto(p, "retry")
          /\ UNCHANGED <<ongoing_read, filled, mutex>>
       \/ /\ ongoing_read' = FALSE
          /\ Leave(p)
          /\ UNCHANGED <<reading, filled>>
    /\ UNCHANGED <<device, pool, errors>>

\* __myd_vsc_read_bulk_callback, all of it under err_lock; a packet may be empty.
CompleteRead(error) ==
    /\ reading /\ ~freed
    /\ reading' = FALSE /\ ongoing_read' = FALSE
    /\ IF error = "none" THEN filled' \in BOOLEAN /\ UNCHANGED errors
                         ELSE errors' = error /\ UNCHANGED filled
    /\ UNCHANGED <<device, pool, mutex, threads>>

-----------------------------------------------------------------------------
(* Open, flush, close, and what the USB core calls.                         *)

\* MUTANT of Open: no reference is taken.
OpenUncounted(p) ==
    /\ pc[p] = "idle" /\ p \notin open
    /\ interface /\ ~freed
    /\ open' = open \cup {p}
    /\ UNCHANGED <<plugged, interface, freed, kref, pool, input, errors, mutex, threads>>

\* The file operations of the driver are found until it is deregistered,
\* which waits for an open under way.
Open(p) ==
    /\ pc[p] = "idle" /\ p \notin open
    /\ interface /\ ~freed
    /\ open' = open \cup {p} /\ kref' = kref + 1
    /\ UNCHANGED <<plugged, interface, freed, pool, input, errors, mutex, threads>>

\* fsync and close: each takes the three mutexes to flush.
Flush(p) ==
    /\ p \in open
    /\ Enter(p, "flush", "lockWrite") \/ Enter(p, "close", "lockWrite")
    /\ UNCHANGED <<device, pool, input, errors, mutex>>

\* The mutexes are taken in one order by all.
LockAll(t) ==
    /\ \/ pc[t] = "lockWrite" /\ Lock(t, "io_write_mutex") /\ Goto(t, "lockRead")
       \/ pc[t] = "lockRead" /\ Lock(t, "io_read_mutex") /\ Goto(t, "lockIo")
       \/ /\ pc[t] = "lockIo" /\ Lock(t, "io_mutex")
          /\ Goto(t, IF call[t] \in {"release", "disconnect"} THEN "finish" ELSE "drain")
    /\ UNCHANGED <<device, pool, input, errors>>

\* usb_kill_anchored_urbs and usb_kill_urb: what is in flight completes with
\* an error before they return.
Kill ==
    /\ posting = 0
    /\ urbs' = urbs + sent /\ limit_sem' = limit_sem + sent + sentZero
    /\ sent' = 0 /\ sentZero' = 0 /\ UNCHANGED posting
    /\ reading' = FALSE /\ UNCHANGED filled
    /\ ongoing_read' = IF reading THEN FALSE ELSE ongoing_read
    /\ errors' = IF reading \/ sent + sentZero > 0 THEN "EIO" ELSE errors

\* myd_vsc_draw_down, with the mutexes held: two seconds for the writes to end,
\* then they are killed; the read is always.
DrawDown(t) ==
    /\ pc[t] = "drain"
    /\ Kill
    /\ Goto(t, "finish")
    /\ UNCHANGED <<device, mutex>>

\* The end of a flush reports the errors and forgets them; a file that is
\* closed is then released.
FlushErrors(p) ==
    /\ pc[p] = "finish" /\ call[p] \in {"flush", "close"}
    /\ errors' = "none"
    /\ UnlockAll(p)
    /\ IF call[p] = "flush" THEN Return(p) ELSE pc' = [pc EXCEPT ![p] = "lockWrite"]
                                               /\ call' = [call EXCEPT ![p] = "release"]
    /\ UNCHANGED <<device, pool, input>>

\* kref_put, and myd_vsc_delete after the last.
Put == /\ kref' = kref - 1
       /\ freed' = (kref = 1)

Release(p) ==
    /\ pc[p] = "finish" /\ call[p] = "release"
    /\ open' = open \ {p} /\ Put
    /\ Leave(p)
    /\ UNCHANGED <<plugged, interface, pool, input, errors>>

Probe ==
    /\ freed /\ pc[Core] = "idle"
    /\ Probed
    /\ UNCHANGED <<open, sent, sentZero, posting, reading, mutex, threads>>

\* The device is unplugged, or the driver unbound: the core refuses further
\* URBs and kills those in flight, then disconnects.
Unplug ==
    /\ plugged /\ Kill
    /\ plugged' = FALSE
    /\ Enter(Core, "disconnect", "lockWrite")
    /\ UNCHANGED <<interface, freed, kref, open, mutex>>

\* Under the three mutexes: no call finds the device any more.
Disconnect ==
    /\ pc[Core] = "finish" /\ call[Core] = "disconnect"
    /\ interface' = FALSE /\ Put
    /\ Leave(Core)
    /\ UNCHANGED <<plugged, open, pool, input, errors>>

\* System suspend draws down without mutexes; processes are frozen, which
\* takes them out of their waits.
Suspend ==
    /\ plugged /\ \A t \in Threads : pc[t] = "idle"
    /\ Kill
    /\ UNCHANGED <<device, mutex, threads>>

PreReset ==
    /\ plugged
    /\ Enter(Core, "reset", "lockWrite")
    /\ UNCHANGED <<device, pool, input, errors, mutex>>

PostReset ==
    /\ pc[Core] = "finish" /\ call[Core] = "reset"
    /\ errors' = "EPIPE"
    /\ Leave(Core)
    /\ UNCHANGED <<device, pool, input>>

-----------------------------------------------------------------------------

Step(p) ==
    \/ TakePermit(p) \/ PrepareWrite(p) \/ SubmitWrite(p)
    \/ LockReader(p) \/ WaitForRead(p) \/ TakeData(p) \/ ClearErrors(p) \/ SubmitRead(p)
    \/ LockAll(p) \/ DrawDown(p) \/ FlushErrors(p) \/ Release(p)

CoreStep == LockAll(Core) \/ DrawDown(Core) \/ Disconnect \/ PostReset

Next ==
    \/ \E p \in Processes : \/ Open(p) \/ StartWrite(p) \/ StartRead(p) \/ Flush(p)
                            \/ Interrupted(p) \/ Step(p)
    \/ CoreStep
    \/ \E error \in {"none", "EIO"} : \/ CompleteRead(error)
                                     \/ \E zero \in BOOLEAN : CompleteWrite(zero, error)
    \/ PostPermit
    \/ Probe \/ Unplug \/ Suspend \/ PreReset

Spec == Init /\ [][Next]_vars

\* A thread that can go on again and again does: mutexes and permits are handed
\* to those who wait for them in turn.  A callback that has begun ends.  Nothing
\* is assumed of the device: a write or a read need not complete.
Fairness ==
    /\ \A p \in Processes : SF_vars(Step(p))
    /\ SF_vars(CoreStep)
    /\ WF_vars(PostPermit)
FairSpec == Spec /\ Fairness

-----------------------------------------------------------------------------
(* Properties.                                                              *)

Held(label) == Cardinality({p \in Processes : pc[p] = label})

\* Permits and URBs are neither lost nor made: those who hold one, what is in
\* flight and what is free add up, and a permit never meets an empty list.
\* (limit_sem and bulk_out_urb_head through all exits of the two writes.)
PermitsConserved ==
    ~freed =>
    /\ limit_sem + Held("prepare") + Held("submitWrite") + sent + sentZero + posting = WRITES_IN_FLIGHT
    /\ urbs + sent + Cardinality({p \in Processes : pc[p] = "submitWrite" /\ call[p] # "zero"})
          = WRITES_IN_FLIGHT
    /\ \A p \in Processes : pc[p] = "prepare" => urbs > 0

\* ongoing_read tells who may touch the URB and the buffer: it is set exactly
\* while the URB is in flight or about to be, by one reader at most, and no
\* data wait in the buffer then.  (myd_vsc_read and its completion.)
ReadAlone ==
    /\ ongoing_read <=> reading \/ \E p \in Processes : pc[p] = "submitRead"
    /\ ongoing_read => ~filled
    /\ \A p \in Processes : pc[p] = "submitRead" => ~reading
    /\ \A p, q \in Processes : pc[p] \in {"buffer", "clear", "submitRead"} /\ p # q =>
          pc[q] \notin {"retry", "buffer", "clear", "submitRead"}

\* The structure is not freed under anyone: no open file, no call of the core
\* and no URB in flight refers to it then.  (kref against flush, release and
\* disconnect.)
FreedUnused ==
    freed => /\ open = {} /\ pc[Core] = "idle"
             /\ sent + sentZero + posting = 0 /\ ~reading

\* Who opens the device when nobody has it open finds a clean slate: nothing
\* in flight, and no error but that of a reset.  (The comment of __myd_flush:
\* "leave subsequent opens a clean slate".)
CleanSlate ==
    open = {} => sent + sentZero = 0 /\ ~reading /\ errors # "EIO"

\* The last close leaves nothing behind, neither the memory nor what used it.
LastClose == FreedUnused /\ CleanSlate

\* When the device is gone, every call under way ends and so does disconnect,
\* whoever holds a mutex or sleeps in a read.  (io_write_mutex, io_read_mutex
\* and io_mutex in flush, release and disconnect.)
UnplugEndsCalls == \A t \in Threads : (~plugged /\ pc[t] # "idle") ~> (pc[t] = "idle")

=============================================================================
