--------------------------- MODULE VscDriver_proofs ---------------------------
(***************************************************************************)
(* Proofs that the character device of VscDriver keeps its permits, lets   *)
(* one reader at a time at its buffer, and is left clean by the last       *)
(* close, for any number of processes and of permits.                      *)
(*                                                                         *)
(* What ties the parts together are the mutexes: where a thread is says    *)
(* which of them it holds (MutexesHeld), so that one thread at most is     *)
(* where a read is started.  That nothing is freed in use rests on kref,   *)
(* which counts the open files and the driver's interface (References),    *)
(* and on the three locked calls that end a file: once all open files are  *)
(* past the flush of their close, nothing is in flight (Closing).          *)
(***************************************************************************)
EXTENDS VscDriver, Counting

WriteLabels == {"permit", "prepare", "submitWrite"}
ReadLabels  == {"startRead", "retry", "buffer", "clear", "submitRead"}
FlushLabels == Lockers \cup {"drain", "finish"}

\* Where a thread is fits the call it makes, of a file that is open.
CallFits ==
    /\ \A p \in Processes :
        /\ pc[p] # "idle" => p \in open
        /\ pc[p] \in WriteLabels => call[p] \in WriteKinds \cup {"second"}
        /\ pc[p] \in ReadLabels => call[p] \in ReadKinds
        /\ pc[p] \in FlushLabels => call[p] \in {"flush", "close", "release"}
        /\ pc[p] = "drain" => call[p] # "release"
        /\ pc[p] = "idle" => call[p] = "none"
    /\ pc[Core] \in FlushLabels => call[Core] \in {"disconnect", "reset"}
    /\ pc[Core] = "drain" => call[Core] = "reset"
    /\ pc[Core] \in {"idle"} \cup FlushLabels
    /\ pc[Core] = "idle" => call[Core] = "none"

\* A thread holds the mutexes it has come past, and the reader io_read_mutex.
MutexesHeld ==
    \A t \in Threads :
        /\ mutex["io_write_mutex"] = t <=> pc[t] \in {"lockRead", "lockIo", "drain", "finish"}
        /\ mutex["io_read_mutex"] = t <=>
              pc[t] \in {"lockIo", "drain", "finish", "retry", "buffer", "clear", "submitRead"}
        /\ mutex["io_mutex"] = t <=> pc[t] \in {"drain", "finish"}

\* kref counts the open files and the interface; the USB core works on an
\* interface, and submits nothing once it has begun to unplug the device.
References ==
    /\ kref = Cardinality(open) + (IF interface THEN 1 ELSE 0)
    /\ freed <=> kref = 0
    /\ plugged => interface
    /\ interface /\ ~plugged => call[Core] = "disconnect"
    /\ call[Core] # "none" => interface
    /\ call[Core] = "disconnect" => ~plugged
    /\ ~plugged => sent = 0 /\ sentZero = 0 /\ posting = 0 /\ ~reading

\* Before a read is started, and between reads, the buffer and the URB are idle.
ReadState ==
    /\ ongoing_read <=> reading \/ \E p \in Processes : pc[p] = "submitRead"
    /\ ongoing_read => ~filled
    /\ \A p \in Processes : /\ pc[p] = "submitRead" => ~reading
                            /\ pc[p] \in {"buffer", "clear"} => ~ongoing_read

PastFlush(p) == call[p] = "release" \/ (call[p] = "close" /\ pc[p] = "finish")

\* When all open files are past the flush of their close, nothing is in flight;
\* when they have reported their errors, none but a reset's is left.
Closing ==
    /\ (\A p \in open : PastFlush(p)) => sent = 0 /\ sentZero = 0 /\ ~reading
    /\ (\A p \in open : call[p] = "release") => errors # "EIO"

Submitting == {p \in Processes : pc[p] = "submitWrite" /\ call[p] # "zero"}

\* The first two parts of PermitsConserved, from which the third follows.
Permits ==
    /\ limit_sem <= WRITES_IN_FLIGHT /\ urbs <= WRITES_IN_FLIGHT
    /\ ~freed =>
        /\ limit_sem + Held("prepare") + Held("submitWrite") + sent + sentZero + posting
              = WRITES_IN_FLIGHT
        /\ urbs + sent + Cardinality(Submitting) = WRITES_IN_FLIGHT

\* Types, without the bounds that the other parts imply.
Types ==
    /\ plugged \in BOOLEAN /\ interface \in BOOLEAN /\ freed \in BOOLEAN
    /\ open \subseteq Processes
    /\ limit_sem \in Nat /\ urbs \in Nat
    /\ sent \in Nat /\ sentZero \in Nat /\ posting \in Nat
    /\ reading \in BOOLEAN /\ ongoing_read \in BOOLEAN /\ filled \in BOOLEAN
    /\ errors \in Errors
    /\ mutex \in [Mutexes -> Threads \cup {None}]
    /\ pc \in [Threads -> Labels]
    /\ call \in [Threads -> {"none", "second", "flush", "close", "release", "disconnect", "reset"}
                             \cup WriteKinds \cup ReadKinds]

IInv == Types /\ CallFits /\ MutexesHeld /\ References /\ ReadState /\ Closing /\ Permits

-----------------------------------------------------------------------------
(* What the counters count                                                  *)

\* A structure with an open file or an interface has not been freed.
LEMMA InUse ==
    ASSUME IInv, open # {} \/ interface PROVE ~freed
<1>1. Cardinality(open) \in Nat /\ (open # {} => Cardinality(open) > 0)
  BY VscDriverAssumption, CountOfPart DEF IInv, Types
<1>. QED
  BY <1>1 DEF IInv, References

\* How the counts change when one thread goes from one label to another.
Change(before, after) == (IF after THEN 1 ELSE 0) - (IF before THEN 1 ELSE 0)
CountsMoved(t) ==
    /\ Held("prepare") \in Nat /\ Held("submitWrite") \in Nat
    /\ Cardinality(Submitting) \in Nat
    /\ Held("prepare")' \in Nat /\ Held("submitWrite")' \in Nat
    /\ Cardinality(Submitting)' \in Nat
    /\ Held("prepare")' = Held("prepare")
          + Change(t \in Processes /\ pc[t] = "prepare", t \in Processes /\ pc'[t] = "prepare")
    /\ Held("submitWrite")' = Held("submitWrite")
          + Change(t \in Processes /\ pc[t] = "submitWrite", t \in Processes /\ pc'[t] = "submitWrite")
    /\ Cardinality(Submitting)' = Cardinality(Submitting)
          + Change(t \in Submitting, t \in Submitting')

\* When one thread moves, Held and the submitting writes change by that thread.
LEMMA CountsMove ==
    ASSUME Types, Types', NEW t \in Threads,
           \A q \in Threads \ {t} : pc'[q] = pc[q] /\ call'[q] = call[q]
    PROVE  CountsMoved(t)
<1> DEFINE At(label) == {p \in Processes : pc[p] = label}
           Moved(S, T) == /\ Cardinality(S) \in Nat /\ Cardinality(T) \in Nat
                          /\ Cardinality(T) = Cardinality(S) + Change(t \in S, t \in T)
<1>1. ASSUME NEW S \in SUBSET Processes, NEW T \in SUBSET Processes,
             \A q \in Processes \ {t} : q \in S <=> q \in T
      PROVE  Moved(S, T)
  <2>1. CASE t \in Processes
    BY <1>1, <2>1, CountOneMoves, VscDriverAssumption DEF Change
  <2>2. CASE t \notin Processes
    <3>1. S = T /\ t \notin S
      BY <1>1, <2>2
    <3>. QED
      BY <3>1, CountOfPart, VscDriverAssumption DEF Change
  <2>. QED
    BY <2>1, <2>2
<1>2. \A q \in Processes \ {t} : pc'[q] = pc[q] /\ call'[q] = call[q]
  BY DEF Threads
<1>3. Moved(At("prepare"), At("prepare")')
  BY <1>1, <1>2
<1>4. Moved(At("submitWrite"), At("submitWrite")')
  BY <1>1, <1>2
<1>5. Moved(Submitting, Submitting')
  <2>1. Submitting \in SUBSET Processes /\ Submitting' \in SUBSET Processes
    BY DEF Submitting
  <2>2. \A q \in Processes \ {t} : q \in Submitting <=> q \in Submitting'
    BY <1>2 DEF Submitting
  <2>. QED
    BY <1>1, <2>1, <2>2
<1>. QED
  BY <1>3, <1>4, <1>5 DEF CountsMoved, Held

\* A step of a thread that neither takes nor gives back a permit or an URB.
LEMMA PermitsElsewhere ==
    ASSUME IInv, Types', NEW t \in Threads,
           \A q \in Threads \ {t} : pc'[q] = pc[q] /\ call'[q] = call[q],
           t \in Processes => /\ pc[t] \notin {"prepare", "submitWrite"}
                              /\ pc'[t] \notin {"prepare", "submitWrite"},
           UNCHANGED pool \/ (Kill /\ UNCHANGED freed), ~freed' => ~freed
    PROVE  Permits'
<1>1. t \notin Submitting /\ t \notin Submitting'
  BY DEF Submitting
<1>2. /\ Held("prepare")' = Held("prepare") /\ Held("submitWrite")' = Held("submitWrite")
      /\ Cardinality(Submitting)' = Cardinality(Submitting)
      /\ Held("prepare") \in Nat /\ Held("submitWrite") \in Nat /\ Cardinality(Submitting) \in Nat
  BY <1>1, CountsMove DEF IInv, CountsMoved, Change
<1>3. CASE UNCHANGED pool
  BY <1>2, <1>3 DEF IInv, Permits, pool
<1>4. CASE Kill /\ UNCHANGED freed
  <2>1. freed => sent = 0 /\ sentZero = 0
    BY InUse DEF IInv, References
  <2>. QED
    BY <1>2, <1>4, <2>1 DEF IInv, Types, Permits, Kill
<1>. QED
  BY <1>3, <1>4

-----------------------------------------------------------------------------
(* The steps                                                                *)

\* A process that opens the device is one more to count in kref.
LEMMA OpenIInv ==
    ASSUME IInv, NEW p \in Processes, Open(p) PROVE IInv'
<1> USE DEF IInv, Open, pool, input, threads
<1>1. Types'
  BY DEF Types
<1>2. CallFits'
  BY DEF CallFits
<1>3. MutexesHeld'
  BY DEF MutexesHeld
<1>4. References'
  <2>1. Cardinality(open) \in Nat /\ Cardinality(open') = Cardinality(open) + 1
    BY CountOneMoves, VscDriverAssumption DEF Types
  <2>. QED
    BY <2>1 DEF References
<1>5. ReadState'
  BY DEF ReadState
<1>6. Closing'
  BY DEF Closing, PastFlush
<1>7. Permits'
  BY <1>1, PermitsElsewhere DEF Threads
<1>. QED
  BY <1>1, <1>2, <1>3, <1>4, <1>5, <1>6, <1>7

\* A write begins; it holds nothing yet.
LEMMA StartWriteIInv ==
    ASSUME IInv, NEW p \in Processes, StartWrite(p) PROVE IInv'
<1> USE DEF IInv, StartWrite, Enter, device, pool, input, WriteKinds
<1>1. Types'
  BY DEF Types, Threads, Labels
<1>2. CallFits'
  BY VscDriverAssumption DEF Types, CallFits, Lockers, ReadLabels, FlushLabels
<1>3. MutexesHeld'
  BY DEF MutexesHeld
<1>4. References'
  BY VscDriverAssumption DEF References
<1>5. ReadState'
  BY DEF ReadState
<1>6. Closing'
  BY DEF Closing, PastFlush
<1>7. Permits'
  BY <1>1, PermitsElsewhere DEF Threads
<1>. QED
  BY <1>1, <1>2, <1>3, <1>4, <1>5, <1>6, <1>7

\* A read begins; it holds nothing yet.
LEMMA StartReadIInv ==
    ASSUME IInv, NEW p \in Processes, StartRead(p) PROVE IInv'
<1> USE DEF IInv, StartRead, Enter, device, pool, input, ReadKinds
<1>1. Types'
  BY DEF Types, Threads, Labels
<1>2. CallFits'
  BY VscDriverAssumption DEF Types, CallFits, Lockers, WriteLabels, FlushLabels
<1>3. MutexesHeld'
  BY DEF MutexesHeld
<1>4. References'
  BY VscDriverAssumption DEF References
<1>5. ReadState'
  BY DEF ReadState
<1>6. Closing'
  BY DEF Closing, PastFlush
<1>7. Permits'
  BY <1>1, PermitsElsewhere DEF Threads
<1>. QED
  BY <1>1, <1>2, <1>3, <1>4, <1>5, <1>6, <1>7

\* fsync or close begins.
LEMMA FlushIInv ==
    ASSUME IInv, NEW p \in Processes, Flush(p) PROVE IInv'
<1> USE DEF IInv, Flush, Enter, device, pool, input
<1>1. Types'
  BY DEF Types, Labels, Lockers
<1>2. CallFits'
  BY VscDriverAssumption DEF Types, CallFits, Threads, WriteLabels, ReadLabels
<1>3. MutexesHeld'
  BY DEF Types, MutexesHeld
<1>4. References'
  BY VscDriverAssumption DEF Types, References, Threads
<1>5. ReadState'
  BY DEF Types, ReadState, Threads
<1>6. Closing'
  BY DEF Types, Closing, PastFlush
<1>7. Permits'
  BY <1>1, PermitsElsewhere DEF Types, Threads
<1>. QED
  BY <1>1, <1>2, <1>3, <1>4, <1>5, <1>6, <1>7

\* Who is interrupted in a wait holds no permit, and at most io_read_mutex.
LEMMA InterruptedIInv ==
    ASSUME IInv, NEW p \in Processes, Interrupted(p) PROVE IInv'
<1> USE DEF IInv, Interrupted, Return, IsFree, UnlockAll, Leave, device, pool, input
<1>1. Types'
  BY DEF Types, Labels
<1>2. CallFits'
  BY DEF Types, CallFits, Lockers, WriteLabels, ReadLabels, FlushLabels
<1>3. MutexesHeld'
  BY DEF Types, MutexesHeld, Mutexes
<1>4. References'
  BY VscDriverAssumption DEF References
<1>5. ReadState'
  BY DEF ReadState
<1>6. Closing'
  BY DEF Closing, PastFlush
<1>7. Permits'
  BY <1>1, PermitsElsewhere DEF Threads
<1>. QED
  BY <1>1, <1>2, <1>3, <1>4, <1>5, <1>6, <1>7

\* A permit goes from limit_sem to its holder.
LEMMA TakePermitIInv ==
    ASSUME IInv, NEW p \in Processes, TakePermit(p) PROVE IInv'
<1> USE DEF IInv, TakePermit, Goto, Return, device, input
<1>1. Types'
  BY DEF Types, Labels
<1>2. CallFits'
  BY DEF Types, CallFits, Threads, Lockers, WriteLabels, ReadLabels, FlushLabels
<1>3. MutexesHeld'
  BY DEF Types, MutexesHeld
<1>4. References'
  BY DEF Types, References, Threads
<1>5. ReadState'
  BY DEF Types, ReadState, Threads
<1>6. Closing'
  BY DEF Types, Closing, PastFlush, Threads
<1>7. Permits'
  <2>1. p \in Threads /\ \A q \in Threads \ {p} : pc'[q] = pc[q] /\ call'[q] = call[q]
    BY DEF Types, Threads
  <2>2. ~freed
    BY InUse DEF CallFits
  <2>3. CountsMoved(p)
    BY <1>1, <2>1, CountsMove
  <2>4. /\ p \in Submitting <=> pc[p] = "submitWrite" /\ call[p] # "zero"
        /\ p \in Submitting' <=> pc'[p] = "submitWrite" /\ call'[p] # "zero"
    BY DEF Submitting
  <2>. QED
    BY <2>3, <2>4, VscDriverAssumption
       DEF CountsMoved, Change, Permits, Types, Threads
<1>. QED
  BY <1>1, <1>2, <1>3, <1>4, <1>5, <1>6, <1>7

\* The holder of a permit takes an URB with it, or gives the permit back.
LEMMA PrepareWriteIInv ==
    ASSUME IInv, NEW p \in Processes, PrepareWrite(p) PROVE IInv'
<1> USE DEF IInv, PrepareWrite, Goto, Return, GiveUp, device, input
<1>1. Types'
  BY DEF Types, Labels, Errors
<1>2. CallFits'
  BY DEF Types, CallFits, Threads, Lockers, WriteLabels, ReadLabels, FlushLabels
<1>3. MutexesHeld'
  BY DEF Types, MutexesHeld
<1>4. References'
  BY VscDriverAssumption DEF Types, References, Threads
<1>5. ReadState'
  BY DEF Types, ReadState, Threads
<1>6. Closing'
  BY DEF Types, Closing, PastFlush, Threads
<1>7. Permits'
  <2>1. p \in Threads /\ \A q \in Threads \ {p} : pc'[q] = pc[q] /\ call'[q] = call[q]
    BY DEF Types, Threads
  <2>2. ~freed /\ ~freed'
    BY InUse DEF CallFits
  <2>3. CountsMoved(p)
    BY <1>1, <2>1, CountsMove
  <2> DEFINE urb == IF call[p] = "zero" THEN 0 ELSE 1
  <2>4. /\ p \in Submitting <=> pc[p] = "submitWrite" /\ call[p] # "zero"
        /\ p \in Submitting' <=> pc'[p] = "submitWrite" /\ call'[p] # "zero"
    BY DEF Submitting
  <2>5. /\ pc[p] = "prepare" /\ UNCHANGED <<sent, sentZero, posting>>
        /\ \/ /\ pc'[p] = "idle" /\ limit_sem' = limit_sem + 1 /\ urbs' = urbs
           \/ /\ pc'[p] = "submitWrite" /\ call'[p] = call[p] /\ limit_sem' = limit_sem
              /\ urbs >= urb /\ urbs' = urbs - urb
    BY DEF Types, Threads
  <2>. HIDE DEF PrepareWrite, Goto, Return, GiveUp
  <2>6. CASE pc'[p] = "idle"
    <3>1. /\ Held("prepare")' = Held("prepare") - 1 /\ Held("submitWrite")' = Held("submitWrite")
          /\ Cardinality(Submitting)' = Cardinality(Submitting)
      BY <2>3, <2>4, <2>5, <2>6 DEF CountsMoved, Change
    <3>. QED
      BY <2>2, <2>3, <2>5, <2>6, <3>1 DEF CountsMoved, Permits, Types
  <2>7. CASE pc'[p] = "submitWrite"
    <3>1. /\ Held("prepare")' = Held("prepare") - 1
          /\ Held("submitWrite")' = Held("submitWrite") + 1
          /\ Cardinality(Submitting)' = Cardinality(Submitting) + urb
      BY <2>3, <2>4, <2>5, <2>7 DEF CountsMoved, Change
    <3>2. urb \in {0, 1} /\ limit_sem' = limit_sem /\ urbs' = urbs - urb
      BY <2>5, <2>7
    <3>. HIDE DEF urb
    <3>. QED
      BY <3>2, <2>2, <2>3, <2>5, <3>1 DEF CountsMoved, Permits, Types
  <2>. QED
    BY <2>5, <2>6, <2>7
<1>. QED
  BY <1>1, <1>2, <1>3, <1>4, <1>5, <1>6, <1>7

\* Permit and URB go into flight with the write, or are both given back.
LEMMA SubmitWriteIInv ==
    ASSUME IInv, NEW p \in Processes, SubmitWrite(p) PROVE IInv'
<1> USE DEF IInv, SubmitWrite, Return, IsFree, GiveUp, device, input
<1>1. Types'
  BY DEF Types, Labels
<1>2. CallFits'
  BY DEF Types, CallFits, Threads, Lockers, WriteLabels, ReadLabels, FlushLabels
<1>3. MutexesHeld'
  BY DEF Types, MutexesHeld
<1>4. References'
  BY VscDriverAssumption DEF Types, References, Threads
<1>5. ReadState'
  BY DEF Types, ReadState, Threads
<1>6. Closing'
  BY DEF Types, CallFits, Closing, PastFlush, Threads
<1>7. Permits'
  <2>1. p \in Threads /\ \A q \in Threads \ {p} : pc'[q] = pc[q] /\ call'[q] = call[q]
    BY DEF Types, Threads
  <2>2. ~freed /\ ~freed'
    BY InUse DEF CallFits
  <2>3. CountsMoved(p)
    BY <1>1, <2>1, CountsMove
  <2> DEFINE urb == IF call[p] = "zero" THEN 0 ELSE 1
  <2>4. /\ p \in Submitting <=> pc[p] = "submitWrite" /\ call[p] # "zero"
        /\ p \in Submitting' <=> pc'[p] = "submitWrite" /\ call'[p] # "zero"
    BY DEF Submitting
  <2>5. /\ pc[p] = "submitWrite" /\ posting' = posting
        /\ \/ /\ pc'[p] = "idle" /\ limit_sem' = limit_sem + 1 /\ urbs' = urbs + urb
              /\ sent' = sent /\ sentZero' = sentZero
           \/ /\ pc'[p] \in {"idle", "permit"} /\ limit_sem' = limit_sem /\ urbs' = urbs
              /\ sent' = sent + urb /\ sentZero' = sentZero + 1 - urb
    BY DEF Types, Threads
  <2>. HIDE DEF SubmitWrite, Return, GiveUp
  <2>6. /\ Held("prepare")' = Held("prepare") /\ Held("submitWrite")' = Held("submitWrite") - 1
        /\ Cardinality(Submitting)' = Cardinality(Submitting) - urb
    BY <2>3, <2>4, <2>5 DEF CountsMoved, Change
  <2>. QED
    BY <2>2, <2>3, <2>5, <2>6 DEF CountsMoved, Permits, Types
<1>. QED
  BY <1>1, <1>2, <1>3, <1>4, <1>5, <1>6, <1>7

\* A reader takes io_read_mutex, which nobody has.
LEMMA LockReaderIInv ==
    ASSUME IInv, NEW p \in Processes, LockReader(p) PROVE IInv'
<1> USE DEF IInv, LockReader, Goto, Return, IsFree, Lock, device, pool, input
<1>1. Types'
  BY DEF Types, Threads, Labels
<1>2. CallFits'
  BY DEF Types, CallFits, Threads, Lockers, WriteLabels, ReadLabels, FlushLabels
<1>3. MutexesHeld'
  BY VscDriverAssumption DEF Types, MutexesHeld, Mutexes, Threads
<1>4. References'
  BY DEF Types, References, Threads
<1>5. ReadState'
  BY DEF Types, ReadState, Threads
<1>6. Closing'
  BY DEF Types, Closing, PastFlush, Threads
<1>7. Permits'
  BY <1>1, PermitsElsewhere DEF Types, Threads
<1>. QED
  BY <1>1, <1>2, <1>3, <1>4, <1>5, <1>6, <1>7

\* A reader comes to the buffer when no read is under way.
LEMMA WaitForReadIInv ==
    ASSUME IInv, NEW p \in Processes, WaitForRead(p) PROVE IInv'
<1> USE DEF IInv, WaitForRead, Goto, Return, UnlockAll, Leave, device, pool, input
<1>1. Types'
  BY DEF Types, Labels
<1>2. CallFits'
  BY DEF Types, CallFits, Threads, Lockers, WriteLabels, ReadLabels, FlushLabels
<1>3. MutexesHeld'
  BY DEF Types, MutexesHeld, Mutexes
<1>4. References'
  BY DEF Types, References, Threads
<1>5. ReadState'
  BY DEF Types, ReadState, Threads
<1>6. Closing'
  BY DEF Types, Closing, PastFlush, Threads
<1>7. Permits'
  BY <1>1, PermitsElsewhere DEF Types, Threads
<1>. QED
  BY <1>1, <1>2, <1>3, <1>4, <1>5, <1>6, <1>7

\* The reader at the buffer, alone there, takes the data or prepares a read.
LEMMA TakeDataIInv ==
    ASSUME IInv, NEW p \in Processes, TakeData(p) PROVE IInv'
<1> USE DEF IInv, TakeData, Goto, Return, UnlockAll, Leave, device, pool, input
<1>1. Types'
  <2>1. reading' \in BOOLEAN /\ ongoing_read' \in BOOLEAN /\ filled' \in BOOLEAN
    BY DEF Types
  <2>. QED
    BY DEF Types, Labels
<1>2. CallFits'
  BY DEF Types, CallFits, Threads, Lockers, WriteLabels, ReadLabels, FlushLabels
<1>3. MutexesHeld'
  BY DEF Types, MutexesHeld, Mutexes
<1>4. References'
  BY VscDriverAssumption DEF Types, References, Threads
<1>5. ReadState'
  BY DEF Types, MutexesHeld, ReadState, Threads
<1>6. Closing'
  BY DEF Types, Closing, PastFlush, Threads
<1>7. Permits'
  BY <1>1, PermitsElsewhere DEF Types, Threads
<1>. QED
  BY <1>1, <1>2, <1>3, <1>4, <1>5, <1>6, <1>7

\* A read reports an error and leaves.
LEMMA ClearErrorsIInv ==
    ASSUME IInv, NEW p \in Processes, ClearErrors(p) PROVE IInv'
<1> USE DEF IInv, ClearErrors, Return, UnlockAll, Leave, device, pool, input
<1>1. Types'
  BY DEF Types, Labels, Errors
<1>2. CallFits'
  BY DEF Types, CallFits, Lockers, WriteLabels, ReadLabels, FlushLabels
<1>3. MutexesHeld'
  BY DEF Types, MutexesHeld, Mutexes
<1>4. References'
  BY VscDriverAssumption DEF References
<1>5. ReadState'
  BY DEF ReadState
<1>6. Closing'
  BY DEF Closing, PastFlush
<1>7. Permits'
  BY <1>1, PermitsElsewhere DEF Threads
<1>. QED
  BY <1>1, <1>2, <1>3, <1>4, <1>5, <1>6, <1>7

\* A read that was prepared is in flight, or ongoing_read is taken back.
LEMMA SubmitReadIInv ==
    ASSUME IInv, NEW p \in Processes, SubmitRead(p) PROVE IInv'
<1> USE DEF IInv, SubmitRead, Goto, Return, UnlockAll, Leave, device, pool
<1>1. Types'
  <2>1. reading' \in BOOLEAN /\ ongoing_read' \in BOOLEAN /\ filled' \in BOOLEAN
    BY DEF Types
  <2>. QED
    BY DEF Types, Labels
<1>2. CallFits'
  BY DEF Types, CallFits, Threads, Lockers, WriteLabels, ReadLabels, FlushLabels
<1>3. MutexesHeld'
  BY DEF Types, MutexesHeld, Mutexes
<1>4. References'
  BY VscDriverAssumption DEF Types, References, Threads
<1>5. ReadState'
  BY DEF Types, MutexesHeld, ReadState, Threads
<1>6. Closing'
  <2>1. p \in open /\ call[p] \in ReadKinds /\ p \in Threads
    BY DEF CallFits, ReadLabels, Threads
  <2>2. call'[p] \in ReadKinds \cup {"none"}
    BY <2>1 DEF Types
  <2>3. call'[p] # "release" /\ call'[p] # "close"
    BY <2>2 DEF ReadKinds
  <2>4. p \in open' /\ ~PastFlush(p)'
    BY <2>1, <2>3 DEF PastFlush
  <2>. QED
    BY <2>3, <2>4 DEF Closing
<1>7. Permits'
  BY <1>1, PermitsElsewhere DEF Types, Threads
<1>. QED
  BY <1>1, <1>2, <1>3, <1>4, <1>5, <1>6, <1>7

\* The three mutexes, one after the other.
LEMMA LockAllIInv ==
    ASSUME IInv, NEW t \in Threads, LockAll(t) PROVE IInv'
<1> USE DEF IInv, LockAll, Goto, IsFree, Lock, device, pool, input
<1>1. Types'
  BY DEF Types, Labels, Lockers
<1>2. CallFits'
  BY DEF Types, CallFits, Threads, Lockers, WriteLabels, ReadLabels, FlushLabels
<1>3. MutexesHeld'
  BY VscDriverAssumption DEF Types, MutexesHeld, Mutexes, Threads
<1>4. References'
  BY DEF References
<1>5. ReadState'
  BY DEF Types, ReadState, Threads
<1>6. Closing'
  BY DEF Types, Closing, PastFlush, Threads
<1>7. Permits'
  BY <1>1, PermitsElsewhere DEF Types
<1>. QED
  BY <1>1, <1>2, <1>3, <1>4, <1>5, <1>6, <1>7

\* What is in flight is killed: permits and URBs come back, the read ends.
LEMMA DrawDownIInv ==
    ASSUME IInv, NEW t \in Threads, DrawDown(t) PROVE IInv'
<1> USE DEF IInv, DrawDown, Goto, Kill, device
<1>1. Types'
  <2>1. reading' \in BOOLEAN /\ ongoing_read' \in BOOLEAN /\ filled' \in BOOLEAN
    BY DEF Types
  <2>2. /\ limit_sem' \in Nat /\ urbs' \in Nat /\ sent' \in Nat /\ sentZero' \in Nat
        /\ posting' \in Nat /\ errors' \in Errors
    BY DEF Types, Errors
  <2>3. pc' \in [Threads -> Labels] /\ UNCHANGED <<freed, interface, open, mutex>> /\ plugged' \in BOOLEAN
    BY DEF Types, Labels
  <2>. QED
    BY <2>2, <2>3 DEF Types
<1>2. CallFits'
  BY DEF CallFits, WriteLabels, ReadLabels, FlushLabels
<1>3. MutexesHeld'
  BY DEF MutexesHeld
<1>4. References'
  BY DEF References
<1>5. ReadState'
  BY DEF ReadState
<1>6. Closing'
  BY DEF Closing, PastFlush
<1>7. Permits'
  BY <1>1, PermitsElsewhere DEF Types
<1>. QED
  BY <1>1, <1>2, <1>3, <1>4, <1>5, <1>6, <1>7

\* A flush has cleared the errors; a close goes on to release past it.
LEMMA FlushErrorsIInv ==
    ASSUME IInv, NEW p \in Processes, FlushErrors(p) PROVE IInv'
<1> USE DEF IInv, FlushErrors, Return, UnlockAll, device, pool, input
<1>1. Types'
  BY DEF Types, Labels, Errors, Lockers
<1>2. CallFits'
  BY DEF Types, CallFits, Threads, Lockers, WriteLabels, ReadLabels, FlushLabels
<1>3. MutexesHeld'
  BY VscDriverAssumption DEF Types, MutexesHeld, Mutexes, Threads
<1>4. References'
  BY DEF Types, References, Threads
<1>5. ReadState'
  BY DEF Types, ReadState, Threads
<1>6. Closing'
  BY DEF Types, Closing, PastFlush, Threads
<1>7. Permits'
  BY <1>1, PermitsElsewhere DEF Types, Threads
<1>. QED
  BY <1>1, <1>2, <1>3, <1>4, <1>5, <1>6, <1>7

\* A file is closed: kref and the open files lose one.
LEMMA ReleaseIInv ==
    ASSUME IInv, NEW p \in Processes, Release(p) PROVE IInv'
<1> USE DEF IInv, Release, Return, UnlockAll, Leave, Put, pool, input
<1>1. Types'
  BY DEF Types, Labels
<1>2. CallFits'
  BY DEF Types, CallFits, Threads, Lockers, WriteLabels, ReadLabels, FlushLabels
<1>3. MutexesHeld'
  BY VscDriverAssumption DEF Types, MutexesHeld, Mutexes, Threads
<1>4. References'
  <2>1. p \in open
    BY DEF CallFits
  <2>2. Cardinality(open) \in Nat /\ Cardinality(open') = Cardinality(open) - 1 /\ Cardinality(open') \in Nat
    BY <2>1, CountOneMoves, VscDriverAssumption DEF Types
  <2>3. freed' <=> kref = 1
    OBVIOUS
  <2>4. call'[Core] = call[Core]
    BY VscDriverAssumption
  <2>5. kref' = Cardinality(open)' + (IF interface' THEN 1 ELSE 0) /\ (kref = 1 <=> kref' = 0)
    BY <2>2 DEF References
  <2>. QED
    BY <2>4, <2>5 DEF References
<1>5. ReadState'
  BY DEF ReadState
<1>6. Closing'
  BY DEF Closing, PastFlush
<1>7. Permits'
  <2>1. ~freed
    BY InUse DEF CallFits
  <2>2. /\ p \in Threads /\ pc[p] = "finish" /\ pc'[p] = "idle"
        /\ \A q \in Threads \ {p} : pc'[q] = pc[q] /\ call'[q] = call[q]
    BY DEF Types, Threads
  <2>. QED
    BY <1>1, <2>1, <2>2, PermitsElsewhere
<1>. QED
  BY <1>1, <1>2, <1>3, <1>4, <1>5, <1>6, <1>7

\* The interface gives up its reference.
LEMMA DisconnectIInv ==
    ASSUME IInv, Disconnect PROVE IInv'
<1> USE DEF IInv, Disconnect, Return, UnlockAll, Leave, Put, pool, input
<1>1. Types'
  BY DEF Types, Labels
<1>2. CallFits'
  BY DEF Types, CallFits, Lockers, FlushLabels
<1>3. MutexesHeld'
  BY VscDriverAssumption DEF Types, MutexesHeld, Mutexes, Threads
<1>4. References'
  <2>1. Cardinality(open) \in Nat
    BY CountOfPart, VscDriverAssumption DEF Types
  <2>2. freed' <=> kref = 1
    OBVIOUS
  <2>3. call'[Core] = "none" /\ ~plugged /\ interface
    BY DEF Types, Threads, References
  <2>4. kref' = Cardinality(open)' + (IF interface' THEN 1 ELSE 0) /\ (kref = 1 <=> kref' = 0)
    BY <2>1 DEF References
  <2>. QED
    BY <2>3, <2>4 DEF References
<1>5. ReadState'
  BY DEF ReadState
<1>6. Closing'
  BY DEF Closing, PastFlush
<1>7. Permits'
  <2>1. ~freed
    BY InUse DEF References
  <2>2. /\ Core \in Threads /\ pc[Core] = "finish" /\ pc'[Core] = "idle"
        /\ \A q \in Threads \ {Core} : pc'[q] = pc[q] /\ call'[q] = call[q]
    BY DEF Types, Threads
  <2>. QED
    BY <1>1, <2>1, <2>2, PermitsElsewhere
<1>. QED
  BY <1>1, <1>2, <1>3, <1>4, <1>5, <1>6, <1>7

\* A reset leaves its error, which is none of a completion.
LEMMA PostResetIInv ==
    ASSUME IInv, PostReset PROVE IInv'
<1> USE DEF IInv, PostReset, Return, UnlockAll, Leave, device, pool, input
<1>1. Types'
  BY DEF Types, Labels, Errors
<1>2. CallFits'
  BY DEF Types, CallFits, Lockers, FlushLabels
<1>3. MutexesHeld'
  BY VscDriverAssumption DEF Types, MutexesHeld, Mutexes, Threads
<1>4. References'
  BY DEF References
<1>5. ReadState'
  BY DEF ReadState
<1>6. Closing'
  BY DEF Closing, PastFlush
<1>7. Permits'
  BY <1>1, PermitsElsewhere DEF Threads
<1>. QED
  BY <1>1, <1>2, <1>3, <1>4, <1>5, <1>6, <1>7

\* A read completes; whose file it was is still open before its flush.
LEMMA CompleteReadIInv ==
    ASSUME IInv, NEW error \in {"none", "EIO"}, CompleteRead(error) PROVE IInv'
<1> USE DEF IInv, CompleteRead, device, pool, threads
<1>1. Types'
  BY DEF Types, Errors
<1>2. CallFits'
  BY DEF CallFits
<1>3. MutexesHeld'
  BY DEF MutexesHeld
<1>4. References'
  BY DEF References
<1>5. ReadState'
  BY DEF ReadState
<1>6. Closing'
  BY DEF Closing, PastFlush
<1>7. Permits'
  <2>1. Core \in Threads /\ Core \notin Processes
    BY VscDriverAssumption DEF Threads
  <2>. QED
    BY <1>1, <2>1, PermitsElsewhere
<1>. QED
  BY <1>1, <1>2, <1>3, <1>4, <1>5, <1>6, <1>7

\* A write completes: its URB is free, its permit about to be.
LEMMA CompleteWriteIInv ==
    ASSUME IInv, NEW zero \in BOOLEAN, NEW error \in {"none", "EIO"}, CompleteWrite(zero, error) PROVE IInv'
<1> USE DEF IInv, CompleteWrite, device, input, threads
<1>1. Types'
  BY DEF Types, Errors
<1>2. CallFits'
  BY DEF CallFits
<1>3. MutexesHeld'
  BY DEF MutexesHeld
<1>4. References'
  BY DEF References
<1>5. ReadState'
  BY DEF ReadState
<1>6. Closing'
  BY DEF Closing, PastFlush
<1>7. Permits'
  <2>1. Core \in Threads /\ \A q \in Threads \ {Core} : pc'[q] = pc[q] /\ call'[q] = call[q]
    BY DEF Threads
  <2>2. Core \notin Processes
    BY VscDriverAssumption
  <2>3. CountsMoved(Core)
    BY <1>1, <2>1, CountsMove
  <2>4. Core \notin Submitting /\ Core \notin Submitting'
    BY <2>2 DEF Submitting
  <2>. QED
    BY <2>3, <2>4 DEF CountsMoved, Change, Permits, Types
<1>. QED
  BY <1>1, <1>2, <1>3, <1>4, <1>5, <1>6, <1>7

\* The callback's permit is free.
LEMMA PostPermitIInv ==
    ASSUME IInv, PostPermit PROVE IInv'
<1> USE DEF IInv, PostPermit, device, input, threads
<1>1. Types'
  BY DEF Types
<1>2. CallFits'
  BY DEF CallFits
<1>3. MutexesHeld'
  BY DEF MutexesHeld
<1>4. References'
  BY DEF References
<1>5. ReadState'
  BY DEF ReadState
<1>6. Closing'
  BY DEF Closing, PastFlush
<1>7. Permits'
  <2>1. ~freed
    BY InUse DEF References
  <2>2. Core \in Threads /\ \A q \in Threads \ {Core} : pc'[q] = pc[q] /\ call'[q] = call[q]
    BY DEF Threads
  <2>3. Core \notin Processes
    BY VscDriverAssumption
  <2>4. CountsMoved(Core)
    BY <1>1, <2>2, CountsMove
  <2>5. Core \notin Submitting /\ Core \notin Submitting'
    BY <2>3 DEF Submitting
  <2>. QED
    BY <2>1, <2>4, <2>5 DEF CountsMoved, Change, Permits, Types
<1>. QED
  BY <1>1, <1>2, <1>3, <1>4, <1>5, <1>6, <1>7

\* A new structure replaces one that is used by nobody.
LEMMA ProbeIInv ==
    ASSUME IInv, Probe PROVE IInv'
<1> USE DEF IInv, Probe, Probed, threads
<1>1. Types'
  BY VscDriverAssumption DEF Types, Errors
<1>2. CallFits'
  BY DEF CallFits
<1>3. MutexesHeld'
  BY DEF MutexesHeld
<1>4. References'
  <2>1. open = {} /\ ~interface
    BY InUse
  <2>2. Cardinality(open) = 0
    BY <2>1, FS_EmptySet
  <2>. QED
    BY <2>2 DEF References
<1>5. ReadState'
  <2>1. open = {} /\ ~interface
    BY InUse
  <2>2. ~reading /\ \A p \in Processes : pc[p] = "idle"
    BY <2>1 DEF CallFits, References
  <2>. QED
    BY <2>2 DEF ReadState
<1>6. Closing'
  BY DEF Closing, PastFlush
<1>7. Permits'
  <2>1. open = {} /\ ~interface
    BY InUse
  <2>2. sent = 0 /\ sentZero = 0 /\ posting = 0 /\ \A p \in Processes : pc[p] = "idle"
    BY <2>1 DEF CallFits, References
  <2>3. Held("prepare")' = 0 /\ Held("submitWrite")' = 0 /\ Cardinality(Submitting)' = 0
    BY <2>2, FS_EmptySet DEF Held, Submitting
  <2>. QED
    BY <2>2, <2>3, VscDriverAssumption DEF Permits
<1>. QED
  BY <1>1, <1>2, <1>3, <1>4, <1>5, <1>6, <1>7

\* The core unplugs the device and kills what is in flight.
LEMMA UnplugIInv ==
    ASSUME IInv, Unplug PROVE IInv'
<1> USE DEF IInv, Unplug, Enter, Kill
<1>1. Types'
  <2>1. reading' \in BOOLEAN /\ ongoing_read' \in BOOLEAN /\ filled' \in BOOLEAN
    BY DEF Types
  <2>2. /\ limit_sem' \in Nat /\ urbs' \in Nat /\ sent' \in Nat /\ sentZero' \in Nat
        /\ posting' \in Nat /\ errors' \in Errors
    BY DEF Types, Errors
  <2>3. pc' \in [Threads -> Labels] /\ UNCHANGED <<freed, interface, open, mutex>> /\ plugged' \in BOOLEAN
    BY DEF Types, Labels, Lockers
  <2>. QED
    BY <2>2, <2>3 DEF Types
<1>2. CallFits'
  BY VscDriverAssumption DEF Types, CallFits, Lockers, FlushLabels
<1>3. MutexesHeld'
  BY DEF MutexesHeld
<1>4. References'
  BY DEF Types, References, Threads
<1>5. ReadState'
  BY DEF ReadState
<1>6. Closing'
  BY DEF Closing, PastFlush
<1>7. Permits'
  <2>1. Core \notin Processes
    BY VscDriverAssumption
  <2>. QED
    BY <1>1, PermitsElsewhere DEF Types, Threads
<1>. QED
  BY <1>1, <1>2, <1>3, <1>4, <1>5, <1>6, <1>7

\* What is in flight is killed, with no thread in the driver.
LEMMA SuspendIInv ==
    ASSUME IInv, Suspend PROVE IInv'
<1> USE DEF IInv, Suspend, Kill, device, threads
<1>1. Types'
  <2>1. reading' \in BOOLEAN /\ ongoing_read' \in BOOLEAN /\ filled' \in BOOLEAN
    BY DEF Types
  <2>2. /\ limit_sem' \in Nat /\ urbs' \in Nat /\ sent' \in Nat /\ sentZero' \in Nat
        /\ posting' \in Nat /\ errors' \in Errors
    BY DEF Types, Errors
  <2>3. pc' \in [Threads -> Labels] /\ UNCHANGED <<freed, interface, open, mutex>> /\ plugged' \in BOOLEAN
    BY DEF Types
  <2>. QED
    BY <2>2 DEF Types
<1>2. CallFits'
  BY DEF CallFits
<1>3. MutexesHeld'
  BY DEF MutexesHeld
<1>4. References'
  BY DEF References
<1>5. ReadState'
  BY DEF ReadState
<1>6. Closing'
  BY DEF Closing, PastFlush
<1>7. Permits'
  <2>1. Core \notin Processes
    BY VscDriverAssumption
  <2>. QED
    BY <1>1, PermitsElsewhere DEF Threads
<1>. QED
  BY <1>1, <1>2, <1>3, <1>4, <1>5, <1>6, <1>7

\* The core begins a reset.
LEMMA PreResetIInv ==
    ASSUME IInv, PreReset PROVE IInv'
<1> USE DEF IInv, PreReset, Enter, device, pool, input
<1>1. Types'
  BY DEF Types, Labels, Lockers
<1>2. CallFits'
  BY VscDriverAssumption DEF Types, CallFits, Lockers, FlushLabels
<1>3. MutexesHeld'
  BY DEF MutexesHeld
<1>4. References'
  BY DEF References
<1>5. ReadState'
  BY DEF ReadState
<1>6. Closing'
  BY DEF Closing, PastFlush
<1>7. Permits'
  BY <1>1, PermitsElsewhere DEF Threads
<1>. QED
  BY <1>1, <1>2, <1>3, <1>4, <1>5, <1>6, <1>7

-----------------------------------------------------------------------------
(* The invariant                                                            *)

\* There is no device at first, and no thread in the driver.
LEMMA InitIInv == Init => IInv
<1> SUFFICES ASSUME Init PROVE IInv
  OBVIOUS
<1> USE DEF Init
<1>1. \A t \in Threads : pc[t] = "idle" /\ call[t] = "none"
  OBVIOUS
<1>2. Processes \subseteq Threads /\ Core \in Threads /\ None \notin Threads
  BY VscDriverAssumption DEF Threads
<1>3. Types
  <2>1. mutex \in [Mutexes -> Threads \cup {None}]
    OBVIOUS
  <2>2. pc \in [Threads -> Labels]
    BY DEF Labels
  <2>. QED
    BY <2>2 DEF Types, Errors
<1>4. CallFits
  BY <1>2 DEF CallFits, WriteLabels, ReadLabels, FlushLabels, Lockers
<1>5. MutexesHeld
  BY <1>2 DEF MutexesHeld, Mutexes
<1>6. References
  BY <1>2, FS_EmptySet DEF References
<1>7. ReadState
  BY <1>2 DEF ReadState
<1>8. Closing
  BY DEF Closing
<1>9. Permits
  BY VscDriverAssumption DEF Permits
<1>. QED
  BY <1>3, <1>4, <1>5, <1>6, <1>7, <1>8, <1>9 DEF IInv

\* The invariant is about the variables only.
LEMMA UnchangedIInv ==
    ASSUME IInv, UNCHANGED vars PROVE IInv'
<1> USE DEF vars, device, pool, input, threads
<1>1. Types'
  BY DEF IInv, Types
<1>2. CallFits' /\ MutexesHeld'
  BY DEF IInv, CallFits, MutexesHeld
<1>3. References' /\ ReadState' /\ Closing'
  BY DEF IInv, References, ReadState, Closing, PastFlush
<1>4. Permits'
  BY DEF IInv, Permits, Held, Submitting
<1>. QED
  BY <1>1, <1>2, <1>3, <1>4 DEF IInv

\* Every step of a call, of the core or of a completion keeps the invariant.
LEMMA NextIInv ==
    ASSUME IInv, [Next]_vars PROVE IInv'
<1>1. ASSUME NEW p \in Processes, Step(p) PROVE IInv'
  <2>1. p \in Threads
    BY DEF Threads
  <2>. QED
    BY <1>1, <2>1, TakePermitIInv, PrepareWriteIInv, SubmitWriteIInv,
       LockReaderIInv, WaitForReadIInv, TakeDataIInv, ClearErrorsIInv,
       SubmitReadIInv, LockAllIInv, DrawDownIInv, FlushErrorsIInv, ReleaseIInv
       DEF Step
<1>2. CASE CoreStep
  <2>1. Core \in Threads
    BY DEF Threads
  <2>. QED
    BY <1>2, <2>1, LockAllIInv, DrawDownIInv, DisconnectIInv, PostResetIInv
       DEF CoreStep
<1>3. ASSUME NEW p \in Processes,
             Open(p) \/ StartWrite(p) \/ StartRead(p) \/ Flush(p) \/ Interrupted(p)
      PROVE  IInv'
  BY <1>3, OpenIInv, StartWriteIInv, StartReadIInv, FlushIInv, InterruptedIInv
<1>4. ASSUME NEW error \in {"none", "EIO"},
             CompleteRead(error) \/ \E zero \in BOOLEAN : CompleteWrite(zero, error)
      PROVE  IInv'
  BY <1>4, CompleteReadIInv, CompleteWriteIInv
<1>5. CASE PostPermit \/ Probe \/ Unplug \/ Suspend \/ PreReset
  BY <1>5, PostPermitIInv, ProbeIInv, UnplugIInv, SuspendIInv, PreResetIInv
<1>. QED
  BY <1>1, <1>2, <1>3, <1>4, <1>5, UnchangedIInv DEF Next

\* The invariant holds in every state, of any number of processes and permits.
THEOREM VscInvariant == Spec => []IInv
<1>1. Init => IInv
  BY InitIInv
<1>2. IInv /\ [Next]_vars => IInv'
  BY NextIInv
<1>. QED
  BY <1>1, <1>2, PTL DEF Spec

-----------------------------------------------------------------------------
(* What follows from it                                                     *)

\* Nothing refers to a structure that was freed.
LEMMA IdleWhenFreed ==
    ASSUME IInv, freed
    PROVE  /\ open = {} /\ ~interface /\ call[Core] = "none"
           /\ sent = 0 /\ sentZero = 0 /\ posting = 0 /\ ~reading
<1>1. open = {} /\ ~interface
  BY InUse
<1>. QED
  BY <1>1 DEF IInv, References

\* Every variable keeps its type: limit_sem, bulk_out_urb_head and what is in
\* flight stay within WRITES_IN_FLIGHT, and kref within one for each process
\* and one for the interface.
THEOREM TypeCorrect == Spec => []TypeOK
<1>1. ASSUME IInv PROVE TypeOK
  <2> USE <1>1 DEF IInv, Types
  <2>1. kref \in 0..(Cardinality(Processes) + 1)
    <3>1. Cardinality(open) \in 0..Cardinality(Processes) /\ Cardinality(Processes) \in Nat
      BY CountOfPart, VscDriverAssumption
    <3>. QED
      BY <3>1 DEF References
  <2>2. limit_sem \in 0..WRITES_IN_FLIGHT /\ urbs \in 0..WRITES_IN_FLIGHT
    BY DEF Permits
  <2>3. /\ sent \in 0..WRITES_IN_FLIGHT /\ sentZero \in 0..WRITES_IN_FLIGHT
        /\ posting \in 0..WRITES_IN_FLIGHT
    <3>1. CASE freed
      BY <3>1, IdleWhenFreed, VscDriverAssumption
    <3>2. CASE ~freed
      <4>1. Held("prepare") \in Nat /\ Held("submitWrite") \in Nat
        BY CountOfPart, VscDriverAssumption DEF Held
      <4>. QED
        BY <3>2, <4>1 DEF Permits
    <3>. QED
      BY <3>1, <3>2
  <2>. QED
    BY <2>1, <2>2, <2>3 DEF TypeOK
<1>. QED
  BY <1>1, VscInvariant, PTL

\* Permits and URBs are conserved through every exit of the two writes, through
\* their completions and through what is killed.  That the holder of a permit
\* finds an URB follows by counting: zero-copy writes hold permits without URBs.
THEOREM PermitsAreConserved == Spec => []PermitsConserved
<1>1. ASSUME IInv PROVE PermitsConserved
  <2> SUFFICES ASSUME ~freed PROVE PermitsConserved
    BY DEF PermitsConserved
  <2> DEFINE At(label) == {p \in Processes : pc[p] = label}
  <2>1. /\ limit_sem + Held("prepare") + Held("submitWrite") + sent + sentZero + posting
              = WRITES_IN_FLIGHT
        /\ urbs + sent + Cardinality(Submitting) = WRITES_IN_FLIGHT
    BY <1>1 DEF IInv, Permits
  <2>2. /\ limit_sem \in Nat /\ urbs \in Nat
        /\ sent \in Nat /\ sentZero \in Nat /\ posting \in Nat
    BY <1>1 DEF IInv, Types
  <2>3. Cardinality(Submitting) <= Held("submitWrite") /\ Held("submitWrite") \in Nat
    <3>1. IsFiniteSet(At("submitWrite")) /\ Cardinality(At("submitWrite")) \in Nat
      BY CountOfPart, VscDriverAssumption
    <3>2. Submitting \in SUBSET At("submitWrite")
      BY DEF Submitting
    <3>3. /\ Cardinality(Submitting) \in 0..Cardinality(At("submitWrite"))
          /\ Cardinality(At("submitWrite")) \in Nat
      BY <3>1, <3>2, CountOfPart
    <3>. QED
      BY <3>3 DEF Held
  <2>4. Cardinality(Submitting) \in Nat
    <3>1. Submitting \in SUBSET Processes
      BY DEF Submitting
    <3>. QED
      BY <3>1, CountOfPart, VscDriverAssumption
  <2>5. ASSUME NEW p \in Processes, pc[p] = "prepare" PROVE urbs > 0
    <3>1. Held("prepare") \in Nat /\ Held("prepare") # 0
      BY <2>5, CountOfPart, VscDriverAssumption DEF Held
    <3>. QED
      BY <2>1, <2>2, <2>3, <2>4, <3>1, VscDriverAssumption
  <2>. QED
    BY <2>1, <2>5 DEF PermitsConserved, Submitting
<1>. QED
  BY <1>1, VscInvariant, PTL

\* ongoing_read is set exactly while the URB is in flight or about to be, no
\* data wait then, and of several readers one at most is past io_read_mutex.
THEOREM ReadIsAlone == Spec => []ReadAlone
<1>1. ASSUME IInv PROVE ReadAlone
  <2>1. ASSUME NEW p \in Processes, NEW q \in Processes, p # q,
               pc[p] \in {"buffer", "clear", "submitRead"}
        PROVE  pc[q] \notin {"retry", "buffer", "clear", "submitRead"}
    <3>1. p \in Threads /\ q \in Threads
      BY DEF Threads
    <3>. QED
      BY <1>1, <2>1, <3>1 DEF IInv, MutexesHeld
  <2>. QED
    BY <1>1, <2>1 DEF IInv, ReadState, ReadAlone
<1>. QED
  BY <1>1, VscInvariant, PTL

\* The structure is freed under nobody, and who opens the device after the last
\* close finds nothing in flight and no error that the flush has missed.
THEOREM LastCloseIsClean == Spec => []LastClose
<1>1. ASSUME IInv PROVE LastClose
  <2>1. FreedUnused
    <3> SUFFICES ASSUME freed PROVE FreedUnused
      BY DEF FreedUnused
    <3>1. pc[Core] = "idle"
      BY <1>1, IdleWhenFreed DEF IInv, CallFits
    <3>. QED
      BY <1>1, <3>1, IdleWhenFreed DEF FreedUnused
  <2>2. CleanSlate
    BY <1>1 DEF IInv, Closing, CleanSlate
  <2>. QED
    BY <2>1, <2>2 DEF LastClose
<1>. QED
  BY <1>1, VscInvariant, PTL

=============================================================================
