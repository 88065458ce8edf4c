---------------------------- MODULE NcFifo_proofs ----------------------------
(***************************************************************************)
(* Proofs that the host's lists of user parameters stay in step with what  *)
(* the device holds (NcFifo), for any number of threads, fifos, consumers  *)
(* and calls, chains of graphs and refused triggers included.              *)
(*                                                                         *)
(* Both halves of ParametersKept are inductive once it is known where the  *)
(* threads are: which call each makes, who sleeps with the mutex of a fifo *)
(* and whose trigger the monitor answers.  TriggersHaveInput is not, for a *)
(* parameter is taken from the list before its trigger is sent: what is    *)
(* inductive is that the device has an element for every parameter on the  *)
(* way from the tensor's writer to the trigger (InputsFor).                *)
(***************************************************************************)
EXTENDS MCNcFifo, Counting, SequenceTheorems

\* Where a thread is fits the call it makes.
CallsFit ==
    \A t \in Threads :
        /\ pc[t] # "idle" => call[t] \in app.calls[t]
        /\ pc[t] = "push" => call[t].op \in {"write", "writequeue"}
        /\ pc[t] \in {"queue", "drain", "result", "trigger", "sent"}
              => call[t].op \in {"queue", "writequeue"}
        /\ pc[t] \in {"read", "pop"} => call[t].op = "read"

\* The mutex of a fifo is kept over a step by the thread that drains it, and the
\* monitor's by the thread that waits for the answer.
MutexesKept ==
    /\ \A f \in Fifos, t \in Threads : fifo_mutex[f] = t <=> pc[t] = "drain" /\ call[t].fi = f
    /\ \A t \in Threads : graph_streamm = t <=> pc[t] = "sent"
    /\ answer # None => graph_streamm # None

\* The threads that have written to f and not pushed the parameter; that have
\* taken one from f, or pushed one to f, and have no trigger at the device yet;
\* that have a result of f and not popped its parameter.
Pushing(f)  == Queueing(f, {"push"})
Taking(f)   == Unanswered(Queueing(f, {"result", "trigger", "sent"}))
Promising(f) == Unanswered(Producing(f, {"trigger", "sent"}))
Popping(f)  == {t \in Producing(f, {"pop"}) : call[t].op = "read"}

\* The triggers that are to empty f, and those that are to fill it.
From(f) == {trigger \in [fi : Fifos, fo : Fifos] : trigger.fi = f}
Into(f) == {trigger \in [fi : Fifos, fo : Fifos] : trigger.fo = f}

\* For each parameter that a trigger may still be sent for, the device has an
\* element.
InputsFor(f) ==
    Len(elems[f]) >= Cardinality(Pushing(f)) + Len(user_param_in[f]) + Cardinality(Taking(f))
                     + CountIn(triggers, From(f))

\* The body of ReaderFindsParam.
ResultsFor(f) ==
    Len(user_param_out[f]) >= Len(stream[f]) + Cardinality(Popping(f))
                              + Cardinality(Promising(f)) + CountIn(triggers, Into(f))

Inputs == \A f \in Writable : InputsFor(f)
Results == \A f \in ReadAccess : ResultsFor(f)

IInv == TypeOK /\ CallsFit /\ MutexesKept /\ CountsAgree /\ Inputs /\ Results

-----------------------------------------------------------------------------
(* What a step changes                                                      *)

\* The fifos of a call, by where the thread that makes it is.
LEMMA FifosOfCall ==
    ASSUME TypeOK, CallsFit, NEW t \in Threads, pc[t] # "idle"
    PROVE  /\ call[t] \in app.calls[t] /\ call[t].fi \in Fifos /\ call[t].fo \in Fifos
           /\ pc[t] = "push" => call[t].fi \in Writable
           /\ pc[t] # "push" => call[t].fo \in ReadAccess
<1>1. call[t] \in app.calls[t] /\ app \in Applications
  BY DEF TypeOK, CallsFit
<1>2. call[t] \in FifoCalls
  BY <1>1, NcFifoAssumption DEF Uses
<1>3. call[t].fi \in Fifos /\ call[t].fo \in Fifos
  BY <1>2 DEF FifoCalls
<1>4. call[t].op \in {"write", "writequeue"} => call[t].fi \notin ReadAccess
  BY <1>1, NcFifoAssumption
<1>5. call[t].op \in {"queue", "writequeue", "read"} => call[t].fo \in ReadAccess
  BY <1>1, NcFifoAssumption
<1>. QED
  BY <1>3, <1>4, <1>5 DEF TypeOK, CallsFit, Writable

\* Every fifo has a consumer.
LEMMA SomeConsumer ==
    ASSUME TypeOK, NEW f \in Fifos
    PROVE  app.consumerCnt[f] \in Nat /\ app.consumerCnt[f] >= 1
  BY NcFifoAssumption DEF TypeOK, Uses

\* One consumer less, or all of them anew: never none while the mutex is free.
LEMMA ConsumersLeft ==
    ASSUME TypeOK, NEW f \in Fifos, NEW read \in {0, 1}, Consumed(f, read)
    PROVE  /\ api_read_element' \in [Fifos -> {0, 1}]
           /\ consumers_remaining' \in [Fifos -> Nat]
           /\ consumers_remaining'[f] \in 1..app.consumerCnt[f]
           /\ \A g \in Fifos \ {f} : consumers_remaining'[g] = consumers_remaining[g]
<1>1. /\ consumers_remaining \in [Fifos -> Nat] /\ api_read_element \in [Fifos -> {0, 1}]
      /\ consumers_remaining[f] \in 0..app.consumerCnt[f]
      /\ app.consumerCnt[f] \in Nat /\ app.consumerCnt[f] >= 1
  BY SomeConsumer DEF TypeOK
<1>. QED
  BY <1>1 DEF Consumed

\* The lists of a fifo are sequences, before a step and after it.
LEMMA ListTypes ==
    ASSUME TypeOK, TypeOK', NEW f \in Fifos
    PROVE  /\ user_param_in[f] \in Seq(Params) /\ user_param_out[f] \in Seq(Params)
           /\ user_param_in'[f] \in Seq(Params) /\ user_param_out'[f] \in Seq(Params)
           /\ elems[f] \in Seq(Nat) /\ stream[f] \in Seq(Nat)
           /\ elems'[f] \in Seq(Nat) /\ stream'[f] \in Seq(Nat)
<1>1. /\ user_param_in \in [Fifos -> Seq(Params)] /\ user_param_out \in [Fifos -> Seq(Params)]
      /\ elems \in [Fifos -> Seq(Nat)] /\ stream \in [Fifos -> Seq(Nat)]
  BY DEF TypeOK
<1>2. /\ user_param_in' \in [Fifos -> Seq(Params)] /\ user_param_out' \in [Fifos -> Seq(Params)]
      /\ elems' \in [Fifos -> Seq(Nat)] /\ stream' \in [Fifos -> Seq(Nat)]
  BY DEF TypeOK
<1>. QED
  BY <1>1, <1>2

\* The counts of a fifo, and of the triggers of a kind, are numbers.
LEMMA CountTypes ==
    ASSUME TypeOK
    PROVE  /\ \A f \in Fifos : write_count[f] \in Nat /\ consumed_by_graph[f] \in Nat
           /\ \A S : CountIn(triggers, S) \in Nat
<1>1. triggers \in Seq([fi : Fifos, fo : Fifos])
  BY DEF TypeOK
<1>2. write_count \in [Fifos -> Nat] /\ consumed_by_graph \in [Fifos -> Nat]
  BY DEF TypeOK
<1>. QED
  BY <1>1, <1>2, CountInType

Change(before, after) == (IF after THEN 1 ELSE 0) - (IF before THEN 1 ELSE 0)

\* No thread but t goes anywhere, or has its trigger answered.
OnlyMoves(t) ==
    \A q \in Threads \ {t} : /\ pc'[q] = pc[q] /\ call'[q] = call[q]
                             /\ pc[q] = "sent" => answer' = answer

\* t holds a parameter it has taken, or has pushed one, and its trigger is not answered.
Undecided(t) == pc[t] \in {"result", "trigger"} \/ (pc[t] = "sent" /\ answer = None)
Sending(t)   == pc[t] = "trigger" \/ (pc[t] = "sent" /\ answer = None)

\* The four sets, as predicates of one thread, before a step and after it.
LEMMA Members ==
    ASSUME NEW t \in Threads, NEW f
    PROVE  /\ t \in Pushing(f) <=> pc[t] = "push" /\ call[t].fi = f
           /\ t \in Taking(f) <=> Undecided(t) /\ call[t].fi = f
           /\ t \in Promising(f) <=> Sending(t) /\ call[t].fo = f
           /\ t \in Popping(f) <=> pc[t] = "pop" /\ call[t].fo = f /\ call[t].op = "read"
           /\ t \in Pushing(f)' <=> pc'[t] = "push" /\ call'[t].fi = f
           /\ t \in Taking(f)' <=> Undecided(t)' /\ call'[t].fi = f
           /\ t \in Promising(f)' <=> Sending(t)' /\ call'[t].fo = f
           /\ t \in Popping(f)' <=> pc'[t] = "pop" /\ call'[t].fo = f /\ call'[t].op = "read"
  BY DEF Pushing, Taking, Promising, Popping, Queueing, Producing, Unanswered,
         Undecided, Sending

\* A step of the device is a step of no thread.
LEMMA NobodyMoves ==
    ASSUME NEW f
    PROVE  /\ None \notin Pushing(f) /\ None \notin Taking(f)
           /\ None \notin Promising(f) /\ None \notin Popping(f)
           /\ None \notin Pushing(f)' /\ None \notin Taking(f)'
           /\ None \notin Promising(f)' /\ None \notin Popping(f)'
  BY NcFifoAssumption
     DEF Pushing, Taking, Promising, Popping, Queueing, Producing, Unanswered

\* When one thread moves, the threads of a kind are as many, one more or one less.
LEMMA ThreadsMove ==
    ASSUME NEW S \in SUBSET Threads, NEW T \in SUBSET Threads, NEW t,
           \A q \in Threads \ {t} : q \in S <=> q \in T
    PROVE  /\ Cardinality(S) \in Nat /\ Cardinality(T) \in Nat
           /\ Cardinality(T) = Cardinality(S) + Change(t \in S, t \in T)
<1>1. CASE t \in Threads
  BY <1>1, CountOneMoves, NcFifoAssumption DEF Change
<1>2. CASE t \notin Threads
  <2>1. S = T /\ t \notin S
    BY <1>2
  <2>. QED
    BY <2>1, CountOfPart, NcFifoAssumption DEF Change
<1>. QED
  BY <1>1, <1>2

\* What t writes, pushes, takes and sends keeps the elements of f enough.
InputsBalance(t, f) ==
    Len(elems'[f]) - Len(elems[f])
       >= Change(t \in Pushing(f), t \in Pushing(f)')
          + (Len(user_param_in'[f]) - Len(user_param_in[f]))
          + Change(t \in Taking(f), t \in Taking(f)')
          + (CountIn(triggers', From(f)) - CountIn(triggers, From(f)))

\* InputsFor is kept by a step whose changes of the four counts are in balance.
LEMMA InputsKept ==
    ASSUME TypeOK, TypeOK', Inputs, NEW t, OnlyMoves(t), NEW f \in Writable,
           InputsBalance(t, f)
    PROVE  InputsFor(f)'
<1> DEFINE x == Change(t \in Pushing(f), t \in Pushing(f)')
           y == Change(t \in Taking(f), t \in Taking(f)')
<1>1. \A q \in Threads \ {t} : /\ q \in Pushing(f) <=> q \in Pushing(f)'
                               /\ q \in Taking(f) <=> q \in Taking(f)'
  BY Members DEF OnlyMoves, Undecided
<1>2. /\ Pushing(f) \in SUBSET Threads /\ Pushing(f)' \in SUBSET Threads
      /\ Taking(f) \in SUBSET Threads /\ Taking(f)' \in SUBSET Threads
  BY DEF Pushing, Taking, Queueing, Unanswered
<1>3. /\ Cardinality(Pushing(f)) \in Nat /\ Cardinality(Pushing(f)') \in Nat
      /\ Cardinality(Pushing(f)') = Cardinality(Pushing(f)) + x
  BY <1>1, <1>2, ThreadsMove
<1>4. /\ Cardinality(Taking(f)) \in Nat /\ Cardinality(Taking(f)') \in Nat
      /\ Cardinality(Taking(f)') = Cardinality(Taking(f)) + y
  BY <1>1, <1>2, ThreadsMove
<1>5. CountIn(triggers, From(f)) \in Nat /\ CountIn(triggers', From(f)) \in Nat
  <2>1. triggers' \in Seq([fi : Fifos, fo : Fifos])
    BY DEF TypeOK
  <2>. QED
    BY <2>1, CountTypes, CountInType
<1>6. /\ Len(elems[f]) \in Nat /\ Len(elems'[f]) \in Nat
      /\ Len(user_param_in[f]) \in Nat /\ Len(user_param_in'[f]) \in Nat
  <2>1. f \in Fifos
    BY DEF Writable
  <2>. QED
    OBVIOUS
<1>7. /\ x \in Int
      /\ y \in Int
  BY DEF Change
<1>8. InputsFor(f)
  BY DEF Inputs
<1>9. From(f)' = From(f)
  OBVIOUS
<1> DEFINE l == Len(elems[f])  l2 == Len(elems'[f])
           q == Len(user_param_in[f])  q2 == Len(user_param_in'[f])
           p == Cardinality(Pushing(f))  p2 == Cardinality(Pushing(f)')
           r == Cardinality(Taking(f))  r2 == Cardinality(Taking(f)')
           n == CountIn(triggers, From(f))  n2 == CountIn(triggers', From(f))
<1>10. /\ l \in Nat /\ p \in Nat /\ q \in Nat /\ r \in Nat /\ n \in Nat
       /\ l2 \in Nat /\ p2 \in Nat /\ q2 \in Nat /\ r2 \in Nat /\ n2 \in Nat
  BY <1>3, <1>4, <1>5
<1>11. l >= p + q + r + n /\ p2 = p + x /\ r2 = r + y
  BY <1>3, <1>4, <1>8 DEF InputsFor
<1>12. l2 - l >= x + (q2 - q) + y + (n2 - n)
  BY DEF InputsBalance
<1>13. l2 >= p2 + q2 + r2 + n2
  <2>. HIDE DEF x, y, l, l2, p, p2, q, q2, r, r2, n, n2
  <2>. QED
    BY <1>7, <1>10, <1>11, <1>12
<1>. QED
  BY <1>13 DEF InputsFor

\* What t reads, pops, pushes and sends keeps the parameters of f enough.
ResultsBalance(t, f) ==
    Len(user_param_out'[f]) - Len(user_param_out[f])
       >= (Len(stream'[f]) - Len(stream[f]))
          + Change(t \in Popping(f), t \in Popping(f)')
          + Change(t \in Promising(f), t \in Promising(f)')
          + (CountIn(triggers', Into(f)) - CountIn(triggers, Into(f)))

\* So is ResultsFor.
LEMMA ResultsKept ==
    ASSUME TypeOK, TypeOK', Results, NEW t, OnlyMoves(t), NEW f \in ReadAccess,
           ResultsBalance(t, f)
    PROVE  ResultsFor(f)'
<1> DEFINE x == Change(t \in Popping(f), t \in Popping(f)')
           y == Change(t \in Promising(f), t \in Promising(f)')
<1>1. \A q \in Threads \ {t} : /\ q \in Popping(f) <=> q \in Popping(f)'
                               /\ q \in Promising(f) <=> q \in Promising(f)'
  BY Members DEF OnlyMoves, Sending
<1>2. /\ Popping(f) \in SUBSET Threads /\ Popping(f)' \in SUBSET Threads
      /\ Promising(f) \in SUBSET Threads /\ Promising(f)' \in SUBSET Threads
  BY DEF Popping, Promising, Producing, Unanswered
<1>3. /\ Cardinality(Popping(f)) \in Nat /\ Cardinality(Popping(f)') \in Nat
      /\ Cardinality(Popping(f)') = Cardinality(Popping(f)) + x
  BY <1>1, <1>2, ThreadsMove
<1>4. /\ Cardinality(Promising(f)) \in Nat /\ Cardinality(Promising(f)') \in Nat
      /\ Cardinality(Promising(f)') = Cardinality(Promising(f)) + y
  BY <1>1, <1>2, ThreadsMove
<1>5. CountIn(triggers, Into(f)) \in Nat /\ CountIn(triggers', Into(f)) \in Nat
  <2>1. triggers' \in Seq([fi : Fifos, fo : Fifos])
    BY DEF TypeOK
  <2>. QED
    BY <2>1, CountTypes, CountInType
<1>6. /\ Len(user_param_out[f]) \in Nat /\ Len(user_param_out'[f]) \in Nat
      /\ Len(stream[f]) \in Nat /\ Len(stream'[f]) \in Nat
  <2>1. f \in Fifos
    BY NcFifoAssumption
  <2>. QED
    OBVIOUS
<1>7. /\ x \in Int
      /\ y \in Int
  BY DEF Change
<1>8. ResultsFor(f)
  BY DEF Results
<1>9. Into(f)' = Into(f)
  OBVIOUS
<1> DEFINE l == Len(user_param_out[f])  l2 == Len(user_param_out'[f])
           q == Len(stream[f])  q2 == Len(stream'[f])
           p == Cardinality(Popping(f))  p2 == Cardinality(Popping(f)')
           r == Cardinality(Promising(f))  r2 == Cardinality(Promising(f)')
           n == CountIn(triggers, Into(f))  n2 == CountIn(triggers', Into(f))
<1>10. /\ l \in Nat /\ p \in Nat /\ q \in Nat /\ r \in Nat /\ n \in Nat
       /\ l2 \in Nat /\ p2 \in Nat /\ q2 \in Nat /\ r2 \in Nat /\ n2 \in Nat
  BY <1>3, <1>4, <1>5
<1>11. l >= q + p + r + n /\ p2 = p + x /\ r2 = r + y
  BY <1>3, <1>4, <1>8 DEF ResultsFor
<1>12. l2 - l >= (q2 - q) + x + y + (n2 - n)
  BY DEF ResultsBalance
<1>13. l2 >= q2 + p2 + r2 + n2
  <2>. HIDE DEF x, y, l, l2, p, p2, q, q2, r, r2, n, n2
  <2>. QED
    BY <1>7, <1>10, <1>11, <1>12
<1>. QED
  BY <1>13 DEF ResultsFor

\* A fifo in whose lists t changes nothing.
LEMMA InputsSame ==
    ASSUME TypeOK, TypeOK', Inputs, NEW t, OnlyMoves(t), NEW f \in Writable,
           elems'[f] = elems[f], Len(user_param_in'[f]) = Len(user_param_in[f]),
           CountIn(triggers', From(f)) = CountIn(triggers, From(f)),
           t \in Pushing(f)' => t \in Pushing(f), t \in Taking(f)' => t \in Taking(f)
    PROVE  InputsFor(f)'
<1>1. f \in Fifos
  BY DEF Writable
<1>2. Len(elems[f]) \in Nat /\ Len(user_param_in[f]) \in Nat
  OBVIOUS
<1>3. CountIn(triggers, From(f)) \in Nat
  BY CountTypes
<1>4. InputsBalance(t, f)
  <2> DEFINE x == Change(t \in Pushing(f), t \in Pushing(f)')
             y == Change(t \in Taking(f), t \in Taking(f)')
  <2>1. x <= 0 /\ y <= 0 /\ x \in Int /\ y \in Int
    BY DEF Change
  <2>. HIDE DEF x, y
  <2>2. 0 >= x + 0 + y + 0
    BY <2>1
  <2>3. /\ Len(elems'[f]) - Len(elems[f]) = 0 /\ Len(user_param_in'[f]) - Len(user_param_in[f]) = 0
        /\ CountIn(triggers', From(f)) - CountIn(triggers, From(f)) = 0
    BY <1>3
  <2>. QED
    BY <2>2, <2>3 DEF InputsBalance, x, y
<1>. QED
  BY <1>4, InputsKept

\* A thread that neither writes, takes a parameter nor sends a trigger.
LEMMA InputsStay ==
    ASSUME TypeOK, TypeOK', Inputs, NEW t \in Threads, OnlyMoves(t),
           UNCHANGED <<elems, user_param_in, triggers>>,
           pc'[t] # "push", Undecided(t)' => Undecided(t) /\ call'[t] = call[t]
    PROVE  Inputs'
<1> SUFFICES ASSUME NEW f \in Writable PROVE InputsFor(f)'
  BY DEF Inputs
<1>1. (t \in Pushing(f)' => t \in Pushing(f)) /\ (t \in Taking(f)' => t \in Taking(f))
  BY Members
<1>2. elems' = elems /\ user_param_in' = user_param_in /\ triggers' = triggers
  OBVIOUS
<1>. QED
  BY <1>1, InputsSame

\* A fifo in whose lists t changes nothing.
LEMMA ResultsSame ==
    ASSUME TypeOK, TypeOK', Results, NEW t, OnlyMoves(t), NEW f \in ReadAccess,
           user_param_out'[f] = user_param_out[f], stream'[f] = stream[f],
           CountIn(triggers', Into(f)) = CountIn(triggers, Into(f)),
           t \in Popping(f)' => t \in Popping(f), t \in Promising(f)' => t \in Promising(f)
    PROVE  ResultsFor(f)'
<1>1. f \in Fifos
  BY NcFifoAssumption
<1>2. Len(user_param_out[f]) \in Nat /\ Len(stream[f]) \in Nat
  OBVIOUS
<1>3. CountIn(triggers, Into(f)) \in Nat
  BY CountTypes
<1>4. ResultsBalance(t, f)
  <2> DEFINE x == Change(t \in Popping(f), t \in Popping(f)')
             y == Change(t \in Promising(f), t \in Promising(f)')
  <2>1. x <= 0 /\ y <= 0 /\ x \in Int /\ y \in Int
    BY DEF Change
  <2>. HIDE DEF x, y
  <2>2. 0 >= 0 + x + y + 0
    BY <2>1
  <2>3. /\ Len(user_param_out'[f]) - Len(user_param_out[f]) = 0 /\ Len(stream'[f]) - Len(stream[f]) = 0
        /\ CountIn(triggers', Into(f)) - CountIn(triggers, Into(f)) = 0
    BY <1>3
  <2>. QED
    BY <2>2, <2>3 DEF ResultsBalance, x, y
<1>. QED
  BY <1>4, ResultsKept

\* A thread that neither reads, pushes or pops a parameter nor sends a trigger.
LEMMA ResultsStay ==
    ASSUME TypeOK, TypeOK', Results, NEW t \in Threads, OnlyMoves(t),
           UNCHANGED <<user_param_out, stream, triggers>>,
           pc'[t] # "pop", Sending(t)' => Sending(t) /\ call'[t] = call[t]
    PROVE  Results'
<1> SUFFICES ASSUME NEW f \in ReadAccess PROVE ResultsFor(f)'
  BY DEF Results
<1>1. (t \in Popping(f)' => t \in Popping(f)) /\ (t \in Promising(f)' => t \in Promising(f))
  BY Members
<1>2. user_param_out' = user_param_out /\ stream' = stream /\ triggers' = triggers
  OBVIOUS
<1>. QED
  BY <1>1, ResultsSame

\* The lists of all fifos, when one grows at its end.
LEMMA ListGrows ==
    ASSUME NEW T, NEW lists1 \in [Fifos -> Seq(T)], NEW f \in Fifos, NEW e \in T, NEW lists2,
           lists2 = [lists1 EXCEPT ![f] = Append(lists1[f], e)]
    PROVE  /\ lists2 \in [Fifos -> Seq(T)]
           /\ Len(lists1[f]) \in Nat /\ Len(lists2[f]) = Len(lists1[f]) + 1
           /\ \A g \in Fifos \ {f} : lists2[g] = lists1[g]
  OBVIOUS

\* The same when one loses its head.
LEMMA ListShrinks ==
    ASSUME NEW T, NEW lists1 \in [Fifos -> Seq(T)], NEW f \in Fifos, lists1[f] # <<>>, NEW lists2,
           lists2 = [lists1 EXCEPT ![f] = Tail(lists1[f])]
    PROVE  /\ lists2 \in [Fifos -> Seq(T)]
           /\ Head(lists1[f]) \in T
           /\ Len(lists1[f]) \in Nat /\ Len(lists2[f]) = Len(lists1[f]) - 1
           /\ \A g \in Fifos \ {f} : lists2[g] = lists1[g]
<1>1. lists1[f] \in Seq(T) /\ Len(lists1[f]) >= 1
  OBVIOUS
<1>2. Tail(lists1[f]) \in Seq(T) /\ Len(Tail(lists1[f])) = Len(lists1[f]) - 1
  OBVIOUS
<1>3. Head(lists1[f]) \in T
  OBVIOUS
<1>. QED
  OBVIOUS

\* popUserParam takes the oldest parameter, if there is one.
LEMMA ParamPopped ==
    ASSUME NEW lists1 \in [Fifos -> Seq(Params)], NEW f \in Fifos, NEW lists2,
           lists2 = [lists1 EXCEPT ![f] = popUserParam(lists1[f])]
    PROVE  /\ lists2 \in [Fifos -> Seq(Params)]
           /\ PoppedParam(lists1[f]) \in Params
           /\ \A g \in Fifos \ {f} : lists2[g] = lists1[g]
           /\ Len(lists1[f]) \in Nat
           /\ \/ Len(lists1[f]) = 0 /\ lists2[f] = lists1[f]
              \/ Len(lists1[f]) # 0 /\ Len(lists2[f]) = Len(lists1[f]) - 1
<1>1. CASE lists1[f] = <<>>
  <2>1. lists2 = lists1 /\ Len(lists1[f]) = 0 /\ PoppedParam(lists1[f]) = None
    BY <1>1 DEF popUserParam, PoppedParam
  <2>. QED
    BY <2>1 DEF Params
<1>2. CASE lists1[f] # <<>>
  <2>1. lists2 = [lists1 EXCEPT ![f] = Tail(lists1[f])] /\ PoppedParam(lists1[f]) = Head(lists1[f])
    BY <1>2 DEF popUserParam, PoppedParam
  <2>2. lists1[f] \in Seq(Params) /\ Len(lists1[f]) \in Nat /\ Len(lists1[f]) # 0
    BY <1>2
  <2>3. Tail(lists1[f]) \in Seq(Params) /\ Len(Tail(lists1[f])) = Len(lists1[f]) - 1
    BY <2>2
  <2>4. Head(lists1[f]) \in Params
    BY <2>2
  <2>5. /\ lists2 \in [Fifos -> Seq(Params)] /\ lists2[f] = Tail(lists1[f])
        /\ \A g \in Fifos \ {f} : lists2[g] = lists1[g]
    BY <2>1, <2>3
  <2>. QED
    BY <2>1, <2>2, <2>3, <2>4
<1>. QED
  BY <1>1, <1>2

\* TakeParam: one parameter less in the list, unless the call ends with
\* NC_UNAUTHORIZED because no element is left.
LEMMA ParamTaken ==
    ASSUME TypeOK, NEW t \in Threads, NEW f \in Fifos, TakeParam(t, f)
    PROVE  /\ pc' \in [Threads -> {"idle", "push", "queue", "drain", "result", "trigger",
                                   "sent", "read", "pop"}]
           /\ \A q \in Threads \ {t} : pc'[q] = pc[q]
           /\ hand' \in [Threads -> Params]
           /\ consumed_by_graph' \in [Fifos -> Nat]
           /\ user_param_in' \in [Fifos -> Seq(Params)]
           /\ \A g \in Fifos \ {f} : /\ user_param_in'[g] = user_param_in[g]
                                     /\ consumed_by_graph'[g] = consumed_by_graph[g]
           /\ Len(user_param_in[f]) \in Nat
           /\ \/ Len(user_param_in[f]) = 0 /\ user_param_in'[f] = user_param_in[f]
              \/ /\ Len(user_param_in[f]) # 0
                 /\ Len(user_param_in'[f]) = Len(user_param_in[f]) - 1
           /\ \/ /\ NoElement(f) /\ pc'[t] = "idle"
                 /\ consumed_by_graph'[f] = consumed_by_graph[f]
              \/ /\ ~NoElement(f) /\ pc'[t] = "result"
                 /\ consumed_by_graph'[f] = consumed_by_graph[f] + 1
<1>1. /\ user_param_in' = [user_param_in EXCEPT ![f] = popUserParam(user_param_in[f])]
      /\ \/ NoElement(f) /\ Goes(t, "idle") /\ UNCHANGED <<consumed_by_graph, hand>>
         \/ /\ ~NoElement(f) /\ Goes(t, "result") /\ Holds(t, PoppedParam(user_param_in[f]))
            /\ consumed_by_graph' = [consumed_by_graph EXCEPT ![f] = consumed_by_graph[f] + 1]
  BY DEF TakeParam
<1>2. user_param_in \in [Fifos -> Seq(Params)]
  BY DEF TypeOK
<1>3. /\ user_param_in' \in [Fifos -> Seq(Params)]
      /\ PoppedParam(user_param_in[f]) \in Params
      /\ \A g \in Fifos \ {f} : user_param_in'[g] = user_param_in[g]
      /\ Len(user_param_in[f]) \in Nat
      /\ \/ Len(user_param_in[f]) = 0 /\ user_param_in'[f] = user_param_in[f]
         \/ Len(user_param_in[f]) # 0 /\ Len(user_param_in'[f]) = Len(user_param_in[f]) - 1
  <2>1. user_param_in \in [Fifos -> Seq(Params)] /\ user_param_in' = [user_param_in EXCEPT ![f] = popUserParam(user_param_in[f])]
    BY <1>1, <1>2
  <2>2. user_param_in' \in [Fifos -> Seq(Params)]
    BY <2>1, ParamPopped
  <2>3. PoppedParam(user_param_in[f]) \in Params
    BY <2>1, ParamPopped
  <2>4. \A g \in Fifos \ {f} : user_param_in'[g] = user_param_in[g]
    BY <2>1
  <2>5. Len(user_param_in[f]) \in Nat
    OBVIOUS
  <2>6. \/ Len(user_param_in[f]) = 0 /\ user_param_in'[f] = user_param_in[f]
        \/ Len(user_param_in[f]) # 0 /\ Len(user_param_in'[f]) = Len(user_param_in[f]) - 1
    BY <2>1, ParamPopped
  <2>. QED
    BY <2>2, <2>3, <2>4, <2>6
<1>4. /\ pc \in [Threads -> {"idle", "push", "queue", "drain", "result", "trigger",
                             "sent", "read", "pop"}]
      /\ hand \in [Threads -> Params] /\ consumed_by_graph \in [Fifos -> Nat]
  BY DEF TypeOK
<1>5. CASE NoElement(f) /\ Goes(t, "idle") /\ UNCHANGED <<consumed_by_graph, hand>>
  BY <1>3, <1>4, <1>5 DEF Goes
<1>6. CASE /\ ~NoElement(f) /\ Goes(t, "result") /\ Holds(t, PoppedParam(user_param_in[f]))
           /\ consumed_by_graph' = [consumed_by_graph EXCEPT ![f] = consumed_by_graph[f] + 1]
  BY <1>3, <1>4, <1>6 DEF Goes, Holds
<1>. QED
  BY <1>1, <1>5, <1>6

\* There is a parameter for every element that is counted, so that who does not
\* get NC_UNAUTHORIZED has popped one.
LEMMA ParamsTakenAgree ==
    ASSUME TypeOK, CountsAgree, Inputs, TypeOK', NEW t \in Threads, OnlyMoves(t),
           pc[t] \in {"queue", "drain"}, call[t].fi \in Fifos, call'[t] = call[t],
           TakeParam(t, call[t].fi), UNCHANGED <<write_count, elems, triggers>>
    PROVE  CountsAgree' /\ Inputs'
<1> DEFINE fi == call[t].fi
<1>1. /\ \A g \in Fifos \ {fi} : /\ user_param_in'[g] = user_param_in[g]
                                /\ consumed_by_graph'[g] = consumed_by_graph[g]
      /\ Len(user_param_in[fi]) \in Nat
      /\ \/ Len(user_param_in[fi]) = 0 /\ user_param_in'[fi] = user_param_in[fi]
         \/ Len(user_param_in[fi]) # 0 /\ Len(user_param_in'[fi]) = Len(user_param_in[fi]) - 1
      /\ \/ /\ NoElement(fi) /\ pc'[t] = "idle"
            /\ consumed_by_graph'[fi] = consumed_by_graph[fi]
         \/ /\ ~NoElement(fi) /\ pc'[t] = "result"
            /\ consumed_by_graph'[fi] = consumed_by_graph[fi] + 1
  BY ParamTaken
<1>2. \A f \in Fifos : write_count[f] \in Nat /\ consumed_by_graph[f] \in Nat
  BY CountTypes
<1>3. /\ fi \in Fifos /\ write_count' = write_count
      /\ \A f \in Writable : write_count[f] = consumed_by_graph[f] + Len(user_param_in[f])
  BY DEF CountsAgree
<1>4. fi \in Writable => (NoElement(fi) <=> Len(user_param_in[fi]) = 0)
  BY <1>2, <1>3 DEF NoElement
<1>5. ASSUME NEW f \in Writable
      PROVE  write_count'[f] = consumed_by_graph'[f] + Len(user_param_in'[f])
  <2>1. f \in Fifos
    BY DEF Writable
  <2>2. CASE f = fi
    <3>1. write_count'[f] = write_count[f] /\ write_count[f] = consumed_by_graph[f] + Len(user_param_in[f])
      BY <1>3
    <3>2. CASE NoElement(fi)
      <4>1. Len(user_param_in[f]) = 0 /\ Len(user_param_in'[f]) = 0 /\ consumed_by_graph'[f] = consumed_by_graph[f]
        BY <1>1, <1>4, <2>2, <3>2
      <4>. QED
        BY <3>1, <4>1
    <3>3. CASE ~NoElement(fi)
      <4>1. /\ Len(user_param_in'[f]) = Len(user_param_in[f]) - 1 /\ Len(user_param_in[f]) \in Nat
            /\ consumed_by_graph'[f] = consumed_by_graph[f] + 1
        BY <1>1, <1>4, <2>2, <3>3
      <4> DEFINE n == Len(user_param_in[f])  n2 == Len(user_param_in'[f])
                 k == consumed_by_graph[f]  k2 == consumed_by_graph'[f]
      <4>2. n \in Nat /\ k \in Nat /\ n2 = n - 1 /\ k2 = k + 1
        BY <1>2, <2>1, <4>1
      <4>. HIDE DEF n, n2, k, k2
      <4>3. k + n = k2 + n2
        BY <4>2
      <4>. QED
        BY <3>1, <4>3 DEF n, n2, k, k2
    <3>. QED
      BY <3>2, <3>3
  <2>3. CASE f # fi
    BY <1>1, <1>3, <2>1, <2>3
  <2>. QED
    BY <2>2, <2>3
<1>6. ASSUME NEW f \in Writable PROVE InputsFor(f)'
  <2>1. f \in Fifos /\ t \notin Pushing(f) /\ t \notin Pushing(f)' /\ t \notin Taking(f)
    BY <1>1, Members DEF Writable, Undecided
  <2>2. CASE f # fi \/ NoElement(fi)
    <3>1. Len(user_param_in'[f]) = Len(user_param_in[f]) /\ t \notin Taking(f)'
      BY <1>1, <1>4, <2>1, <2>2, Members DEF Undecided
    <3>. QED
      BY <2>1, <3>1, InputsSame
  <2>3. CASE f = fi /\ ~NoElement(fi)
    <3>1. Len(user_param_in'[f]) = Len(user_param_in[f]) - 1 /\ t \in Taking(f)'
      BY <1>1, <1>4, <2>3, Members DEF Undecided
    <3>2. /\ Len(elems'[f]) = Len(elems[f]) /\ Len(elems[f]) \in Nat
          /\ CountIn(triggers', From(f)) = CountIn(triggers, From(f))
          /\ CountIn(triggers, From(f)) \in Nat /\ Len(user_param_in[f]) \in Nat
      BY CountTypes
    <3>3. InputsBalance(t, f)
      BY <2>1, <3>1, <3>2 DEF InputsBalance, Change
    <3>. QED
      BY <3>3, InputsKept
  <2>. QED
    BY <2>2, <2>3
<1>. QED
  BY <1>5, <1>6 DEF CountsAgree, Inputs

-----------------------------------------------------------------------------
(* The steps                                                                *)

\* The element is at the device before the thread is among those that push.
LEMMA NcFifoWriteElemIInv ==
    ASSUME IInv, NEW t \in Threads, ncFifoWriteElem(t) PROVE IInv'
<1> USE DEF IInv
<1>1. PICK d \in app.calls[t] :
         /\ Begins(t, d, {"write", "writequeue"}) /\ Goes(t, "push")
         /\ written' = written + 1 /\ Holds(t, written + 1)
         /\ elems' = [elems EXCEPT ![d.fi] = Append(@, written + 1)]
         /\ UNCHANGED <<lists, counts, readers, fifo_mutex, monitor, stream, triggers>>
  BY DEF ncFifoWriteElem
<1>2. /\ d \in FifoCalls /\ d.fi \in Fifos /\ d.fo \in Fifos
      /\ d.op \in {"write", "writequeue"} => d.fi \in Writable
  <2>1. app \in Applications
    BY DEF TypeOK
  <2>2. d \in FifoCalls
    BY <2>1, NcFifoAssumption DEF Uses
  <2>. QED
    BY <2>1, <2>2, NcFifoAssumption DEF FifoCalls, Writable
<1>3. /\ pc[t] = "idle" /\ call' = [call EXCEPT ![t] = d] /\ app' = app /\ d.op \in {"write", "writequeue"}
      /\ call' \in [Threads -> FifoCalls \cup {None}] /\ call'[t] = d
      /\ \A q \in Threads \ {t} : call'[q] = call[q]
      /\ calls' \in [Threads -> Nat]
      /\ \A q \in Threads : calls'[q] <= app.maxCalls[q]
  <2>1. /\ pc[t] = "idle" /\ d.op \in {"write", "writequeue"}
        /\ call' = [call EXCEPT ![t] = d] /\ app' = app
        /\ calls[t] < app.maxCalls[t] /\ calls' = [calls EXCEPT ![t] = calls[t] + 1]
    BY <1>1 DEF Begins
  <2>2. call \in [Threads -> FifoCalls \cup {None}] /\ calls \in [Threads -> Nat] /\ app \in Applications
    BY DEF TypeOK
  <2>3. \A q \in Threads : app.maxCalls[q] \in Nat /\ calls[q] <= app.maxCalls[q]
    BY NcFifoAssumption DEF Uses, TypeOK
  <2>. QED
    BY <1>2, <2>1, <2>2, <2>3
<1>4. /\ OnlyMoves(t) /\ pc'[t] = "push" /\ call'[t] = d
      /\ pc' \in [Threads -> {"idle", "push", "queue", "drain", "result", "trigger",
                              "sent", "read", "pop"}]
  BY <1>1, <1>3 DEF OnlyMoves, TypeOK, Goes, monitor
<1>5. hand' \in [Threads -> Params] /\ written' \in Nat
  BY <1>1 DEF TypeOK, Params, Holds
<1>6. /\ elems' \in [Fifos -> Seq(Nat)]
      /\ Len(elems[d.fi]) \in Nat /\ Len(elems'[d.fi]) = Len(elems[d.fi]) + 1
      /\ \A g \in Fifos \ {d.fi} : elems'[g] = elems[g]
  <2>1. elems' = [elems EXCEPT ![d.fi] = Append(elems[d.fi], written + 1)]
    BY <1>1
  <2>2. elems \in [Fifos -> Seq(Nat)] /\ written + 1 \in Nat
    BY DEF TypeOK
  <2>. QED
    BY <1>2, <2>1, <2>2
<1>7. UNCHANGED <<user_param_in, user_param_out, write_count, consumed_by_graph, api_read_element,
                  consumers_remaining, fifo_mutex, graph_streamm, answer, refused, stream, triggers>>
  BY <1>1 DEF lists, counts, readers, monitor
<1>8. TypeOK'
  <2>1. \A q \in Threads : call'[q] \in app'.calls[q] \cup {None} /\ calls'[q] <= app'.maxCalls[q]
    BY <1>3 DEF TypeOK
  <2>. QED
    BY <1>3, <1>4, <1>7, <1>6, <1>5 DEF TypeOK
<1>9. CallsFit'
  BY <1>3, <1>4 DEF CallsFit, OnlyMoves
<1>10. MutexesKept'
  BY <1>3, <1>4, <1>7 DEF MutexesKept, OnlyMoves
<1>11. CountsAgree'
  BY <1>7 DEF CountsAgree
<1>12. Inputs'
  <2> SUFFICES ASSUME NEW f \in Writable PROVE InputsFor(f)'
    BY DEF Inputs
  <2>1. f \in Fifos
    BY DEF Writable
  <2>2. CASE f # d.fi
    <3>1. /\ elems'[f] = elems[f] /\ user_param_in'[f] = user_param_in[f]
          /\ CountIn(triggers', From(f)) = CountIn(triggers, From(f))
      BY <1>6, <1>7, <2>1, <2>2
    <3>2. (t \in Pushing(f)' => t \in Pushing(f)) /\ (t \in Taking(f)' => t \in Taking(f))
      BY <1>4, <2>2, Members
    <3>. QED
      BY <1>4, <1>8, <3>1, <3>2, InputsSame
  <2>3. CASE f = d.fi
    <3>1. /\ Len(elems'[f]) = Len(elems[f]) + 1
          /\ Len(user_param_in'[f]) = Len(user_param_in[f])
          /\ CountIn(triggers', From(f)) = CountIn(triggers, From(f))
      BY <1>6, <1>7, <2>3
    <3>2. /\ Len(elems[f]) \in Nat /\ Len(user_param_in[f]) \in Nat
          /\ Len(elems'[f]) \in Nat /\ CountIn(triggers, From(f)) \in Nat
      BY CountTypes
    <3>3. /\ Change(t \in Pushing(f), t \in Pushing(f)') = 1
          /\ Change(t \in Taking(f), t \in Taking(f)') = 0
      BY <1>3, <1>4, <2>3, Members DEF Change, Undecided
    <3>4. InputsBalance(t, f)
      BY <3>1, <3>2, <3>3 DEF InputsBalance
    <3>. QED
      BY <1>4, <1>8, <3>4, InputsKept
  <2>. QED
    BY <2>2, <2>3
<1>13. Results'
  BY <1>4, <1>7, <1>8, ResultsStay DEF Sending
<1>. QED
  BY <1>8, <1>9, <1>10, <1>11, <1>12, <1>13

\* The thread's parameter takes its place among those of the list, and write_count
\* counts it.
LEMMA PushWrittenIInv ==
    ASSUME IInv, NEW t \in Threads, PushWritten(t) PROVE IInv'
<1> USE DEF IInv
<1>1. /\ pc[t] # "idle" /\ call[t] \in app.calls[t] /\ call[t].fi \in Fifos /\ call[t].fo \in Fifos
      /\ pc[t] = "push" => call[t].fi \in Writable
      /\ pc[t] # "push" => call[t].fo \in ReadAccess
  BY FifosOfCall DEF PushWritten
<1>2. /\ OnlyMoves(t) /\ (pc'[t] = "idle" \/ (pc'[t] = "queue" /\ call[t].op = "writequeue")) /\ call'[t] = call[t]
      /\ pc' \in [Threads -> {"idle", "push", "queue", "drain", "result", "trigger",
                              "sent", "read", "pop"}]
      /\ pc[t] = "push"
  BY DEF OnlyMoves, CallsFit, TypeOK, PushWritten, Goes, made, monitor
<1>3. hand' \in [Threads -> Params]
  BY DEF TypeOK, Params, PushWritten, Holds
<1>4. /\ user_param_in' \in [Fifos -> Seq(Params)] /\ write_count' \in [Fifos -> Nat]
      /\ write_count'[call[t].fi] = write_count[call[t].fi] + 1
      /\ Len(user_param_in[call[t].fi]) \in Nat
      /\ Len(user_param_in'[call[t].fi]) = Len(user_param_in[call[t].fi]) + 1
      /\ \A g \in Fifos \ {call[t].fi} : /\ write_count'[g] = write_count[g]
                                         /\ user_param_in'[g] = user_param_in[g]
  <2>1. /\ user_param_in' = [user_param_in EXCEPT ![call[t].fi] = Append(user_param_in[call[t].fi], hand[t])]
        /\ write_count' = [write_count EXCEPT ![call[t].fi] = write_count[call[t].fi] + 1]
    BY DEF PushWritten, pushUserParam
  <2>2. user_param_in \in [Fifos -> Seq(Params)] /\ hand[t] \in Params /\ write_count \in [Fifos -> Nat]
    BY DEF TypeOK
  <2>. QED
    BY <1>1, <2>1, <2>2
<1>5. UNCHANGED <<user_param_out, consumed_by_graph, api_read_element, consumers_remaining,
                  fifo_mutex, call, calls, app, written, graph_streamm, answer, refused, elems,
                  stream, triggers>>
  BY DEF PushWritten, readers, made, monitor, device
<1>6. TypeOK'
  BY <1>2, <1>3, <1>4, <1>5 DEF TypeOK
<1>7. CallsFit'
  BY <1>2, <1>5 DEF CallsFit, OnlyMoves
<1>8. MutexesKept'
  BY <1>2, <1>5 DEF MutexesKept, OnlyMoves
<1>9. CountsAgree'
  <2> SUFFICES ASSUME NEW f \in Writable
               PROVE  write_count'[f] = consumed_by_graph'[f] + Len(user_param_in'[f])
    BY DEF CountsAgree
  <2>1. f \in Fifos /\ write_count[f] = consumed_by_graph[f] + Len(user_param_in[f])
    BY DEF CountsAgree, Writable
  <2>2. CASE f = call[t].fi
    <3> DEFINE n == Len(user_param_in[f])  k == consumed_by_graph[f]
    <3>1. /\ write_count'[f] = write_count[f] + 1 /\ consumed_by_graph'[f] = k
          /\ Len(user_param_in'[f]) = n + 1 /\ n \in Nat /\ k \in Nat
      BY <1>4, <1>5, <2>1, <2>2, CountTypes
    <3>2. write_count[f] = k + n
      BY <2>1
    <3>. HIDE DEF n, k
    <3>. QED
      BY <3>1, <3>2
  <2>3. CASE f # call[t].fi
    BY <1>4, <1>5, <2>1, <2>3
  <2>. QED
    BY <2>2, <2>3
<1>10. Inputs'
  <2> SUFFICES ASSUME NEW f \in Writable PROVE InputsFor(f)'
    BY DEF Inputs
  <2>1. f \in Fifos
    BY DEF Writable
  <2>2. CASE f # call[t].fi
    <3>1. /\ elems'[f] = elems[f] /\ user_param_in'[f] = user_param_in[f]
          /\ CountIn(triggers', From(f)) = CountIn(triggers, From(f))
      BY <1>4, <1>5, <2>1, <2>2
    <3>2. (t \in Pushing(f)' => t \in Pushing(f)) /\ (t \in Taking(f)' => t \in Taking(f))
      BY <1>2, <2>2, Members
    <3>. QED
      BY <1>2, <1>6, <3>1, <3>2, InputsSame
  <2>3. CASE f = call[t].fi
    <3>1. /\ Len(elems'[f]) = Len(elems[f])
          /\ Len(user_param_in'[f]) = Len(user_param_in[f]) + 1
          /\ CountIn(triggers', From(f)) = CountIn(triggers, From(f))
      BY <1>4, <1>5, <2>3
    <3>2. /\ Len(elems[f]) \in Nat /\ Len(user_param_in[f]) \in Nat
          /\ Len(elems'[f]) \in Nat /\ CountIn(triggers, From(f)) \in Nat
      BY CountTypes
    <3>3. /\ Change(t \in Pushing(f), t \in Pushing(f)') = 0 - 1
          /\ Change(t \in Taking(f), t \in Taking(f)') = 0
      BY <1>2, <2>3, Members DEF Change, Undecided
    <3>4. InputsBalance(t, f)
      BY <3>1, <3>2, <3>3 DEF InputsBalance
    <3>. QED
      BY <1>2, <1>6, <3>4, InputsKept
  <2>. QED
    BY <2>2, <2>3
<1>11. Results'
  BY <1>2, <1>5, <1>6, ResultsStay DEF Sending
<1>. QED
  BY <1>6, <1>7, <1>8, <1>9, <1>10, <1>11

\* A call begins: nothing is taken yet.
LEMMA NcGraphQueueInferenceIInv ==
    ASSUME IInv, NEW t \in Threads, ncGraphQueueInference(t) PROVE IInv'
<1> USE DEF IInv
<1>1. PICK d \in app.calls[t] :
         /\ Begins(t, d, {"queue"}) /\ Goes(t, "queue")
         /\ UNCHANGED <<lists, counts, readers, fifo_mutex, hand, written, monitor, device>>
  BY DEF ncGraphQueueInference
<1>2. /\ d \in FifoCalls /\ d.fi \in Fifos /\ d.fo \in Fifos
      /\ d.op \in {"write", "writequeue"} => d.fi \in Writable
  <2>1. app \in Applications
    BY DEF TypeOK
  <2>2. d \in FifoCalls
    BY <2>1, NcFifoAssumption DEF Uses
  <2>. QED
    BY <2>1, <2>2, NcFifoAssumption DEF FifoCalls, Writable
<1>3. /\ pc[t] = "idle" /\ call' = [call EXCEPT ![t] = d] /\ app' = app /\ d.op \in {"queue"}
      /\ call' \in [Threads -> FifoCalls \cup {None}] /\ call'[t] = d
      /\ \A q \in Threads \ {t} : call'[q] = call[q]
      /\ calls' \in [Threads -> Nat]
      /\ \A q \in Threads : calls'[q] <= app.maxCalls[q]
  <2>1. /\ pc[t] = "idle" /\ d.op \in {"queue"}
        /\ call' = [call EXCEPT ![t] = d] /\ app' = app
        /\ calls[t] < app.maxCalls[t] /\ calls' = [calls EXCEPT ![t] = calls[t] + 1]
    BY <1>1 DEF Begins
  <2>2. call \in [Threads -> FifoCalls \cup {None}] /\ calls \in [Threads -> Nat] /\ app \in Applications
    BY DEF TypeOK
  <2>3. \A q \in Threads : app.maxCalls[q] \in Nat /\ calls[q] <= app.maxCalls[q]
    BY NcFifoAssumption DEF Uses, TypeOK
  <2>. QED
    BY <1>2, <2>1, <2>2, <2>3
<1>4. /\ OnlyMoves(t) /\ pc'[t] = "queue" /\ call'[t] = d
      /\ pc' \in [Threads -> {"idle", "push", "queue", "drain", "result", "trigger",
                              "sent", "read", "pop"}]
  BY <1>1, <1>3 DEF OnlyMoves, TypeOK, Goes, monitor
<1>5. UNCHANGED <<user_param_in, user_param_out, write_count, consumed_by_graph, api_read_element,
                  consumers_remaining, fifo_mutex, hand, written, graph_streamm, answer, refused,
                  elems, stream, triggers>>
  BY <1>1 DEF lists, counts, readers, monitor, device
<1>6. TypeOK'
  <2>1. \A q \in Threads : call'[q] \in app'.calls[q] \cup {None} /\ calls'[q] <= app'.maxCalls[q]
    BY <1>3 DEF TypeOK
  <2>. QED
    BY <1>3, <1>4, <1>5 DEF TypeOK
<1>7. CallsFit'
  BY <1>3, <1>4 DEF CallsFit, OnlyMoves
<1>8. MutexesKept'
  BY <1>3, <1>4, <1>5 DEF MutexesKept, OnlyMoves
<1>9. CountsAgree'
  BY <1>5 DEF CountsAgree
<1>10. Inputs'
  BY <1>4, <1>5, <1>6, InputsStay DEF Undecided
<1>11. Results'
  BY <1>4, <1>5, <1>6, ResultsStay DEF Sending
<1>. QED
  BY <1>6, <1>7, <1>8, <1>9, <1>10, <1>11

\* A call begins, or fails as the element has been read: nothing is taken yet.
LEMMA NcFifoReadElemIInv ==
    ASSUME IInv, NEW t \in Threads, ncFifoReadElem(t) PROVE IInv'
<1> USE DEF IInv
<1>1. PICK d \in app.calls[t] :
         /\ Begins(t, d, {"read"}) /\ Goes(t, IF api_read_element[d.fo] = 0 THEN "read" ELSE "idle")
         /\ UNCHANGED <<lists, counts, readers, fifo_mutex, hand, written, monitor, device>>
  BY DEF ncFifoReadElem
<1>2. /\ d \in FifoCalls /\ d.fi \in Fifos /\ d.fo \in Fifos
      /\ d.op \in {"write", "writequeue"} => d.fi \in Writable
  <2>1. app \in Applications
    BY DEF TypeOK
  <2>2. d \in FifoCalls
    BY <2>1, NcFifoAssumption DEF Uses
  <2>. QED
    BY <2>1, <2>2, NcFifoAssumption DEF FifoCalls, Writable
<1>3. /\ pc[t] = "idle" /\ call' = [call EXCEPT ![t] = d] /\ app' = app /\ d.op \in {"read"}
      /\ call' \in [Threads -> FifoCalls \cup {None}] /\ call'[t] = d
      /\ \A q \in Threads \ {t} : call'[q] = call[q]
      /\ calls' \in [Threads -> Nat]
      /\ \A q \in Threads : calls'[q] <= app.maxCalls[q]
  <2>1. /\ pc[t] = "idle" /\ d.op \in {"read"}
        /\ call' = [call EXCEPT ![t] = d] /\ app' = app
        /\ calls[t] < app.maxCalls[t] /\ calls' = [calls EXCEPT ![t] = calls[t] + 1]
    BY <1>1 DEF Begins
  <2>2. call \in [Threads -> FifoCalls \cup {None}] /\ calls \in [Threads -> Nat] /\ app \in Applications
    BY DEF TypeOK
  <2>3. \A q \in Threads : app.maxCalls[q] \in Nat /\ calls[q] <= app.maxCalls[q]
    BY NcFifoAssumption DEF Uses, TypeOK
  <2>. QED
    BY <1>2, <2>1, <2>2, <2>3
<1>4. /\ OnlyMoves(t) /\ pc'[t] \in {"read", "idle"} /\ call'[t] = d
      /\ pc' \in [Threads -> {"idle", "push", "queue", "drain", "result", "trigger",
                              "sent", "read", "pop"}]
  BY <1>1, <1>3 DEF OnlyMoves, TypeOK, Goes, monitor
<1>5. UNCHANGED <<user_param_in, user_param_out, write_count, consumed_by_graph, api_read_element,
                  consumers_remaining, fifo_mutex, hand, written, graph_streamm, answer, refused,
                  elems, stream, triggers>>
  BY <1>1 DEF lists, counts, readers, monitor, device
<1>6. TypeOK'
  <2>1. \A q \in Threads : call'[q] \in app'.calls[q] \cup {None} /\ calls'[q] <= app'.maxCalls[q]
    BY <1>3 DEF TypeOK
  <2>. QED
    BY <1>3, <1>4, <1>5 DEF TypeOK
<1>7. CallsFit'
  BY <1>3, <1>4 DEF CallsFit, OnlyMoves
<1>8. MutexesKept'
  BY <1>3, <1>4, <1>5 DEF MutexesKept, OnlyMoves
<1>9. CountsAgree'
  BY <1>5 DEF CountsAgree
<1>10. Inputs'
  BY <1>4, <1>5, <1>6, InputsStay DEF Undecided
<1>11. Results'
  BY <1>4, <1>5, <1>6, ResultsStay DEF Sending
<1>. QED
  BY <1>6, <1>7, <1>8, <1>9, <1>10, <1>11

\* A parameter leaves the list with the thread, and consumed_by_graph counts it.
LEMMA TakeInputIInv ==
    ASSUME IInv, NEW t \in Threads, TakeInput(t) PROVE IInv'
<1> USE DEF IInv
<1>1. /\ pc[t] # "idle" /\ call[t] \in app.calls[t] /\ call[t].fi \in Fifos /\ call[t].fo \in Fifos
      /\ pc[t] = "push" => call[t].fi \in Writable
      /\ pc[t] # "push" => call[t].fo \in ReadAccess
  BY FifosOfCall DEF TakeInput
<1>2. /\ TakeParam(t, call[t].fi) /\ Consumed(call[t].fi, api_read_element[call[t].fi])
      /\ pc[t] = "queue" /\ fifo_mutex[call[t].fi] = None
      /\ UNCHANGED <<user_param_out, write_count, fifo_mutex, call, calls, app, written,
                     graph_streamm, answer, refused, elems, stream, triggers>>
  BY DEF TakeInput, made, monitor, device
<1>3. /\ OnlyMoves(t) /\ pc'[t] \in {"idle", "result"} /\ call'[t] = call[t]
      /\ pc' \in [Threads -> {"idle", "push", "queue", "drain", "result", "trigger",
                              "sent", "read", "pop"}]
  BY <1>1, <1>2, ParamTaken DEF OnlyMoves
<1>4. /\ hand' \in [Threads -> Params]
      /\ consumed_by_graph' \in [Fifos -> Nat] /\ user_param_in' \in [Fifos -> Seq(Params)]
  BY <1>1, <1>2, ParamTaken
<1>5. /\ api_read_element' \in [Fifos -> {0, 1}] /\ consumers_remaining' \in [Fifos -> Nat]
      /\ \A f \in Fifos : consumers_remaining'[f] \in
            IF fifo_mutex'[f] = None THEN 1..app'.consumerCnt[f] ELSE {0}
  <2>1. api_read_element[call[t].fi] \in {0, 1}
    BY <1>1 DEF TypeOK
  <2>. QED
    BY <1>1, <1>2, <2>1, ConsumersLeft DEF TypeOK
<1>6. TypeOK'
  BY <1>2, <1>3, <1>4, <1>5 DEF TypeOK
<1>7. CallsFit'
  BY <1>2, <1>3 DEF CallsFit, OnlyMoves
<1>8. MutexesKept'
  BY <1>2, <1>3 DEF MutexesKept, OnlyMoves
<1>9. CountsAgree'
  BY <1>1, <1>2, <1>3, <1>6, ParamsTakenAgree
<1>10. Inputs'
  BY <1>1, <1>2, <1>3, <1>6, ParamsTakenAgree
<1>11. Results'
  BY <1>2, <1>3, <1>6, ResultsStay DEF Sending
<1>. QED
  BY <1>6, <1>7, <1>8, <1>9, <1>10, <1>11

\* The thread sleeps with the mutex; no one else has it.
LEMMA LockInputIInv ==
    ASSUME IInv, NEW t \in Threads, LockInput(t) PROVE IInv'
<1> USE DEF IInv
<1>1. /\ pc[t] # "idle" /\ call[t] \in app.calls[t] /\ call[t].fi \in Fifos /\ call[t].fo \in Fifos
      /\ pc[t] = "push" => call[t].fi \in Writable
      /\ pc[t] # "push" => call[t].fo \in ReadAccess
  BY FifosOfCall DEF LockInput
<1>2. /\ OnlyMoves(t) /\ pc'[t] = "drain" /\ call'[t] = call[t]
      /\ pc' \in [Threads -> {"idle", "push", "queue", "drain", "result", "trigger",
                              "sent", "read", "pop"}]
      /\ pc[t] = "queue" /\ fifo_mutex[call[t].fi] = None
  BY DEF OnlyMoves, TypeOK, LockInput, Goes, made, monitor
<1>3. /\ fifo_mutex' = [fifo_mutex EXCEPT ![call[t].fi] = t]
      /\ consumers_remaining' = [consumers_remaining EXCEPT ![call[t].fi] = 0]
  BY DEF LockInput
<1>4. UNCHANGED <<user_param_in, user_param_out, write_count, consumed_by_graph, api_read_element,
                  call, calls, app, hand, written, graph_streamm, answer, refused, elems,
                  stream, triggers>>
  BY DEF LockInput, lists, counts, made, monitor, device
<1>5. TypeOK'
  <2>1. /\ fifo_mutex' \in [Fifos -> Threads \cup {None}]
        /\ consumers_remaining' \in [Fifos -> Nat]
        /\ \A f \in Fifos : consumers_remaining'[f] \in
              IF fifo_mutex'[f] = None THEN 1..app'.consumerCnt[f] ELSE {0}
    BY <1>3, <1>4, NcFifoAssumption DEF TypeOK
  <2>. QED
    BY <1>2, <1>4, <2>1 DEF TypeOK
<1>6. CallsFit'
  BY <1>2, <1>4 DEF CallsFit, OnlyMoves
<1>7. MutexesKept'
  <2>1. \A f \in Fifos, q \in Threads :
           fifo_mutex'[f] = q <=> pc'[q] = "drain" /\ call'[q].fi = f
    <3> SUFFICES ASSUME NEW f \in Fifos, NEW q \in Threads
                 PROVE  fifo_mutex'[f] = q <=> pc'[q] = "drain" /\ call'[q].fi = f
      OBVIOUS
    <3>1. /\ fifo_mutex'[f] = IF f = call[t].fi THEN t ELSE fifo_mutex[f]
          /\ fifo_mutex[f] = q <=> pc[q] = "drain" /\ call[q].fi = f
          /\ f = call[t].fi => fifo_mutex[f] # q
          /\ call' = call
      BY <1>2, <1>3, <1>4, NcFifoAssumption DEF MutexesKept, TypeOK
    <3>2. CASE q = t
      BY <1>2, <3>1, <3>2
    <3>3. CASE q # t
      BY <1>2, <3>1 DEF OnlyMoves
    <3>. QED
      BY <3>2, <3>3
  <2>. QED
    BY <1>2, <1>4, <2>1 DEF MutexesKept, OnlyMoves
<1>8. CountsAgree'
  BY <1>4 DEF CountsAgree
<1>9. Inputs'
  BY <1>2, <1>4, <1>5, InputsStay DEF Undecided
<1>10. Results'
  BY <1>2, <1>4, <1>5, ResultsStay DEF Sending
<1>. QED
  BY <1>5, <1>6, <1>7, <1>8, <1>9, <1>10

\* The mutex comes free as the parameter is taken; the element drained from the
\* stream is one less that needs a parameter kept for it.
LEMMA DrainInputIInv ==
    ASSUME IInv, NEW t \in Threads, DrainInput(t) PROVE IInv'
<1> USE DEF IInv
<1>1. /\ pc[t] # "idle" /\ call[t] \in app.calls[t] /\ call[t].fi \in Fifos /\ call[t].fo \in Fifos
      /\ pc[t] = "push" => call[t].fi \in Writable
      /\ pc[t] # "push" => call[t].fo \in ReadAccess
  BY FifosOfCall DEF DrainInput
<1>2. /\ TakeParam(t, call[t].fi) /\ Consumed(call[t].fi, 0)
      /\ pc[t] = "drain" /\ stream[call[t].fi] # <<>>
      /\ stream' = [stream EXCEPT ![call[t].fi] = Tail(stream[call[t].fi])]
      /\ fifo_mutex' = [fifo_mutex EXCEPT ![call[t].fi] = None]
      /\ UNCHANGED <<user_param_out, write_count, call, calls, app, written,
                     graph_streamm, answer, refused, elems, triggers>>
  BY DEF DrainInput, made, monitor
<1>3. /\ OnlyMoves(t) /\ pc'[t] \in {"idle", "result"} /\ call'[t] = call[t]
      /\ pc' \in [Threads -> {"idle", "push", "queue", "drain", "result", "trigger",
                              "sent", "read", "pop"}]
  BY <1>1, <1>2, ParamTaken DEF OnlyMoves
<1>4. /\ hand' \in [Threads -> Params]
      /\ consumed_by_graph' \in [Fifos -> Nat] /\ user_param_in' \in [Fifos -> Seq(Params)]
  BY <1>1, <1>2, ParamTaken
<1>5. /\ api_read_element' \in [Fifos -> {0, 1}] /\ consumers_remaining' \in [Fifos -> Nat]
      /\ fifo_mutex' \in [Fifos -> Threads \cup {None}]
      /\ \A f \in Fifos : consumers_remaining'[f] \in
            IF fifo_mutex'[f] = None THEN 1..app'.consumerCnt[f] ELSE {0}
  <2>1. fifo_mutex \in [Fifos -> Threads \cup {None}]
    BY DEF TypeOK
  <2>. QED
    BY <1>1, <1>2, ConsumersLeft DEF TypeOK
<1>6. /\ stream' \in [Fifos -> Seq(Nat)]
      /\ Len(stream[call[t].fi]) \in Nat /\ Len(stream'[call[t].fi]) = Len(stream[call[t].fi]) - 1
      /\ \A g \in Fifos \ {call[t].fi} : stream'[g] = stream[g]
  <2>1. stream \in [Fifos -> Seq(Nat)]
    BY DEF TypeOK
  <2>. QED
    BY <1>1, <1>2, <2>1
<1>7. TypeOK'
  BY <1>2, <1>3, <1>4, <1>5, <1>6 DEF TypeOK
<1>8. CallsFit'
  BY <1>2, <1>3 DEF CallsFit, OnlyMoves
<1>9. MutexesKept'
  <2>1. \A f \in Fifos, q \in Threads :
           fifo_mutex'[f] = q <=> pc'[q] = "drain" /\ call'[q].fi = f
    <3> SUFFICES ASSUME NEW f \in Fifos, NEW q \in Threads
                 PROVE  fifo_mutex'[f] = q <=> pc'[q] = "drain" /\ call'[q].fi = f
      OBVIOUS
    <3>1. /\ fifo_mutex'[f] = IF f = call[t].fi THEN None ELSE fifo_mutex[f]
          /\ fifo_mutex[f] = q <=> pc[q] = "drain" /\ call[q].fi = f
          /\ f = call[t].fi => fifo_mutex[f] = t
          /\ call' = call /\ q # None
      <4>1. fifo_mutex \in [Fifos -> Threads \cup {None}]
        BY DEF TypeOK
      <4>. QED
        BY <1>2, <4>1, NcFifoAssumption DEF MutexesKept
    <3>2. CASE q = t
      BY <1>3, <3>1, <3>2
    <3>3. CASE q # t
      BY <1>3, <3>1 DEF OnlyMoves
    <3>. QED
      BY <3>2, <3>3
  <2>. QED
    BY <1>2, <1>3, <2>1 DEF MutexesKept, OnlyMoves
<1>10. CountsAgree'
  BY <1>1, <1>2, <1>3, <1>7, ParamsTakenAgree
<1>11. Inputs'
  BY <1>1, <1>2, <1>3, <1>7, ParamsTakenAgree
<1>12. Results'
  <2> SUFFICES ASSUME NEW f \in ReadAccess PROVE ResultsFor(f)'
    BY DEF Results
  <2>1. f \in Fifos
    BY NcFifoAssumption
  <2>2. CASE f # call[t].fi
    <3>1. /\ user_param_out'[f] = user_param_out[f] /\ stream'[f] = stream[f]
          /\ CountIn(triggers', Into(f)) = CountIn(triggers, Into(f))
      BY <1>2, <2>2
    <3>2. (t \in Popping(f)' => t \in Popping(f)) /\ (t \in Promising(f)' => t \in Promising(f))
      BY <1>3, Members DEF Sending
    <3>. QED
      BY <1>3, <1>7, <3>1, <3>2, ResultsSame
  <2>3. CASE f = call[t].fi
    <3>1. /\ Len(user_param_out'[f]) = Len(user_param_out[f])
          /\ Len(stream'[f]) = Len(stream[f]) - 1
          /\ CountIn(triggers', Into(f)) = CountIn(triggers, Into(f))
      BY <1>2, <1>6, <2>3
    <3>2. /\ Len(user_param_out[f]) \in Nat /\ Len(stream[f]) \in Nat
          /\ Len(user_param_out'[f]) \in Nat /\ CountIn(triggers, Into(f)) \in Nat
      BY CountTypes
    <3>3. /\ Change(t \in Popping(f), t \in Popping(f)') = 0
          /\ Change(t \in Promising(f), t \in Promising(f)') = 0
      BY <1>2, <1>3, Members DEF Change, Sending
    <3>4. ResultsBalance(t, f)
      BY <3>1, <3>2, <3>3 DEF ResultsBalance
    <3>. QED
      BY <1>3, <1>7, <3>4, ResultsKept
  <2>. QED
    BY <2>2, <2>3
<1>. QED
  BY <1>7, <1>8, <1>9, <1>10, <1>11, <1>12

\* The result's parameter is in the list before the trigger is on its way.
LEMMA PushResultIInv ==
    ASSUME IInv, NEW t \in Threads, PushResult(t) PROVE IInv'
<1> USE DEF IInv
<1>1. /\ pc[t] # "idle" /\ call[t] \in app.calls[t] /\ call[t].fi \in Fifos /\ call[t].fo \in Fifos
      /\ pc[t] = "push" => call[t].fi \in Writable
      /\ pc[t] # "push" => call[t].fo \in ReadAccess
  BY FifosOfCall DEF PushResult
<1>2. /\ OnlyMoves(t) /\ pc'[t] = "trigger" /\ call'[t] = call[t]
      /\ pc' \in [Threads -> {"idle", "push", "queue", "drain", "result", "trigger",
                              "sent", "read", "pop"}]
      /\ pc[t] = "result"
  BY DEF OnlyMoves, TypeOK, PushResult, Goes, made, monitor
<1>3. hand' \in [Threads -> Params]
  BY DEF TypeOK, Params, PushResult, Holds
<1>4. /\ user_param_out' \in [Fifos -> Seq(Params)] /\ write_count' \in [Fifos -> Nat]
      /\ Len(user_param_out[call[t].fo]) \in Nat
      /\ Len(user_param_out'[call[t].fo]) = Len(user_param_out[call[t].fo]) + 1
      /\ \A g \in Fifos \ {call[t].fo} : /\ write_count'[g] = write_count[g]
                                         /\ user_param_out'[g] = user_param_out[g]
  <2>1. /\ user_param_out' = [user_param_out EXCEPT ![call[t].fo] = Append(user_param_out[call[t].fo], hand[t])]
        /\ write_count' = [write_count EXCEPT ![call[t].fo] = write_count[call[t].fo] + 1]
    BY DEF PushResult, pushUserParam
  <2>2. user_param_out \in [Fifos -> Seq(Params)] /\ hand[t] \in Params /\ write_count \in [Fifos -> Nat]
    BY DEF TypeOK
  <2>. QED
    BY <1>1, <2>1, <2>2
<1>5. UNCHANGED <<user_param_in, consumed_by_graph, api_read_element, consumers_remaining,
                  fifo_mutex, call, calls, app, written, graph_streamm, answer, refused, elems,
                  stream, triggers>>
  BY DEF PushResult, readers, made, monitor, device
<1>6. TypeOK'
  BY <1>2, <1>3, <1>4, <1>5 DEF TypeOK
<1>7. CallsFit'
  BY <1>2, <1>5 DEF CallsFit, OnlyMoves
<1>8. MutexesKept'
  BY <1>2, <1>5 DEF MutexesKept, OnlyMoves
<1>9. CountsAgree'
  BY <1>1, <1>2, <1>4, <1>5 DEF CountsAgree, Writable
<1>10. Inputs'
  BY <1>2, <1>5, <1>6, InputsStay DEF Undecided
<1>11. Results'
  <2> SUFFICES ASSUME NEW f \in ReadAccess PROVE ResultsFor(f)'
    BY DEF Results
  <2>1. f \in Fifos
    BY NcFifoAssumption
  <2>2. CASE f # call[t].fo
    <3>1. /\ user_param_out'[f] = user_param_out[f] /\ stream'[f] = stream[f]
          /\ CountIn(triggers', Into(f)) = CountIn(triggers, Into(f))
      BY <1>4, <1>5, <2>1, <2>2
    <3>2. (t \in Popping(f)' => t \in Popping(f)) /\ (t \in Promising(f)' => t \in Promising(f))
      BY <1>2, <2>2, Members
    <3>. QED
      BY <1>2, <1>6, <3>1, <3>2, ResultsSame
  <2>3. CASE f = call[t].fo
    <3>1. /\ Len(user_param_out'[f]) = Len(user_param_out[f]) + 1
          /\ Len(stream'[f]) = Len(stream[f])
          /\ CountIn(triggers', Into(f)) = CountIn(triggers, Into(f))
      BY <1>4, <1>5, <2>3
    <3>2. /\ Len(user_param_out[f]) \in Nat /\ Len(stream[f]) \in Nat
          /\ Len(user_param_out'[f]) \in Nat /\ CountIn(triggers, Into(f)) \in Nat
      BY CountTypes
    <3>3. /\ Change(t \in Popping(f), t \in Popping(f)') = 0
          /\ Change(t \in Promising(f), t \in Promising(f)') = 1
      BY <1>2, <2>3, Members DEF Change, Sending
    <3>4. ResultsBalance(t, f)
      BY <3>1, <3>2, <3>3 DEF ResultsBalance
    <3>. QED
      BY <1>2, <1>6, <3>4, ResultsKept
  <2>. QED
    BY <2>2, <2>3
<1>. QED
  BY <1>6, <1>7, <1>8, <1>9, <1>10, <1>11

\* The thread has the monitor, and its trigger is still to be counted.
LEMMA SendGraphMonitorRequestIInv ==
    ASSUME IInv, NEW t \in Threads, sendGraphMonitorRequest(t) PROVE IInv'
<1> USE DEF IInv
<1>1. /\ pc[t] # "idle" /\ call[t] \in app.calls[t] /\ call[t].fi \in Fifos /\ call[t].fo \in Fifos
      /\ pc[t] = "push" => call[t].fi \in Writable
      /\ pc[t] # "push" => call[t].fo \in ReadAccess
  BY FifosOfCall DEF sendGraphMonitorRequest
<1>2. /\ OnlyMoves(t) /\ pc'[t] = "sent" /\ call'[t] = call[t]
      /\ pc' \in [Threads -> {"idle", "push", "queue", "drain", "result", "trigger",
                              "sent", "read", "pop"}]
      /\ pc[t] = "trigger" /\ graph_streamm = None /\ graph_streamm' = t
  BY DEF OnlyMoves, TypeOK, sendGraphMonitorRequest, Goes, made
<1>3. UNCHANGED <<user_param_in, user_param_out, write_count, consumed_by_graph, api_read_element,
                  consumers_remaining, fifo_mutex, call, calls, app, hand, written, answer, refused,
                  elems, stream, triggers>>
  BY DEF sendGraphMonitorRequest, lists, counts, readers, made, device
<1>4. TypeOK'
  BY <1>2, <1>3 DEF TypeOK
<1>5. CallsFit'
  BY <1>2, <1>3 DEF CallsFit, OnlyMoves
<1>6. MutexesKept'
  BY <1>2, <1>3, NcFifoAssumption DEF MutexesKept, OnlyMoves
<1>7. CountsAgree'
  BY <1>3 DEF CountsAgree
<1>8. Inputs'
  BY <1>2, <1>3, <1>4, InputsStay DEF Undecided
<1>9. Results'
  BY <1>2, <1>3, <1>4, ResultsStay DEF Sending
<1>. QED
  BY <1>4, <1>5, <1>6, <1>7, <1>8, <1>9

\* The answered trigger was counted at the device: nothing changes but the owner.
LEMMA CheckGraphMonitorResponseIInv ==
    ASSUME IInv, NEW t \in Threads, checkGraphMonitorResponse(t) PROVE IInv'
<1> USE DEF IInv
<1>1. /\ pc[t] # "idle" /\ call[t] \in app.calls[t] /\ call[t].fi \in Fifos /\ call[t].fo \in Fifos
      /\ pc[t] = "push" => call[t].fi \in Writable
      /\ pc[t] # "push" => call[t].fo \in ReadAccess
  BY FifosOfCall DEF checkGraphMonitorResponse
<1>2. /\ OnlyMoves(t) /\ pc'[t] = "idle" /\ call'[t] = call[t]
      /\ pc' \in [Threads -> {"idle", "push", "queue", "drain", "result", "trigger",
                              "sent", "read", "pop"}]
      /\ pc[t] = "sent" /\ graph_streamm' = None /\ answer' = None
  BY DEF MutexesKept, OnlyMoves, TypeOK, checkGraphMonitorResponse, Goes, made
<1>3. UNCHANGED <<user_param_in, user_param_out, write_count, consumed_by_graph, api_read_element,
                  consumers_remaining, fifo_mutex, call, calls, app, hand, written, refused,
                  elems, stream, triggers>>
  BY DEF checkGraphMonitorResponse, lists, counts, readers, made, device
<1>4. TypeOK'
  BY <1>2, <1>3 DEF TypeOK
<1>5. CallsFit'
  BY <1>2, <1>3 DEF CallsFit, OnlyMoves
<1>6. MutexesKept'
  BY <1>2, <1>3, NcFifoAssumption DEF MutexesKept, OnlyMoves
<1>7. CountsAgree'
  BY <1>3 DEF CountsAgree
<1>8. Inputs'
  BY <1>2, <1>3, <1>4, InputsStay DEF Undecided
<1>9. Results'
  BY <1>2, <1>3, <1>4, ResultsStay DEF Sending
<1>. QED
  BY <1>4, <1>5, <1>6, <1>7, <1>8, <1>9

\* The element leaves the stream with a thread that is to pop its parameter.
LEMMA ReadResultIInv ==
    ASSUME IInv, NEW t \in Threads, ReadResult(t) PROVE IInv'
<1> USE DEF IInv
<1>1. /\ pc[t] # "idle" /\ call[t] \in app.calls[t] /\ call[t].fi \in Fifos /\ call[t].fo \in Fifos
      /\ pc[t] = "push" => call[t].fi \in Writable
      /\ pc[t] # "push" => call[t].fo \in ReadAccess
  BY FifosOfCall DEF ReadResult
<1>2. /\ OnlyMoves(t) /\ pc'[t] = "pop" /\ call'[t] = call[t]
      /\ pc' \in [Threads -> {"idle", "push", "queue", "drain", "result", "trigger",
                              "sent", "read", "pop"}]
      /\ pc[t] = "read"
  BY DEF OnlyMoves, TypeOK, ReadResult, Goes, made, monitor
<1>3. /\ stream' \in [Fifos -> Seq(Nat)] /\ hand' \in [Threads -> Params]
      /\ Len(stream[call[t].fo]) \in Nat /\ Len(stream'[call[t].fo]) = Len(stream[call[t].fo]) - 1
      /\ \A g \in Fifos \ {call[t].fo} : stream'[g] = stream[g]
  <2>1. stream \in [Fifos -> Seq(Nat)] /\ hand \in [Threads -> Params]
    BY DEF TypeOK
  <2>2. /\ stream[call[t].fo] # <<>> /\ Holds(t, Head(stream[call[t].fo]))
        /\ stream' = [stream EXCEPT ![call[t].fo] = Tail(stream[call[t].fo])]
    BY DEF ReadResult
  <2>3. Head(stream[call[t].fo]) \in Nat
    BY <1>1, <2>1, <2>2
  <2>4. hand' \in [Threads -> Params]
    BY <2>1, <2>2, <2>3 DEF Holds, Params
  <2>. QED
    BY <1>1, <2>1, <2>2, <2>4
<1>4. UNCHANGED <<user_param_in, user_param_out, write_count, consumed_by_graph, api_read_element,
                  consumers_remaining, fifo_mutex, call, calls, app, written, graph_streamm, answer,
                  refused, elems, triggers>>
  BY DEF ReadResult, lists, counts, readers, made, monitor
<1>5. TypeOK'
  BY <1>2, <1>3, <1>4 DEF TypeOK
<1>6. CallsFit'
  BY <1>2, <1>4 DEF CallsFit, OnlyMoves
<1>7. MutexesKept'
  BY <1>2, <1>4 DEF MutexesKept, OnlyMoves
<1>8. CountsAgree'
  BY <1>4 DEF CountsAgree
<1>9. Inputs'
  BY <1>2, <1>4, <1>5, InputsStay DEF Undecided
<1>10. Results'
  <2> SUFFICES ASSUME NEW f \in ReadAccess PROVE ResultsFor(f)'
    BY DEF Results
  <2>1. f \in Fifos
    BY NcFifoAssumption
  <2>2. CASE f # call[t].fo
    <3>1. /\ user_param_out'[f] = user_param_out[f] /\ stream'[f] = stream[f]
          /\ CountIn(triggers', Into(f)) = CountIn(triggers, Into(f))
      BY <1>3, <1>4, <2>1, <2>2
    <3>2. (t \in Popping(f)' => t \in Popping(f)) /\ (t \in Promising(f)' => t \in Promising(f))
      BY <1>2, <2>2, Members
    <3>. QED
      BY <1>2, <1>5, <3>1, <3>2, ResultsSame
  <2>3. CASE f = call[t].fo
    <3>1. /\ Len(user_param_out'[f]) = Len(user_param_out[f])
          /\ Len(stream'[f]) = Len(stream[f]) - 1
          /\ CountIn(triggers', Into(f)) = CountIn(triggers, Into(f))
      BY <1>3, <1>4, <2>3
    <3>2. /\ Len(user_param_out[f]) \in Nat /\ Len(stream[f]) \in Nat
          /\ Len(user_param_out'[f]) \in Nat /\ CountIn(triggers, Into(f)) \in Nat
      BY CountTypes
    <3>3. /\ Change(t \in Popping(f), t \in Popping(f)') = 1
          /\ Change(t \in Promising(f), t \in Promising(f)') = 0
      BY <1>2, <2>3, Members DEF Change, Sending, CallsFit
    <3>4. ResultsBalance(t, f)
      BY <3>1, <3>2, <3>3 DEF ResultsBalance
    <3>. QED
      BY <1>2, <1>5, <3>4, ResultsKept
  <2>. QED
    BY <2>2, <2>3
<1>. QED
  BY <1>5, <1>6, <1>7, <1>8, <1>9, <1>10

\* The thread pops the parameter it counted on.
LEMMA PopResultIInv ==
    ASSUME IInv, NEW t \in Threads, PopResult(t) PROVE IInv'
<1> USE DEF IInv
<1>1. /\ pc[t] # "idle" /\ call[t] \in app.calls[t] /\ call[t].fi \in Fifos /\ call[t].fo \in Fifos
      /\ pc[t] = "push" => call[t].fi \in Writable
      /\ pc[t] # "push" => call[t].fo \in ReadAccess
  BY FifosOfCall DEF PopResult
<1>2. /\ OnlyMoves(t) /\ pc'[t] = "idle" /\ call'[t] = call[t]
      /\ pc' \in [Threads -> {"idle", "push", "queue", "drain", "result", "trigger",
                              "sent", "read", "pop"}]
      /\ pc[t] = "pop" /\ fifo_mutex[call[t].fo] = None
  BY DEF OnlyMoves, TypeOK, PopResult, Goes, made, monitor
<1>3. /\ Consumed(call[t].fo, 1) /\ hand' \in [Threads -> Params]
      /\ user_param_out' = [user_param_out EXCEPT ![call[t].fo] = popUserParam(user_param_out[call[t].fo])]
  BY DEF TypeOK, Params, Holds, PopResult
<1>4. /\ user_param_out' \in [Fifos -> Seq(Params)]
      /\ Len(user_param_out[call[t].fo]) \in Nat
      /\ \/ user_param_out'[call[t].fo] = user_param_out[call[t].fo]
         \/ Len(user_param_out'[call[t].fo]) = Len(user_param_out[call[t].fo]) - 1
      /\ \A g \in Fifos \ {call[t].fo} : user_param_out'[g] = user_param_out[g]
  <2> DEFINE fo == call[t].fo
  <2>1. user_param_out \in [Fifos -> Seq(Params)] /\ fo \in Fifos
    BY <1>1 DEF TypeOK
  <2>2. user_param_out' = [user_param_out EXCEPT ![fo] = popUserParam(user_param_out[fo])]
    BY <1>3
  <2>. HIDE DEF fo
  <2>3. user_param_out' \in [Fifos -> Seq(Params)]
    BY <2>1, <2>2, ParamPopped
  <2>4. Len(user_param_out[fo]) \in Nat
    OBVIOUS
  <2>5. \/ user_param_out'[fo] = user_param_out[fo]
        \/ Len(user_param_out'[fo]) = Len(user_param_out[fo]) - 1
    BY <2>1, <2>2, ParamPopped
  <2>6. \A g \in Fifos \ {fo} : user_param_out'[g] = user_param_out[g]
    BY <2>2
  <2>. QED
    BY <2>3, <2>5, <2>6 DEF fo
<1>5. UNCHANGED <<user_param_in, write_count, consumed_by_graph, fifo_mutex, call, calls, app,
                  written, graph_streamm, answer, refused, elems, stream, triggers>>
  BY DEF PopResult, counts, made, monitor, device
<1>6. /\ api_read_element' \in [Fifos -> {0, 1}] /\ consumers_remaining' \in [Fifos -> Nat]
      /\ \A f \in Fifos : consumers_remaining'[f] \in
            IF fifo_mutex'[f] = None THEN 1..app'.consumerCnt[f] ELSE {0}
  BY <1>1, <1>3, <1>2, <1>5, ConsumersLeft DEF TypeOK
<1>7. TypeOK'
  BY <1>2, <1>3, <1>4, <1>6, <1>5 DEF TypeOK
<1>8. CallsFit'
  BY <1>2, <1>5 DEF CallsFit, OnlyMoves
<1>9. MutexesKept'
  BY <1>2, <1>5 DEF MutexesKept, OnlyMoves
<1>10. CountsAgree'
  BY <1>5 DEF CountsAgree
<1>11. Inputs'
  BY <1>2, <1>5, <1>7, InputsStay DEF Undecided
<1>12. Results'
  <2> SUFFICES ASSUME NEW f \in ReadAccess PROVE ResultsFor(f)'
    BY DEF Results
  <2>1. f \in Fifos
    BY NcFifoAssumption
  <2>2. CASE f # call[t].fo
    <3>1. /\ user_param_out'[f] = user_param_out[f] /\ stream'[f] = stream[f]
          /\ CountIn(triggers', Into(f)) = CountIn(triggers, Into(f))
      BY <1>4, <1>5, <2>1, <2>2
    <3>2. (t \in Popping(f)' => t \in Popping(f)) /\ (t \in Promising(f)' => t \in Promising(f))
      BY <1>2, <2>2, Members
    <3>. QED
      BY <1>2, <1>7, <3>1, <3>2, ResultsSame
  <2>3. CASE f = call[t].fo
    <3>1. /\ Len(user_param_out'[f]) >= Len(user_param_out[f]) - 1
          /\ Len(stream'[f]) = Len(stream[f])
          /\ CountIn(triggers', Into(f)) = CountIn(triggers, Into(f))
      BY <1>4, <1>5, <2>3
    <3>2. /\ Len(user_param_out[f]) \in Nat /\ Len(stream[f]) \in Nat
          /\ Len(user_param_out'[f]) \in Nat /\ CountIn(triggers, Into(f)) \in Nat
      BY CountTypes
    <3>3. /\ Change(t \in Popping(f), t \in Popping(f)') = 0 - 1
          /\ Change(t \in Promising(f), t \in Promising(f)') = 0
      BY <1>2, <2>3, Members DEF Change, Sending, CallsFit
    <3>4. ResultsBalance(t, f)
      <4>1. Len(user_param_out'[f]) - Len(user_param_out[f]) >= 0 - 1
        BY <3>1
      <4>2. /\ Len(stream'[f]) - Len(stream[f]) = 0
            /\ CountIn(triggers', Into(f)) - CountIn(triggers, Into(f)) = 0
        BY <3>1, <3>2
      <4> DEFINE x == Change(t \in Popping(f), t \in Popping(f)')
                 y == Change(t \in Promising(f), t \in Promising(f)')
                 out == Len(user_param_out'[f]) - Len(user_param_out[f])
      <4>3. x = 0 - 1 /\ y = 0
        BY <3>3
      <4>. HIDE DEF x, y, out
      <4>4. out >= 0 + x + y + 0
        BY <4>1, <4>3 DEF out
      <4>. QED
        BY <4>2, <4>4 DEF ResultsBalance, x, y, out
    <3>. QED
      BY <1>2, <1>7, <3>4, ResultsKept
  <2>. QED
    BY <2>2, <2>3
<1>. QED
  BY <1>7, <1>8, <1>9, <1>10, <1>11, <1>12

\* The trigger of the monitor's owner becomes one of the device's.
LEMMA MonitorAcceptsIInv ==
    ASSUME IInv, MonitorAccepts PROVE IInv'
<1> USE DEF IInv
<1>1. PICK t \in Threads :
         /\ graph_streamm = t /\ pc[t] = "sent" /\ answer = None /\ answer' = "OK"
         /\ triggers' = Append(triggers, [fi |-> call[t].fi, fo |-> call[t].fo])
         /\ UNCHANGED <<lists, counts, readers, fifo_mutex, threads, written, graph_streamm,
                        refused, elems, stream>>
  BY DEF MonitorAccepts, TypeOK
<1>2. /\ pc[t] # "idle" /\ call[t] \in app.calls[t] /\ call[t].fi \in Fifos /\ call[t].fo \in Fifos
      /\ pc[t] = "push" => call[t].fi \in Writable
      /\ pc[t] # "push" => call[t].fo \in ReadAccess
  BY <1>1, FifosOfCall
<1>3. UNCHANGED <<user_param_in, user_param_out, write_count, consumed_by_graph, api_read_element,
                  consumers_remaining, fifo_mutex, pc, call, calls, app, hand, written, graph_streamm,
                  refused, elems, stream>>
  BY <1>1 DEF lists, counts, readers, threads, made
<1>4. OnlyMoves(t)
  BY <1>1, <1>3 DEF OnlyMoves, MutexesKept
<1>5. /\ triggers' \in Seq([fi : Fifos, fo : Fifos])
      /\ \A f \in Fifos :
            /\ CountIn(triggers', From(f)) = CountIn(triggers, From(f)) + (IF f = call[t].fi THEN 1 ELSE 0)
            /\ CountIn(triggers', Into(f)) = CountIn(triggers, Into(f)) + (IF f = call[t].fo THEN 1 ELSE 0)
  <2> DEFINE e == [fi |-> call[t].fi, fo |-> call[t].fo]
  <2>1. /\ e \in [fi : Fifos, fo : Fifos]
        /\ \A f \in Fifos : (e \in From(f) <=> f = call[t].fi) /\ (e \in Into(f) <=> f = call[t].fo)
    BY <1>2 DEF From, Into
  <2>2. triggers \in Seq([fi : Fifos, fo : Fifos]) /\ triggers' = Append(triggers, e)
    BY <1>1 DEF TypeOK
  <2>. HIDE DEF e
  <2>3. triggers' \in Seq([fi : Fifos, fo : Fifos])
    BY <2>1, <2>2
  <2>4. ASSUME NEW S PROVE CountIn(triggers', S) = CountIn(triggers, S) + (IF e \in S THEN 1 ELSE 0)
    <3> DEFINE Triggers == [fi : Fifos, fo : Fifos]
    <3>1. triggers \in Seq(Triggers) /\ e \in Triggers /\ triggers' = Append(triggers, e)
      BY <2>1, <2>2
    <3>. HIDE DEF Triggers
    <3>. QED
      BY <3>1, CountInAppend
  <2>5. ASSUME NEW f \in Fifos
        PROVE  /\ CountIn(triggers', From(f)) = CountIn(triggers, From(f)) + (IF f = call[t].fi THEN 1 ELSE 0)
               /\ CountIn(triggers', Into(f)) = CountIn(triggers, Into(f)) + (IF f = call[t].fo THEN 1 ELSE 0)
    BY <2>1, <2>4
  <2>. QED
    BY <2>3, <2>5
<1>6. TypeOK'
  BY <1>1, <1>3, <1>5 DEF TypeOK
<1>7. CallsFit'
  BY <1>3 DEF CallsFit
<1>8. MutexesKept'
  BY <1>1, <1>3, NcFifoAssumption DEF MutexesKept
<1>9. CountsAgree'
  BY <1>3 DEF CountsAgree
<1>10. Inputs'
  <2> SUFFICES ASSUME NEW f \in Writable PROVE InputsFor(f)'
    BY DEF Inputs
  <2>1. f \in Fifos
    BY DEF Writable
  <2>2. CASE f # call[t].fi
    <3>1. /\ elems'[f] = elems[f] /\ user_param_in'[f] = user_param_in[f]
          /\ CountIn(triggers', From(f)) = CountIn(triggers, From(f))
      BY <1>3, <1>5, <2>1, <2>2, CountTypes
    <3>2. (t \in Pushing(f)' => t \in Pushing(f)) /\ (t \in Taking(f)' => t \in Taking(f))
      BY <1>3, <2>2, Members
    <3>. QED
      BY <1>4, <1>6, <3>1, <3>2, InputsSame
  <2>3. CASE f = call[t].fi
    <3>1. /\ Len(elems'[f]) = Len(elems[f])
          /\ Len(user_param_in'[f]) = Len(user_param_in[f])
          /\ CountIn(triggers', From(f)) = CountIn(triggers, From(f)) + 1
      BY <1>3, <1>5, <2>1, <2>3
    <3>2. /\ Len(elems[f]) \in Nat /\ Len(user_param_in[f]) \in Nat
          /\ Len(elems'[f]) \in Nat /\ CountIn(triggers, From(f)) \in Nat
      BY CountTypes
    <3>3. /\ Change(t \in Pushing(f), t \in Pushing(f)') = 0
          /\ Change(t \in Taking(f), t \in Taking(f)') = 0 - 1
      BY <1>1, <1>3, <2>3, NcFifoAssumption, Members DEF Change, Undecided
    <3>4. InputsBalance(t, f)
      BY <3>1, <3>2, <3>3 DEF InputsBalance
    <3>. QED
      BY <1>4, <1>6, <3>4, InputsKept
  <2>. QED
    BY <2>2, <2>3
<1>11. Results'
  <2> SUFFICES ASSUME NEW f \in ReadAccess PROVE ResultsFor(f)'
    BY DEF Results
  <2>1. f \in Fifos
    BY NcFifoAssumption
  <2>2. CASE f # call[t].fo
    <3>1. /\ user_param_out'[f] = user_param_out[f] /\ stream'[f] = stream[f]
          /\ CountIn(triggers', Into(f)) = CountIn(triggers, Into(f))
      BY <1>3, <1>5, <2>1, <2>2, CountTypes
    <3>2. (t \in Popping(f)' => t \in Popping(f)) /\ (t \in Promising(f)' => t \in Promising(f))
      BY <1>3, <2>2, Members
    <3>. QED
      BY <1>4, <1>6, <3>1, <3>2, ResultsSame
  <2>3. CASE f = call[t].fo
    <3>1. /\ Len(user_param_out'[f]) = Len(user_param_out[f])
          /\ Len(stream'[f]) = Len(stream[f])
          /\ CountIn(triggers', Into(f)) = CountIn(triggers, Into(f)) + 1
      BY <1>3, <1>5, <2>1, <2>3
    <3>2. /\ Len(user_param_out[f]) \in Nat /\ Len(stream[f]) \in Nat
          /\ Len(user_param_out'[f]) \in Nat /\ CountIn(triggers, Into(f)) \in Nat
      BY CountTypes
    <3>3. /\ Change(t \in Popping(f), t \in Popping(f)') = 0
          /\ Change(t \in Promising(f), t \in Promising(f)') = 0 - 1
      BY <1>1, <1>3, <2>3, NcFifoAssumption, Members DEF Change, Sending
    <3>4. ResultsBalance(t, f)
      BY <3>1, <3>2, <3>3 DEF ResultsBalance
    <3>. QED
      BY <1>4, <1>6, <3>4, ResultsKept
  <2>. QED
    BY <2>2, <2>3
<1>. QED
  BY <1>6, <1>7, <1>8, <1>9, <1>10, <1>11

\* The trigger of the monitor's owner is no more; its parameters stay behind.
LEMMA MonitorRefusesIInv ==
    ASSUME IInv, MonitorRefuses PROVE IInv'
<1> USE DEF IInv
<1>1. PICK t \in Threads :
         /\ graph_streamm = t /\ pc[t] = "sent" /\ answer = None /\ answer' = "NACK"
         /\ refused < app.maxRefusals /\ refused' = refused + 1
         /\ UNCHANGED <<lists, counts, readers, fifo_mutex, threads, written, graph_streamm, device>>
  BY DEF MonitorRefuses, TypeOK
<1>2. UNCHANGED <<user_param_in, user_param_out, write_count, consumed_by_graph, api_read_element,
                  consumers_remaining, fifo_mutex, pc, call, calls, app, hand, written, graph_streamm,
                  elems, stream, triggers>>
  BY <1>1 DEF lists, counts, readers, threads, made, device
<1>3. OnlyMoves(t)
  BY <1>1, <1>2 DEF OnlyMoves, MutexesKept
<1>4. TypeOK'
  <2>1. app \in Uses /\ refused \in 0..app.maxRefusals
    BY NcFifoAssumption DEF TypeOK
  <2>2. app.maxRefusals \in Nat
    BY <2>1 DEF Uses
  <2>3. refused' \in 0..app.maxRefusals
    BY <1>1, <2>1, <2>2
  <2>. QED
    BY <1>1, <1>2, <2>3 DEF TypeOK
<1>5. CallsFit'
  BY <1>2 DEF CallsFit
<1>6. MutexesKept'
  BY <1>1, <1>2, NcFifoAssumption DEF MutexesKept
<1>7. CountsAgree'
  BY <1>2 DEF CountsAgree
<1>8. Inputs'
  BY <1>1, <1>3, <1>2, <1>4, InputsStay DEF Undecided
<1>9. Results'
  BY <1>1, <1>3, <1>2, <1>4, ResultsStay DEF Sending
<1>. QED
  BY <1>4, <1>5, <1>6, <1>7, <1>8, <1>9

\* The oldest trigger takes an element and leaves a result: one of each is counted for
\* it.
LEMMA ExecuteIInv ==
    ASSUME IInv, Execute PROVE IInv'
<1> USE DEF IInv
<1>1. PICK e \in [fi : Fifos, fo : Fifos] :
         /\ triggers # <<>> /\ e = Head(triggers) /\ triggers' = Tail(triggers)
         /\ elems[e.fi] # <<>>
         /\ stream' = [stream EXCEPT ![e.fo] = Append(stream[e.fo], Head(elems[e.fi]))]
         /\ elems' = [f \in Fifos |->
               IF f = e.fi THEN Tail(elems[f])
               ELSE IF f = e.fo /\ e.fo \in Chained THEN Append(elems[f], Head(elems[e.fi]))
               ELSE elems[f]]
  <2>1. triggers \in Seq([fi : Fifos, fo : Fifos]) /\ triggers # <<>>
    BY DEF Execute, TypeOK
  <2>2. Head(triggers) \in [fi : Fifos, fo : Fifos]
    <3> DEFINE Triggers == [fi : Fifos, fo : Fifos]
    <3>1. triggers \in Seq(Triggers) /\ triggers # <<>>
      BY <2>1
    <3>. HIDE DEF Triggers
    <3>2. Head(triggers) \in Triggers
      BY <3>1
    <3>. QED
      BY <3>2 DEF Triggers
  <2>. QED
    BY <2>2 DEF Execute
<1>2. UNCHANGED <<user_param_in, user_param_out, write_count, consumed_by_graph, api_read_element,
                  consumers_remaining, fifo_mutex, pc, call, calls, app, hand, written, graph_streamm,
                  answer, refused>>
  BY DEF Execute, lists, counts, readers, threads, made, monitor
<1>3. OnlyMoves(None)
  BY <1>2 DEF OnlyMoves
<1>4. e.fi \in Fifos /\ e.fo \in Fifos
  OBVIOUS
<1>5. /\ elems' \in [Fifos -> Seq(Nat)] /\ Head(elems[e.fi]) \in Nat
      /\ Len(elems[e.fi]) \in Nat /\ Len(elems'[e.fi]) = Len(elems[e.fi]) - 1
      /\ \A f \in Writable \ {e.fi} : elems'[f] = elems[f]
  <2>1. elems \in [Fifos -> Seq(Nat)] /\ elems[e.fi] \in Seq(Nat)
    BY DEF TypeOK
  <2>2. Head(elems[e.fi]) \in Nat /\ Tail(elems[e.fi]) \in Seq(Nat)
        /\ Len(elems[e.fi]) \in Nat /\ Len(Tail(elems[e.fi])) = Len(elems[e.fi]) - 1
    BY <1>1, <2>1
  <2>3. \A f \in Fifos : Append(elems[f], Head(elems[e.fi])) \in Seq(Nat)
    BY <2>1, <2>2
  <2>4. elems' \in [Fifos -> Seq(Nat)]
    BY <1>1, <2>3
  <2>5. elems'[e.fi] = Tail(elems[e.fi])
    BY <1>1
  <2>6. \A f \in Writable \ {e.fi} : elems'[f] = elems[f]
    BY <1>1, NcFifoAssumption DEF Writable
  <2>. QED
    BY <2>2, <2>4, <2>5, <2>6
<1>6. /\ stream' \in [Fifos -> Seq(Nat)]
      /\ Len(stream[e.fo]) \in Nat /\ Len(stream'[e.fo]) = Len(stream[e.fo]) + 1
      /\ \A f \in Fifos \ {e.fo} : stream'[f] = stream[f]
  <2>1. stream \in [Fifos -> Seq(Nat)]
    BY DEF TypeOK
  <2>. QED
    BY <1>1, <1>5, <2>1
<1>7. /\ triggers' \in Seq([fi : Fifos, fo : Fifos])
      /\ \A f \in Fifos :
            /\ CountIn(triggers, From(f)) = CountIn(triggers', From(f)) + (IF f = e.fi THEN 1 ELSE 0)
            /\ CountIn(triggers, Into(f)) = CountIn(triggers', Into(f)) + (IF f = e.fo THEN 1 ELSE 0)
            /\ CountIn(triggers', From(f)) \in Nat /\ CountIn(triggers', Into(f)) \in Nat
  <2>1. \A f \in Fifos : (e \in From(f) <=> f = e.fi) /\ (e \in Into(f) <=> f = e.fo)
    BY DEF From, Into
  <2>2. triggers \in Seq([fi : Fifos, fo : Fifos])
    BY DEF TypeOK
  <2>3. triggers' \in Seq([fi : Fifos, fo : Fifos])
    BY <1>1, <2>2
  <2>4. \A S : CountIn(triggers, S) = CountIn(triggers', S) + (IF e \in S THEN 1 ELSE 0)
    BY <1>1, <2>2, CountInTail
  <2>5. \A S : CountIn(triggers', S) \in Nat
    BY <2>3, CountInType
  <2>6. ASSUME NEW f \in Fifos
        PROVE  /\ CountIn(triggers, From(f)) = CountIn(triggers', From(f)) + (IF f = e.fi THEN 1 ELSE 0)
               /\ CountIn(triggers, Into(f)) = CountIn(triggers', Into(f)) + (IF f = e.fo THEN 1 ELSE 0)
    BY <2>1, <2>4
  <2>. QED
    BY <2>3, <2>5, <2>6
<1>8. TypeOK'
  BY <1>2, <1>5, <1>6, <1>7 DEF TypeOK
<1>9. CallsFit'
  BY <1>2 DEF CallsFit
<1>10. MutexesKept'
  BY <1>2 DEF MutexesKept
<1>11. CountsAgree'
  BY <1>2 DEF CountsAgree
<1>12. Inputs'
  <2> SUFFICES ASSUME NEW f \in Writable PROVE InputsFor(f)'
    BY DEF Inputs
  <2>1. f \in Fifos
    BY DEF Writable
  <2>2. CASE f # e.fi
    <3>1. /\ elems'[f] = elems[f] /\ user_param_in'[f] = user_param_in[f]
          /\ CountIn(triggers', From(f)) = CountIn(triggers, From(f))
      BY <1>2, <1>5, <1>7, <2>1, <2>2
    <3>2. (None \in Pushing(f)' => None \in Pushing(f)) /\ (None \in Taking(f)' => None \in Taking(f))
      BY NobodyMoves
    <3>. QED
      BY <1>3, <1>8, <3>1, <3>2, InputsSame
  <2>3. CASE f = e.fi
    <3>1. /\ Len(elems'[f]) = Len(elems[f]) - 1
          /\ Len(user_param_in'[f]) = Len(user_param_in[f])
          /\ CountIn(triggers', From(f)) = CountIn(triggers, From(f)) - 1
      BY <1>2, <1>5, <1>7, <2>3
    <3>2. /\ Len(elems[f]) \in Nat /\ Len(user_param_in[f]) \in Nat
          /\ Len(elems'[f]) \in Nat /\ CountIn(triggers, From(f)) \in Nat
      BY CountTypes
    <3>3. /\ Change(None \in Pushing(f), None \in Pushing(f)') = 0
          /\ Change(None \in Taking(f), None \in Taking(f)') = 0
      BY NobodyMoves DEF Change
    <3>4. InputsBalance(None, f)
      BY <3>1, <3>2, <3>3 DEF InputsBalance
    <3>. QED
      BY <1>3, <1>8, <3>4, InputsKept
  <2>. QED
    BY <2>2, <2>3
<1>13. Results'
  <2> SUFFICES ASSUME NEW f \in ReadAccess PROVE ResultsFor(f)'
    BY DEF Results
  <2>1. f \in Fifos
    BY NcFifoAssumption
  <2>2. CASE f # e.fo
    <3>1. /\ user_param_out'[f] = user_param_out[f] /\ stream'[f] = stream[f]
          /\ CountIn(triggers', Into(f)) = CountIn(triggers, Into(f))
      BY <1>2, <1>6, <1>7, <2>1, <2>2
    <3>2. (None \in Popping(f)' => None \in Popping(f)) /\ (None \in Promising(f)' => None \in Promising(f))
      BY NobodyMoves
    <3>. QED
      BY <1>3, <1>8, <3>1, <3>2, ResultsSame
  <2>3. CASE f = e.fo
    <3>1. /\ Len(user_param_out'[f]) = Len(user_param_out[f])
          /\ Len(stream'[f]) = Len(stream[f]) + 1
          /\ CountIn(triggers', Into(f)) = CountIn(triggers, Into(f)) - 1
      BY <1>2, <1>6, <1>7, <2>3
    <3>2. /\ Len(user_param_out[f]) \in Nat /\ Len(stream[f]) \in Nat
          /\ Len(user_param_out'[f]) \in Nat /\ CountIn(triggers, Into(f)) \in Nat
      BY CountTypes
    <3>3. /\ Change(None \in Popping(f), None \in Popping(f)') = 0
          /\ Change(None \in Promising(f), None \in Promising(f)') = 0
      BY NobodyMoves DEF Change
    <3>4. ResultsBalance(None, f)
      BY <3>1, <3>2, <3>3 DEF ResultsBalance
    <3>. QED
      BY <1>3, <1>8, <3>4, ResultsKept
  <2>. QED
    BY <2>2, <2>3
<1>. QED
  BY <1>8, <1>9, <1>10, <1>11, <1>12, <1>13

-----------------------------------------------------------------------------
(* The invariant                                                            *)

\* All lists are empty and all threads idle.
LEMMA InitIInv == Init => IInv
<1> SUFFICES ASSUME Init PROVE IInv
  OBVIOUS
<1> USE DEF Init
<1>1. /\ \A t \in Threads : pc[t] = "idle"
      /\ \A f \in Fifos : /\ fifo_mutex[f] = None /\ elems[f] = <<>> /\ stream[f] = <<>>
                          /\ user_param_in[f] = <<>> /\ user_param_out[f] = <<>>
                          /\ write_count[f] = 0 /\ consumed_by_graph[f] = 0
  OBVIOUS
<1>2. TypeOK
  <2>1. /\ consumers_remaining \in [Fifos -> Nat]
        /\ \A f \in Fifos : consumers_remaining[f] \in 1..app.consumerCnt[f]
    BY NcFifoAssumption DEF Uses
  <2>2. \A t \in Threads : app.maxCalls[t] \in Nat
    BY NcFifoAssumption DEF Uses
  <2>3. app.maxRefusals \in Nat
    BY NcFifoAssumption DEF Uses
  <2>4. /\ user_param_in \in [Fifos -> Seq(Params)] /\ user_param_out \in [Fifos -> Seq(Params)]
        /\ elems \in [Fifos -> Seq(Nat)] /\ stream \in [Fifos -> Seq(Nat)]
        /\ triggers \in Seq([fi : Fifos, fo : Fifos])
    OBVIOUS
  <2>. QED
    BY <2>1, <2>2, <2>3 DEF TypeOK, Params
<1>3. CallsFit
  BY DEF CallsFit
<1>4. MutexesKept
  BY NcFifoAssumption DEF MutexesKept
<1>5. CountsAgree
  BY DEF CountsAgree, Writable
<1>6. \A f : /\ Pushing(f) = {} /\ Taking(f) = {} /\ Promising(f) = {} /\ Popping(f) = {}
             /\ Cardinality({}) = 0
  BY FS_EmptySet
     DEF Pushing, Taking, Promising, Popping, Queueing, Producing, Unanswered
<1>7. \A S : CountIn(triggers, S) = 0
  <2>1. ASSUME NEW S PROVE {i \in 1..Len(triggers) : triggers[i] \in S} = {}
    OBVIOUS
  <2>. QED
    BY FS_EmptySet DEF CountIn
<1>8. Inputs
  <2> SUFFICES ASSUME NEW f \in Writable PROVE InputsFor(f)
    BY DEF Inputs
  <2>1. Len(elems[f]) = 0 /\ Len(user_param_in[f]) = 0
    BY DEF Writable
  <2>2. Cardinality(Pushing(f)) = 0 /\ Cardinality(Taking(f)) = 0
    BY <1>6
  <2>3. CountIn(triggers, From(f)) = 0
    BY <1>7
  <2>. HIDE DEF Init
  <2>. QED
    BY <2>1, <2>2, <2>3 DEF InputsFor
<1>9. Results
  <2> SUFFICES ASSUME NEW f \in ReadAccess PROVE ResultsFor(f)
    BY DEF Results
  <2>1. Len(user_param_out[f]) = 0 /\ Len(stream[f]) = 0
    BY NcFifoAssumption
  <2>2. Cardinality(Popping(f)) = 0 /\ Cardinality(Promising(f)) = 0
    BY <1>6
  <2>3. CountIn(triggers, Into(f)) = 0
    BY <1>7
  <2>. HIDE DEF Init
  <2>. QED
    BY <2>1, <2>2, <2>3 DEF ResultsFor
<1>. QED
  BY <1>2, <1>3, <1>4, <1>5, <1>8, <1>9 DEF IInv

\* A stutter.
LEMMA UnchangedIInv ==
    ASSUME IInv, UNCHANGED vars PROVE IInv'
<1> USE DEF IInv, vars, lists, counts, readers, threads, made, monitor, device
<1>1. TypeOK'
  BY DEF TypeOK
<1>2. CallsFit' /\ MutexesKept' /\ CountsAgree'
  BY DEF CallsFit, MutexesKept, CountsAgree
<1>3. OnlyMoves(None)
  BY DEF OnlyMoves
<1>4. ASSUME NEW f \in Writable PROVE InputsFor(f)'
  BY <1>1, <1>3, InputsSame, NobodyMoves
<1>5. ASSUME NEW f \in ReadAccess PROVE ResultsFor(f)'
  BY <1>1, <1>3, ResultsSame, NobodyMoves
<1>. QED
  BY <1>1, <1>2, <1>4, <1>5 DEF Inputs, Results

\* Every step of a thread and of the device keeps the invariant.
LEMMA NextIInv ==
    ASSUME IInv, [Next]_vars PROVE IInv'
<1>1. ASSUME NEW t \in Threads,
             ncFifoWriteElem(t) \/ ncGraphQueueInference(t) \/ ncFifoReadElem(t)
      PROVE  IInv'
  BY <1>1, NcFifoWriteElemIInv, NcGraphQueueInferenceIInv, NcFifoReadElemIInv
<1>2. ASSUME NEW t \in Threads, Inside(t) PROVE IInv'
  <2>1. CASE PushWritten(t) \/ TakeInput(t) \/ LockInput(t) \/ DrainInput(t) \/ PushResult(t)
    BY <2>1, PushWrittenIInv, TakeInputIInv, LockInputIInv, DrainInputIInv,
       PushResultIInv
  <2>2. CASE \/ sendGraphMonitorRequest(t) \/ checkGraphMonitorResponse(t)
             \/ ReadResult(t) \/ PopResult(t)
    BY <2>2, SendGraphMonitorRequestIInv, CheckGraphMonitorResponseIInv,
       ReadResultIInv, PopResultIInv
  <2>. QED
    BY <1>2, <2>1, <2>2 DEF Inside
<1>3. CASE MonitorAccepts \/ MonitorRefuses \/ Execute
  BY <1>3, MonitorAcceptsIInv, MonitorRefusesIInv, ExecuteIInv
<1>. QED
  BY <1>1, <1>2, <1>3, UnchangedIInv DEF Next

\* The invariant holds in every state, whatever the applications do.
THEOREM FifoInvariant == Spec => []IInv
<1>1. Init => IInv
  BY InitIInv
<1>2. IInv /\ [Next]_vars => IInv'
  BY NextIInv
<1>. QED
  BY <1>1, <1>2, PTL DEF Spec

-----------------------------------------------------------------------------
(* What follows from it                                                     *)

\* The triggers counted by the model's Triggered.
LEMMA TriggeredCounts ==
    ASSUME TypeOK, NEW f
    PROVE  /\ Triggered(LAMBDA trigger : trigger.fi = f) = CountIn(triggers, From(f))
           /\ Triggered(LAMBDA trigger : trigger.fo = f) = CountIn(triggers, Into(f))
<1>. DEFINE T == [fi : Fifos, fo : Fifos]
<1>0. triggers \in Seq(T)
  BY DEF TypeOK
<1>. HIDE DEF T
<1>1. \A i \in 1..Len(triggers) : triggers[i] \in T
  BY <1>0
<1>. USE DEF T
<1>2. {i \in 1..Len(triggers) : triggers[i].fi = f}
         = {i \in 1..Len(triggers) : triggers[i] \in From(f)}
  BY <1>1 DEF From
<1>3. {i \in 1..Len(triggers) : triggers[i].fo = f}
         = {i \in 1..Len(triggers) : triggers[i] \in Into(f)}
  BY <1>1 DEF Into
<1>. QED
  BY <1>2, <1>3 DEF Triggered, CountIn

\* Every variable keeps its type, and no fifo is without a consumer left while
\* its mutex is free, so that the count never passes zero
\* (ncGraphQueueInference, ncFifoReadElem).
THEOREM TypeCorrect == Spec => []TypeOK
<1>1. IInv => TypeOK
  BY DEF IInv
<1>. QED
  BY <1>1, FifoInvariant, PTL

\* The two lists of a fifo hold a parameter for every element that a call is
\* still to take from it, also when threads share a fifo, graphs are chained or
\* triggers are refused: no call pops NULL from an empty list (popUserParam).
THEOREM ParametersAreKept == Spec => []ParametersKept
<1>1. ASSUME IInv PROVE ParametersKept
  <2> USE <1>1 DEF IInv
  <2>1. ReaderFindsParam
    BY TriggeredCounts DEF Results, ResultsFor, ReaderFindsParam, Popping, Promising
  <2>. QED
    BY <2>1 DEF ParametersKept
<1>. QED
  BY <1>1, FifoInvariant, PTL

\* No trigger reaches the device before the element it is to consume
\* (ncFifoWriteElem sends the tensor before it counts it).
THEOREM TriggersFindInput == Spec => []TriggersHaveInput
<1>1. ASSUME IInv PROVE TriggersHaveInput
  <2> SUFFICES ASSUME NEW f \in Writable
               PROVE  Len(elems[f]) >= Cardinality(Taking(f)) + CountIn(triggers, From(f))
    BY <1>1, TriggeredCounts DEF IInv, TriggersHaveInput, Taking
  <2>1. f \in Fifos /\ TypeOK /\ InputsFor(f)
    BY <1>1 DEF IInv, Inputs, Writable
  <2>2. Pushing(f) \in SUBSET Threads /\ Taking(f) \in SUBSET Threads
    BY DEF Pushing, Taking, Queueing, Unanswered
  <2>3. Cardinality(Pushing(f)) \in Nat /\ Cardinality(Taking(f)) \in Nat
    BY <2>2, CountOfPart, NcFifoAssumption
  <2>4. Len(user_param_in[f]) \in Nat /\ Len(elems[f]) \in Nat
    <3>1. user_param_in \in [Fifos -> Seq(Params)] /\ elems \in [Fifos -> Seq(Nat)]
      BY <2>1 DEF TypeOK
    <3>. QED
      OBVIOUS
  <2>5. CountIn(triggers, From(f)) \in Nat
    BY <2>1, CountTypes
  <2>. QED
    BY <2>1, <2>3, <2>5 DEF InputsFor
<1>. QED
  BY <1>1, FifoInvariant, PTL

-----------------------------------------------------------------------------
(* Sequences that are put together                                          *)

\* The elements of a sequence that is put together of two.
LEMMA Joined ==
    ASSUME NEW S, NEW s \in Seq(S), NEW r \in Seq(S)
    PROVE  /\ s \o r \in Seq(S) /\ Len(s \o r) = Len(s) + Len(r)
           /\ DOMAIN (s \o r) = 1..(Len(s) + Len(r))
           /\ \A i \in 1..(Len(s) + Len(r)) :
                (s \o r)[i] = IF i <= Len(s) THEN s[i] ELSE r[i - Len(s)]
           /\ s \o r = <<>> <=> s = <<>> /\ r = <<>>
           /\ s \o <<>> = s /\ <<>> \o s = s
  BY ConcatProperties, ConcatEqualIffEmpty, ConcatEmptySeq

\* An element put before a sequence, and one put after it.
LEMMA OneBefore ==
    ASSUME NEW S, NEW s \in Seq(S), NEW x \in S
    PROVE  /\ <<x>> \in Seq(S) /\ Len(<<x>>) = 1 /\ <<x>> # <<>> /\ Tail(<<x>>) = <<>>
           /\ s \o <<x>> = Append(s, x)
           /\ s # <<>> => <<Head(s)>> \o Tail(s) = s
<1>1. <<x>> \in Seq(S) /\ Len(<<x>>) = 1 /\ <<x>> # <<>> /\ Tail(<<x>>) = <<>>
  OBVIOUS
<1>2. s \o <<x>> = Append(s, x)
  BY AppendIsConcat
<1>3. ASSUME s # <<>> PROVE <<Head(s)>> \o Tail(s) = s
  <2>1. /\ Head(s) \in S /\ Tail(s) \in Seq(S) /\ Len(Tail(s)) = Len(s) - 1
        /\ \A i \in 1..Len(Tail(s)) : Tail(s)[i] = s[i + 1]
        /\ Len(s) \in Nat /\ Len(s) >= 1 /\ Head(s) = s[1]
    BY <1>3, HeadTailProperties
  <2> DEFINE h == <<Head(s)>>  u == Tail(s)
  <2>2. /\ h \in Seq(S) /\ Len(h) = 1 /\ h[1] = s[1]
        /\ u \in Seq(S) /\ Len(u) = Len(s) - 1 /\ Len(s) \in Nat /\ Len(s) >= 1
        /\ \A i \in 1..Len(u) : u[i] = s[i + 1]
    BY <2>1
  <2>. HIDE DEF h, u
  <2>3. /\ h \o u \in Seq(S) /\ Len(h \o u) = Len(s)
        /\ \A i \in 1..Len(s) : (h \o u)[i] = IF i <= 1 THEN h[i] ELSE u[i - 1]
    <3>1. /\ h \o u \in Seq(S) /\ Len(h \o u) = Len(h) + Len(u)
          /\ \A i \in 1..(Len(h) + Len(u)) :
               (h \o u)[i] = IF i <= Len(h) THEN h[i] ELSE u[i - Len(h)]
      BY <2>2, Joined
    <3>2. Len(h) = 1 /\ Len(h) + Len(u) = Len(s)
      BY <2>2
    <3>. QED
      BY <3>1, <3>2
  <2>4. ASSUME NEW i \in 1..Len(s) PROVE (h \o u)[i] = s[i]
    <3>1. (h \o u)[i] = IF i <= 1 THEN h[i] ELSE u[i - 1]
      BY <2>3
    <3>2. CASE i = 1
      BY <2>2, <3>1, <3>2
    <3>3. CASE i # 1
      <4>1. i - 1 \in 1..Len(u) /\ ~(i <= 1)
        BY <2>2, <3>3
      <4>2. u[i - 1] = s[(i - 1) + 1]
        BY <2>2, <4>1
      <4>. QED
        BY <3>1, <4>1, <4>2
    <3>. QED
      BY <3>2, <3>3
  <2>5. h \o u = s
    BY <2>3, <2>4, SeqEqual
  <2>. QED
    BY <2>5 DEF h, u
<1>. QED
  BY <1>1, <1>2, <1>3

\* The first and the last element of a sequence that is put together.
LEMMA EndsOfJoined ==
    ASSUME NEW S, NEW s \in Seq(S), NEW r \in Seq(S)
    PROVE  /\ s # <<>> => Tail(s \o r) = Tail(s) \o r
           /\ \A x \in S : Append(s \o r, x) = s \o Append(r, x)
<1>1. ASSUME s # <<>> PROVE Tail(s \o r) = Tail(s) \o r
  <2>1. Head(s) \in S /\ Tail(s) \in Seq(S) /\ <<Head(s)>> \in Seq(S)
    BY <1>1, HeadTailProperties
  <2> DEFINE h == <<Head(s)>>  u == Tail(s)
  <2>2. h \o u = s /\ h \in Seq(S) /\ u \in Seq(S)
    BY <1>1, <2>1, OneBefore
  <2>3. (h \o u) \o r = h \o (u \o r)
    BY <2>1, ConcatAssociative
  <2>4. u \o r \in Seq(S)
    BY <2>1, Joined
  <2> DEFINE v == u \o r
  <2>5. Tail(h \o v) = v
    <3>. HIDE DEF v
    <3>1. v \in Seq(S)
      BY <2>4 DEF v
    <3>2. /\ h \o v \in Seq(S) /\ Len(h \o v) = 1 + Len(v) /\ h \o v # <<>> /\ Len(v) \in Nat
          /\ \A i \in 1..(1 + Len(v)) : (h \o v)[i] = IF i <= 1 THEN h[i] ELSE v[i - 1]
      <4>1. Len(h) = 1 /\ h # <<>>
        OBVIOUS
      <4>. HIDE DEF h
      <4>. QED
        BY <2>2, <3>1, <4>1, Joined
    <3> DEFINE w == h \o v
    <3>3. w \in Seq(S) /\ w # <<>> /\ Len(w) = 1 + Len(v)
      BY <3>2
    <3>. HIDE DEF w
    <3>4. /\ Tail(w) \in Seq(S) /\ Len(Tail(w)) = Len(v)
          /\ \A i \in 1..Len(Tail(w)) : Tail(w)[i] = w[i + 1]
      BY <3>2, <3>3, HeadTailProperties
    <3>5. ASSUME NEW i \in 1..Len(v) PROVE Tail(w)[i] = v[i]
      <4>1. i + 1 \in 1..(1 + Len(v)) /\ ~(i + 1 <= 1) /\ (i + 1) - 1 = i
        BY <3>2
      <4>2. w[i + 1] = v[(i + 1) - 1]
        BY <3>2, <4>1 DEF w
      <4>. QED
        BY <3>4, <4>1, <4>2
    <3>6. Tail(w) = v
      BY <3>1, <3>4, <3>5, SeqEqual
    <3>. QED
      BY <3>6 DEF w
  <2>. QED
    BY <2>2, <2>3, <2>5
<1>2. ASSUME NEW x \in S PROVE Append(s \o r, x) = s \o Append(r, x)
  <2> DEFINE o == <<x>>
  <2>1. o \in Seq(S) /\ s \o r \in Seq(S)
    BY Joined
  <2>2. Append(s \o r, x) = (s \o r) \o o /\ Append(r, x) = r \o o
    BY <2>1, OneBefore
  <2>3. (s \o r) \o o = s \o (r \o o)
    BY <2>1, ConcatAssociative
  <2>. QED
    BY <2>2, <2>3
<1>. QED
  BY <1>1, <1>2
\* A sequence that is put together loses its first element.
LEMMA Shortened ==
    ASSUME NEW S, NEW s \in Seq(S), NEW r \in Seq(S), s # <<>>
    PROVE  s \o r \in Seq(S) /\ s \o r # <<>> /\ Tail(s \o r) = Tail(s) \o r
<1>1. s \o r \in Seq(S) /\ s \o r # <<>>
  BY Joined
<1>2. Tail(s \o r) = Tail(s) \o r
  BY EndsOfJoined
<1>. QED
  BY <1>1, <1>2

-----------------------------------------------------------------------------
(* The order of tensors and parameters                                      *)

\* A trigger of the graph between In and Out, or one of other fifos.
TriggersFit == \A i \in DOMAIN triggers : triggers[i].fi = In <=> triggers[i].fo = Out

\* The tensors that have not been returned are, in their order, those that the
\* parameters name.
InOrder == OneEach => TriggersFit /\ Unread = Parameters

\* What a step does to both: nothing, a tensor more with its parameter, or one of
\* each less.
Kept == Unread' = Unread /\ Parameters' = Parameters
Given == \E n \in Nat : Unread' = Append(Unread, n) /\ Parameters' = Append(Parameters, n)
Returned == /\ Unread # <<>> /\ Unread' = Tail(Unread)
            /\ Parameters # <<>> /\ Parameters' = Tail(Parameters)

\* What the only thread of a set has in its hands.
Hand(S, h) == IF S = {} THEN <<>> ELSE <<h[CHOOSE t \in S : TRUE]>>

\* The hands of a set before and after a step of t, which alone may enter or leave it.
HandMoves(before, after, was, is, old, new) ==
    /\ ~was /\ ~is => after = before
    /\ was => before = <<old>>
    /\ is => after = <<new>>
    /\ was /\ ~is => after = <<>>
    /\ ~was /\ is => before = <<>>

LEMMA OneHand ==
    ASSUME NEW S \in SUBSET Threads, NEW T \in SUBSET Threads, AtMostOne(S), AtMostOne(T),
           NEW t, \A q \in Threads \ {t} : q \in S <=> q \in T,
           NEW g, NEW h, \A q \in Threads \ {t} : h[q] = g[q]
    PROVE  HandMoves(Hand(S, g), Hand(T, h), t \in S, t \in T, g[t], h[t])
<1>1. ASSUME NEW A, NEW k, AtMostOne(A), t \in A PROVE Hand(A, k) = <<k[t]>>
  <2>1. (CHOOSE x \in A : TRUE) = t
    BY <1>1 DEF AtMostOne
  <2>. QED
    BY <1>1, <2>1 DEF Hand
<1>2. ASSUME t \notin S, t \notin T PROVE Hand(T, h) = Hand(S, g)
  <2>1. S = T
    BY <1>2
  <2>2. CASE S = {}
    BY <2>1, <2>2 DEF Hand
  <2>3. CASE S # {}
    <3>1. (CHOOSE x \in S : TRUE) \in S
      BY <2>3
    <3>. QED
      BY <1>2, <2>1, <2>3, <3>1 DEF Hand
  <2>. QED
    BY <2>2, <2>3
<1>3. ASSUME t \in S, t \notin T PROVE T = {}
  BY <1>3 DEF AtMostOne
<1>4. ASSUME t \notin S, t \in T PROVE S = {}
  BY <1>4 DEF AtMostOne
<1>. QED
  BY <1>1, <1>2, <1>3, <1>4 DEF HandMoves, Hand

\* One thread at a time has a tensor or a parameter of In and Out in its hands.
LEMMA OneThread ==
    ASSUME CallsFit, CallsFit', OneEach, app' = app
    PROVE  /\ AtMostOne(Queueing(In, {"push"})) /\ AtMostOne(Queueing(In, {"push"})')
           /\ AtMostOne(Queueing(In, {"result"})) /\ AtMostOne(Queueing(In, {"result"})')
           /\ AtMostOne(Producing(Out, {"pop"})) /\ AtMostOne(Producing(Out, {"pop"})')
<1>1. /\ Queueing(In, {"push"}) \subseteq Writers /\ Queueing(In, {"push"})' \subseteq Writers
  BY DEF CallsFit, Queueing, Writers
<1>2. /\ Queueing(In, {"result"}) \subseteq Queuers /\ Queueing(In, {"result"})' \subseteq Queuers
  BY DEF CallsFit, Queueing, Queuers
<1>3. /\ Producing(Out, {"pop"}) \subseteq Readers /\ Producing(Out, {"pop"})' \subseteq Readers
  BY DEF CallsFit, Producing, Readers
<1>. QED
  BY <1>1, <1>2, <1>3 DEF OneEach, AtMostOne

\* The hands of these threads.
LEMMA HandsAre ==
    /\ Sent = Hand(Queueing(In, {"push"}), hand) /\ Sent' = Hand(Queueing(In, {"push"})', hand')
    /\ Taken = Hand(Queueing(In, {"result"}), hand) /\ Taken' = Hand(Queueing(In, {"result"})', hand')
    /\ Copied = Hand(Producing(Out, {"pop"}), hand) /\ Copied' = Hand(Producing(Out, {"pop"})', hand')
  BY DEF Sent, Taken, Copied, InHands, Hand

\* t has sent a tensor, taken a parameter or copied a result, of In and Out.
Sends(t) == pc[t] = "push" /\ call[t].fi = In
Takes(t) == pc[t] = "result" /\ call[t].fi = In
Copies(t) == pc[t] = "pop" /\ call[t].fo = Out

LEMMA HandsMove ==
    ASSUME CallsFit, CallsFit', OneEach, app' = app, NEW t \in Threads, OnlyMoves(t),
           \A q \in Threads \ {t} : hand'[q] = hand[q]
    PROVE  /\ HandMoves(Sent, Sent', Sends(t), Sends(t)', hand[t], hand'[t])
           /\ HandMoves(Taken, Taken', Takes(t), Takes(t)', hand[t], hand'[t])
           /\ HandMoves(Copied, Copied', Copies(t), Copies(t)', hand[t], hand'[t])
<1>1. ASSUME NEW q \in Threads
      PROVE  /\ q \in Queueing(In, {"push"}) <=> Sends(q)
             /\ q \in Queueing(In, {"push"})' <=> Sends(q)'
             /\ q \in Queueing(In, {"result"}) <=> Takes(q)
             /\ q \in Queueing(In, {"result"})' <=> Takes(q)'
             /\ q \in Producing(Out, {"pop"}) <=> Copies(q)
             /\ q \in Producing(Out, {"pop"})' <=> Copies(q)'
  BY DEF Queueing, Producing, Sends, Takes, Copies
<1>2. /\ Queueing(In, {"push"}) \in SUBSET Threads /\ Queueing(In, {"push"})' \in SUBSET Threads
      /\ Queueing(In, {"result"}) \in SUBSET Threads /\ Queueing(In, {"result"})' \in SUBSET Threads
      /\ Producing(Out, {"pop"}) \in SUBSET Threads /\ Producing(Out, {"pop"})' \in SUBSET Threads
  BY DEF Queueing, Producing
<1>3. \A q \in Threads \ {t} : /\ Sends(q) <=> Sends(q)'
                               /\ Takes(q) <=> Takes(q)'
                               /\ Copies(q) <=> Copies(q)'
  BY DEF OnlyMoves, Sends, Takes, Copies
<1>4. HandMoves(Hand(Queueing(In, {"push"}), hand), Hand(Queueing(In, {"push"})', hand'),
                t \in Queueing(In, {"push"}), t \in Queueing(In, {"push"})', hand[t], hand'[t])
  BY <1>1, <1>2, <1>3, OneThread, OneHand
<1>5. HandMoves(Hand(Queueing(In, {"result"}), hand), Hand(Queueing(In, {"result"})', hand'),
                t \in Queueing(In, {"result"}), t \in Queueing(In, {"result"})', hand[t], hand'[t])
  BY <1>1, <1>2, <1>3, OneThread, OneHand
<1>6. HandMoves(Hand(Producing(Out, {"pop"}), hand), Hand(Producing(Out, {"pop"})', hand'),
                t \in Producing(Out, {"pop"}), t \in Producing(Out, {"pop"})', hand[t], hand'[t])
  BY <1>1, <1>2, <1>3, OneThread, OneHand
<1>8. HandMoves(Sent, Sent', Sends(t), Sends(t)', hand[t], hand'[t])
  BY <1>1, <1>4, HandsAre DEF HandMoves
<1>9. HandMoves(Taken, Taken', Takes(t), Takes(t)', hand[t], hand'[t])
  BY <1>1, <1>5, HandsAre DEF HandMoves
<1>10. HandMoves(Copied, Copied', Copies(t), Copies(t)', hand[t], hand'[t])
  BY <1>1, <1>6, HandsAre DEF HandMoves
<1>. QED
  BY <1>8, <1>9, <1>10

\* The parts of the two sequences.
LEMMA Parts ==
    ASSUME TypeOK, OneEach
    PROVE  /\ In \in Fifos /\ In \in Writable /\ Out \in Fifos /\ Out \in ReadAccess /\ In # Out
           /\ stream[Out] \in Seq(Params) /\ elems[In] \in Seq(Params)
           /\ user_param_out[Out] \in Seq(Params) /\ user_param_in[In] \in Seq(Params)
           /\ Sent \in Seq(Params) /\ Taken \in Seq(Params) /\ Copied \in Seq(Params)
           /\ Unread \in Seq(Params) /\ Parameters \in Seq(Params)
<1>1. In \in Fifos /\ In \in Writable /\ Out \in Fifos /\ Out \in ReadAccess /\ In # Out
  BY NcFifoAssumption DEF OneEach, Writable
<1>2. stream[Out] \in Seq(Nat) /\ elems[In] \in Seq(Nat)
  <2>1. stream \in [Fifos -> Seq(Nat)] /\ elems \in [Fifos -> Seq(Nat)]
    BY DEF TypeOK
  <2>. QED
    BY <1>1, <2>1
<1>3. user_param_out[Out] \in Seq(Params) /\ user_param_in[In] \in Seq(Params)
  <2>1. user_param_in \in [Fifos -> Seq(Params)] /\ user_param_out \in [Fifos -> Seq(Params)]
    BY DEF TypeOK
  <2>. QED
    BY <1>1, <2>1
<1>4. \A s \in Seq(Nat) : s \in Seq(Params)
  BY DEF Params
<1>5. ASSUME NEW S \in SUBSET Threads PROVE InHands(S) \in Seq(Params)
  <2>1. CASE S = {}
    BY <2>1 DEF InHands
  <2>2. CASE S # {}
    <3>1. (CHOOSE t \in S : TRUE) \in Threads
      BY <2>2
    <3>2. hand[CHOOSE t \in S : TRUE] \in Params
      BY <3>1 DEF TypeOK
    <3> DEFINE x == hand[CHOOSE t \in S : TRUE]
    <3>3. <<x>> \in Seq(Params)
      <4>. HIDE DEF x
      <4>1. x \in Params
        BY <3>2 DEF x
      <4>. QED
        BY <4>1
    <3>. QED
      BY <2>2, <3>3 DEF InHands
  <2>. QED
    BY <2>1, <2>2
<1>6. Sent \in Seq(Params) /\ Taken \in Seq(Params) /\ Copied \in Seq(Params)
  BY <1>5 DEF Sent, Taken, Copied, Queueing, Producing
<1>7. Unread \in Seq(Params) /\ Parameters \in Seq(Params)
  BY <1>2, <1>3, <1>4, <1>6, Joined DEF Unread, Parameters
<1>. QED
  BY <1>1, <1>2, <1>3, <1>4, <1>6, <1>7

-----------------------------------------------------------------------------
(* The steps of tensors and parameters                                      *)

\* Who begins a call, or goes on with it, while the others stay where they are.
LEMMA CallMoves ==
    ASSUME IInv, IInv', OneEach, NEW t \in Threads, app' = app, answer' = answer,
           NEW label, Goes(t, label), NEW d, call' = [call EXCEPT ![t] = d] \/ call' = call,
           NEW h, Holds(t, h) \/ hand' = hand
    PROVE  /\ pc'[t] = label /\ OnlyMoves(t)
           /\ call' = [call EXCEPT ![t] = d] => call'[t] = d
           /\ Holds(t, h) => hand'[t] = h
           /\ HandMoves(Sent, Sent', Sends(t), Sends(t)', hand[t], hand'[t])
           /\ HandMoves(Taken, Taken', Takes(t), Takes(t)', hand[t], hand'[t])
           /\ HandMoves(Copied, Copied', Copies(t), Copies(t)', hand[t], hand'[t])
<1>1. /\ pc'[t] = label
      /\ \A q \in Threads \ {t} : pc'[q] = pc[q] /\ call'[q] = call[q] /\ hand'[q] = hand[q]
      /\ call' = [call EXCEPT ![t] = d] => call'[t] = d
      /\ Holds(t, h) => hand'[t] = h
  BY DEF IInv, TypeOK, Goes, Holds
<1>2. OnlyMoves(t)
  BY <1>1 DEF OnlyMoves
<1>. QED
  BY <1>1, <1>2, HandsMove DEF IInv

\* Nothing is in other hands, and the lists of In and Out are the same.
LEMMA NothingMoves ==
    ASSUME Sent' = Sent, Taken' = Taken, Copied' = Copied,
           stream'[Out] = stream[Out], elems'[In] = elems[In],
           user_param_out'[Out] = user_param_out[Out], user_param_in'[In] = user_param_in[In]
    PROVE  Kept
  BY DEF Kept, Unread, Parameters

\* ncFifoWriteElem gives the device a tensor more.
LEMMA WriteOrder ==
    ASSUME IInv, IInv', OneEach, NEW t \in Threads, ncFifoWriteElem(t) PROVE Given \/ Kept
<1>1. PICK d \in app.calls[t] :
         /\ Begins(t, d, {"write", "writequeue"}) /\ Goes(t, "push")
         /\ Holds(t, written + 1) /\ written \in Nat
         /\ elems' = [elems EXCEPT ![d.fi] = Append(elems[d.fi], written + 1)]
         /\ UNCHANGED <<user_param_in, user_param_out, stream, answer>>
  BY DEF ncFifoWriteElem, lists, monitor, IInv, TypeOK
<1>2. pc[t] = "idle" /\ call' = [call EXCEPT ![t] = d] /\ app' = app
  BY <1>1 DEF Begins
<1>3. /\ pc'[t] = "push" /\ call'[t] = d /\ hand'[t] = written + 1
      /\ HandMoves(Sent, Sent', Sends(t), Sends(t)', hand[t], hand'[t])
      /\ HandMoves(Taken, Taken', Takes(t), Takes(t)', hand[t], hand'[t])
      /\ HandMoves(Copied, Copied', Copies(t), Copies(t)', hand[t], hand'[t])
  BY <1>1, <1>2, CallMoves
<1>4. /\ ~Sends(t) /\ ~Takes(t) /\ ~Takes(t)' /\ ~Copies(t) /\ ~Copies(t)'
      /\ Sends(t)' <=> d.fi = In
  BY <1>2, <1>3 DEF Sends, Takes, Copies
<1>5. Taken' = Taken /\ Copied' = Copied
  BY <1>3, <1>4 DEF HandMoves
<1>6. CASE d.fi = In
  <2>1. Sent = <<>> /\ Sent' = <<written + 1>>
    BY <1>3, <1>4, <1>6 DEF HandMoves
  <2>2. elems'[In] = Append(elems[In], written + 1)
    BY <1>1, <1>6, Parts DEF IInv, TypeOK
  <2>3. PICK n \in Nat : n = written + 1 /\ n \in Params
    BY <1>1 DEF Params
  <2> DEFINE before == Copied \o stream[Out]
             params == user_param_out[Out] \o Taken \o user_param_in[In]
             list == elems[In]
  <2>4. before \in Seq(Params) /\ params \in Seq(Params) /\ list \in Seq(Params)
    BY Parts, Joined DEF IInv
  <2>5. /\ Unread = before \o list /\ Unread' = before \o Append(list, n)
        /\ Parameters = params \o <<>> /\ Parameters' = params \o <<n>>
    BY <1>1, <1>5, <2>1, <2>2, <2>3 DEF Unread, Parameters
  <2>. HIDE DEF before, params, list
  <2>6. before \o Append(list, n) = Append(before \o list, n)
    BY <2>3, <2>4, EndsOfJoined
  <2>7. Parameters' = Append(Parameters, n)
    BY <2>3, <2>4, <2>5, OneBefore, Joined
  <2>. QED
    BY <2>3, <2>5, <2>6, <2>7 DEF Given
<1>7. CASE d.fi # In
  <2>1. Sent' = Sent
    BY <1>3, <1>4, <1>7 DEF HandMoves
  <2>2. elems'[In] = elems[In]
    BY <1>1, <1>7, Parts DEF IInv, TypeOK
  <2>. QED
    BY <1>1, <1>5, <2>1, <2>2, NothingMoves
<1>. QED
  BY <1>6, <1>7

\* The parameter of the tensor goes from the hand of its writer to the list.
LEMMA PushWrittenOrder ==
    ASSUME IInv, IInv', OneEach, NEW t \in Threads, PushWritten(t) PROVE Kept
<1> DEFINE fi == call[t].fi  h == hand[t]
           label == IF call[t].op = "write" THEN "idle" ELSE "queue"
<1>1. /\ pc[t] = "push" /\ Goes(t, label) /\ Holds(t, None)
      /\ user_param_in' = [user_param_in EXCEPT ![fi] = Append(user_param_in[fi], h)]
      /\ UNCHANGED <<user_param_out, stream, elems, answer, call, app>>
  BY DEF PushWritten, pushUserParam, made, monitor, device
<1>2. /\ pc'[t] = label
      /\ HandMoves(Sent, Sent', Sends(t), Sends(t)', hand[t], hand'[t])
      /\ HandMoves(Taken, Taken', Takes(t), Takes(t)', hand[t], hand'[t])
      /\ HandMoves(Copied, Copied', Copies(t), Copies(t)', hand[t], hand'[t])
  <2>. HIDE DEF label
  <2>. QED
    BY <1>1, CallMoves
<1>3. /\ ~Sends(t)' /\ ~Takes(t) /\ ~Takes(t)' /\ ~Copies(t) /\ ~Copies(t)'
      /\ Sends(t) <=> fi = In
  BY <1>1, <1>2 DEF Sends, Takes, Copies
<1>4. Taken' = Taken /\ Copied' = Copied
  BY <1>2, <1>3 DEF HandMoves
<1>. HIDE DEF label
<1>5. CASE fi = In
  <2>1. Sent = <<h>> /\ Sent' = <<>>
    BY <1>2, <1>3, <1>5 DEF HandMoves
  <2>2. user_param_in'[In] = Append(user_param_in[In], h) /\ h \in Params
    BY <1>1, <1>5, Parts DEF IInv, TypeOK
  <2> DEFINE before == user_param_out[Out] \o Taken  list == user_param_in[In]
  <2>3. before \in Seq(Params) /\ list \in Seq(Params)
    BY Parts, Joined DEF IInv
  <2>4. /\ Parameters = (before \o list) \o <<h>>
        /\ Parameters' = (before \o Append(list, h)) \o <<>>
    BY <1>1, <1>4, <2>1, <2>2 DEF Parameters
  <2>. HIDE DEF before, list, h
  <2>5. /\ before \o Append(list, h) = Append(before \o list, h) /\ before \o list \in Seq(Params)
    BY <2>2, <2>3, EndsOfJoined, Joined
  <2>6. (before \o list) \o <<h>> = Append(before \o list, h)
    BY <2>2, <2>5, OneBefore
  <2>7. Append(before \o list, h) \in Seq(Params)
    BY <2>2, <2>5
  <2>8. Append(before \o list, h) \o <<>> = Append(before \o list, h)
    BY <2>7, Joined
  <2>9. Parameters' = Parameters
    BY <2>4, <2>5, <2>6, <2>8
  <2>. QED
    BY <1>1, <1>4, <2>9 DEF Kept, Unread
<1>6. CASE fi # In
  <2>1. Sent' = Sent
    BY <1>2, <1>3, <1>6 DEF HandMoves
  <2>2. user_param_in'[In] = user_param_in[In]
    BY <1>1, <1>6, Parts DEF IInv, TypeOK
  <2>. QED
    BY <1>1, <1>4, <2>1, <2>2, NothingMoves
<1>. QED
  BY <1>5, <1>6

\* The oldest parameter of the input goes from the list to the hand of its taker.
LEMMA TakeOrder ==
    ASSUME IInv, IInv', OneEach, NEW t \in Threads, pc[t] \in {"queue", "drain"},
           TakeParam(t, call[t].fi), stream'[Out] = stream[Out],
           UNCHANGED <<user_param_out, elems, answer, call, app>>
    PROVE  Kept
<1> DEFINE fi == call[t].fi  list == user_param_in[In]
           label == IF NoElement(fi) THEN "idle" ELSE "result"
<1>0. fi \in Fifos
  BY FifosOfCall DEF IInv
<1>1. /\ Goes(t, label)
      /\ user_param_in' = [user_param_in EXCEPT ![fi] = popUserParam(user_param_in[fi])]
      /\ NoElement(fi) => hand' = hand
      /\ ~NoElement(fi) => Holds(t, PoppedParam(user_param_in[fi]))
  BY DEF TakeParam
<1>2. /\ pc'[t] = label
      /\ ~NoElement(fi) => hand'[t] = PoppedParam(user_param_in[fi])
      /\ HandMoves(Sent, Sent', Sends(t), Sends(t)', hand[t], hand'[t])
      /\ HandMoves(Taken, Taken', Takes(t), Takes(t)', hand[t], hand'[t])
      /\ HandMoves(Copied, Copied', Copies(t), Copies(t)', hand[t], hand'[t])
  <2>. HIDE DEF label
  <2>. QED
    BY <1>1, CallMoves
<1>3. /\ ~Sends(t) /\ ~Sends(t)' /\ ~Takes(t) /\ ~Copies(t) /\ ~Copies(t)'
      /\ Takes(t)' <=> fi = In /\ ~NoElement(fi)
  BY <1>1, <1>2 DEF Sends, Takes, Copies
<1>4. Sent' = Sent /\ Copied' = Copied
  BY <1>2, <1>3 DEF HandMoves
<1>. HIDE DEF label
<1>5. /\ In \in Fifos /\ In \in Writable /\ list \in Seq(Params) /\ user_param_in \in [Fifos -> Seq(Params)]
      /\ NoElement(In) <=> list = <<>>
  <2>1. In \in Fifos /\ In \in Writable /\ list \in Seq(Params)
    BY Parts DEF IInv
  <2>2. /\ write_count[In] = consumed_by_graph[In] + Len(list)
        /\ write_count[In] \in Nat /\ consumed_by_graph[In] \in Nat
    BY <2>1, CountTypes DEF IInv, CountsAgree
  <2>3. Len(list) \in Nat /\ (Len(list) = 0 <=> list = <<>>)
    BY <2>1
  <2>. HIDE DEF list
  <2>4. NoElement(In) <=> Len(list) = 0
    BY <2>2, <2>3 DEF NoElement
  <2>. QED
    BY <2>1, <2>3, <2>4 DEF IInv, TypeOK
<1>6. CASE fi = In /\ ~NoElement(fi)
  <2>1. list # <<>> /\ user_param_in'[In] = Tail(list) /\ hand'[t] = Head(list)
    BY <1>1, <1>2, <1>5, <1>6 DEF popUserParam, PoppedParam
  <2>2. Taken = <<>> /\ Taken' = <<Head(list)>>
    BY <1>2, <1>3, <1>6, <2>1 DEF HandMoves
  <2> DEFINE out == user_param_out[Out]
  <2>3. /\ Parameters = ((out \o <<>>) \o list) \o Sent
        /\ Parameters' = ((out \o <<Head(list)>>) \o Tail(list)) \o Sent
    BY <1>4, <2>1, <2>2 DEF Parameters
  <2>4. out \in Seq(Params)
    BY Parts DEF IInv
  <2>. HIDE DEF out, list
  <2>5. /\ Head(list) \in Params /\ Tail(list) \in Seq(Params)
        /\ <<Head(list)>> \in Seq(Params) /\ <<Head(list)>> \o Tail(list) = list
    <3>1. Head(list) \in Params /\ Tail(list) \in Seq(Params)
      BY <1>5, <2>1
    <3>. QED
      BY <1>5, <2>1, <3>1, OneBefore
  <2>6. (out \o <<Head(list)>>) \o Tail(list) = out \o list
    BY <2>4, <2>5, ConcatAssociative
  <2>7. out \o <<>> = out
    BY <2>4, Joined
  <2>. QED
    BY <1>4, <2>3, <2>6, <2>7 DEF Kept, Unread
<1>7. CASE fi # In \/ NoElement(fi)
  <2>1. Taken' = Taken
    BY <1>2, <1>3, <1>7 DEF HandMoves
  <2>2. user_param_in'[In] = user_param_in[In]
    BY <1>0, <1>1, <1>5, <1>7 DEF popUserParam
  <2>. QED
    BY <1>4, <2>1, <2>2, NothingMoves
<1>. QED
  BY <1>6, <1>7

\* It goes on to the list of the output.
LEMMA PushResultOrder ==
    ASSUME IInv, IInv', OneEach, NEW t \in Threads, PushResult(t) PROVE Kept
<1> DEFINE fo == call[t].fo  h == hand[t]
<1>1. /\ pc[t] = "result" /\ Goes(t, "trigger") /\ Holds(t, None)
      /\ user_param_out' = [user_param_out EXCEPT ![fo] = Append(user_param_out[fo], h)]
      /\ UNCHANGED <<user_param_in, stream, elems, answer, call, app>>
  BY DEF PushResult, pushUserParam, made, monitor, device
<1>2. /\ pc'[t] = "trigger"
      /\ HandMoves(Sent, Sent', Sends(t), Sends(t)', hand[t], hand'[t])
      /\ HandMoves(Taken, Taken', Takes(t), Takes(t)', hand[t], hand'[t])
      /\ HandMoves(Copied, Copied', Copies(t), Copies(t)', hand[t], hand'[t])
  BY <1>1, CallMoves
<1>3. call[t].fi = In <=> fo = Out
  BY <1>1 DEF IInv, CallsFit, OneEach
<1>4. /\ ~Sends(t) /\ ~Sends(t)' /\ ~Takes(t)' /\ ~Copies(t) /\ ~Copies(t)'
      /\ Takes(t) <=> fo = Out
  BY <1>1, <1>2, <1>3 DEF Sends, Takes, Copies
<1>5. Sent' = Sent /\ Copied' = Copied
  BY <1>2, <1>4 DEF HandMoves
<1>6. CASE fo = Out
  <2>1. Taken = <<h>> /\ Taken' = <<>>
    BY <1>2, <1>4, <1>6 DEF HandMoves
  <2>2. user_param_out'[Out] = Append(user_param_out[Out], h) /\ h \in Params
    BY <1>1, <1>6, Parts DEF IInv, TypeOK
  <2> DEFINE list == user_param_out[Out]
  <2>3. list \in Seq(Params)
    BY Parts DEF IInv
  <2>4. /\ Parameters = ((list \o <<h>>) \o user_param_in[In]) \o Sent
        /\ Parameters' = ((Append(list, h) \o <<>>) \o user_param_in[In]) \o Sent
    BY <1>1, <1>5, <2>1, <2>2 DEF Parameters
  <2>. HIDE DEF list, h
  <2>5. list \o <<h>> = Append(list, h) /\ Append(list, h) \in Seq(Params)
    BY <2>2, <2>3, OneBefore
  <2>6. Append(list, h) \o <<>> = Append(list, h)
    BY <2>5, Joined
  <2>. QED
    BY <1>1, <1>5, <2>4, <2>5, <2>6 DEF Kept, Unread
<1>7. CASE fo # Out
  <2>1. Taken' = Taken
    BY <1>2, <1>4, <1>7 DEF HandMoves
  <2>2. user_param_out'[Out] = user_param_out[Out]
    BY <1>1, <1>7, Parts DEF IInv, TypeOK
  <2>. QED
    BY <1>1, <1>5, <2>1, <2>2, NothingMoves
<1>. QED
  BY <1>6, <1>7

\* The oldest result goes from the stream to the hand of the reader.
LEMMA ReadResultOrder ==
    ASSUME IInv, IInv', OneEach, NEW t \in Threads, ReadResult(t) PROVE Kept
<1> DEFINE fo == call[t].fo  list == stream[Out]
<1>1. /\ pc[t] = "read" /\ Goes(t, "pop") /\ stream[fo] # <<>>
      /\ Holds(t, Head(stream[fo]))
      /\ stream' = [stream EXCEPT ![fo] = Tail(stream[fo])]
      /\ UNCHANGED <<user_param_in, user_param_out, elems, answer, call, app>>
  BY DEF ReadResult, lists, made, monitor
<1>2. /\ pc'[t] = "pop" /\ hand'[t] = Head(stream[fo])
      /\ HandMoves(Sent, Sent', Sends(t), Sends(t)', hand[t], hand'[t])
      /\ HandMoves(Taken, Taken', Takes(t), Takes(t)', hand[t], hand'[t])
      /\ HandMoves(Copied, Copied', Copies(t), Copies(t)', hand[t], hand'[t])
  BY <1>1, CallMoves
<1>3. /\ ~Sends(t) /\ ~Sends(t)' /\ ~Takes(t) /\ ~Takes(t)' /\ ~Copies(t)
      /\ Copies(t)' <=> fo = Out
  BY <1>1, <1>2 DEF Sends, Takes, Copies
<1>4. Sent' = Sent /\ Taken' = Taken
  BY <1>2, <1>3 DEF HandMoves
<1>5. CASE fo = Out
  <2>1. Copied = <<>> /\ Copied' = <<Head(list)>> /\ list # <<>>
    BY <1>1, <1>2, <1>3, <1>5 DEF HandMoves
  <2>2. stream'[Out] = Tail(list)
    BY <1>1, <1>5, Parts DEF IInv, TypeOK
  <2>3. list \in Seq(Params)
    BY Parts DEF IInv
  <2>4. /\ Unread = (<<>> \o list) \o elems[In]
        /\ Unread' = (<<Head(list)>> \o Tail(list)) \o elems[In]
    BY <1>1, <2>1, <2>2 DEF Unread
  <2>. HIDE DEF list
  <2>5. <<Head(list)>> \o Tail(list) = list
    <3>1. Head(list) \in Params
      BY <2>1, <2>3
    <3>. QED
      BY <2>1, <2>3, <3>1, OneBefore
  <2>6. <<>> \o list = list
    BY <2>3, Joined
  <2>. QED
    BY <1>1, <1>4, <2>4, <2>5, <2>6 DEF Kept, Parameters
<1>6. CASE fo # Out
  <2>1. Copied' = Copied
    BY <1>2, <1>3, <1>6 DEF HandMoves
  <2>2. stream'[Out] = stream[Out]
    BY <1>1, <1>6, Parts DEF IInv, TypeOK
  <2>. QED
    BY <1>1, <1>4, <2>1, <2>2, NothingMoves
<1>. QED
  BY <1>5, <1>6

\* A reader that has a result finds a parameter, the oldest of all.
LEMMA PopResultOrder ==
    ASSUME IInv, IInv', OneEach, NEW t \in Threads, PopResult(t) PROVE Returned \/ Kept
<1> DEFINE fo == call[t].fo  h == hand[t]
<1>1. /\ pc[t] = "pop" /\ Goes(t, "idle") /\ Holds(t, None)
      /\ user_param_out' = [user_param_out EXCEPT ![fo] = popUserParam(user_param_out[fo])]
      /\ UNCHANGED <<user_param_in, stream, elems, answer, call, app>>
  BY DEF PopResult, made, monitor, device
<1>2. /\ pc'[t] = "idle"
      /\ HandMoves(Sent, Sent', Sends(t), Sends(t)', hand[t], hand'[t])
      /\ HandMoves(Taken, Taken', Takes(t), Takes(t)', hand[t], hand'[t])
      /\ HandMoves(Copied, Copied', Copies(t), Copies(t)', hand[t], hand'[t])
  BY <1>1, CallMoves
<1>3. /\ ~Sends(t) /\ ~Sends(t)' /\ ~Takes(t) /\ ~Takes(t)' /\ ~Copies(t)'
      /\ Copies(t) <=> fo = Out
  BY <1>1, <1>2 DEF Sends, Takes, Copies
<1>4. Sent' = Sent /\ Taken' = Taken
  BY <1>2, <1>3 DEF HandMoves
<1>5. CASE fo = Out
  <2>1. Copied = <<h>> /\ Copied' = <<>> /\ h \in Params
    BY <1>2, <1>3, <1>5 DEF HandMoves, IInv, TypeOK
  <2> DEFINE list == user_param_out[Out]  results == stream[Out]  inputs == elems[In]
             params == user_param_in[In]
  <2>2. /\ list \in Seq(Params) /\ results \in Seq(Params) /\ inputs \in Seq(Params)
        /\ params \in Seq(Params) /\ Taken \in Seq(Params) /\ Sent \in Seq(Params)
    BY Parts DEF IInv
  <2>3. list # <<>>
    <3>1. t \in Popping(Out) /\ Popping(Out) \in SUBSET Threads /\ Promising(Out) \in SUBSET Threads
      BY <1>1, <1>5 DEF Popping, Promising, Producing, Unanswered, IInv, CallsFit
    <3>2. /\ Cardinality(Popping(Out)) \in Nat /\ Cardinality(Popping(Out)) # 0
          /\ Cardinality(Promising(Out)) \in Nat
      BY <3>1, CountOfPart, NcFifoAssumption
    <3>3. CountIn(triggers, Into(Out)) \in Nat /\ Len(results) \in Nat /\ Len(list) \in Nat
      BY <2>2, CountTypes DEF IInv
    <3>4. Len(list) >= Len(results) + Cardinality(Popping(Out)) + Cardinality(Promising(Out))
                         + CountIn(triggers, Into(Out))
      BY Parts DEF IInv, Results, ResultsFor
    <3>5. Len(list) # 0
      BY <3>2, <3>3, <3>4
    <3>. QED
      BY <3>5
  <2>4. user_param_out'[Out] = Tail(list)
    BY <1>1, <1>5, <2>3, Parts DEF IInv, TypeOK, popUserParam
  <2>5. /\ Parameters = ((list \o Taken) \o params) \o Sent
        /\ Parameters' = ((Tail(list) \o Taken) \o params) \o Sent
        /\ Unread = (<<h>> \o results) \o inputs
        /\ Unread' = (<<>> \o results) \o inputs
    BY <1>1, <1>4, <2>1, <2>4 DEF Parameters, Unread
  <2>. HIDE DEF list, results, inputs, params, h
  <2>6. Parameters # <<>> /\ Parameters' = Tail(Parameters)
    <3>1. /\ list \o Taken \in Seq(Params) /\ list \o Taken # <<>>
          /\ Tail(list \o Taken) = Tail(list) \o Taken
      BY <2>2, <2>3, Shortened
    <3> DEFINE a1 == list \o Taken
    <3>2. /\ a1 \o params \in Seq(Params) /\ a1 \o params # <<>>
          /\ Tail(a1 \o params) = Tail(a1) \o params
      <4>1. a1 \in Seq(Params) /\ a1 # <<>>
        BY <3>1
      <4>. HIDE DEF a1
      <4>. QED
        BY <2>2, <4>1, Shortened
    <3> DEFINE a2 == a1 \o params
    <3>3. a2 \o Sent # <<>> /\ Tail(a2 \o Sent) = Tail(a2) \o Sent
      <4>1. a2 \in Seq(Params) /\ a2 # <<>>
        BY <3>2
      <4>. HIDE DEF a2
      <4>. QED
        BY <2>2, <4>1, Shortened
    <3>. QED
      BY <2>5, <3>1, <3>2, <3>3
  <2>7. Unread # <<>> /\ Unread' = Tail(Unread)
    <3> DEFINE o == <<h>>
    <3>1. o \in Seq(Params) /\ o # <<>> /\ Tail(o) = <<>>
      BY <2>1
    <3>. HIDE DEF o
    <3>2. /\ o \o results \in Seq(Params) /\ o \o results # <<>>
          /\ Tail(o \o results) = Tail(o) \o results
      BY <2>2, <3>1, Shortened
    <3> DEFINE r == o \o results
    <3>3. r \o inputs # <<>> /\ Tail(r \o inputs) = Tail(r) \o inputs
      <4>1. r \in Seq(Params) /\ r # <<>>
        BY <3>2
      <4>. HIDE DEF r
      <4>. QED
        BY <2>2, <4>1, Shortened
    <3>4. Unread = r \o inputs
      BY <2>5 DEF o
    <3>. QED
      BY <2>5, <3>1, <3>2, <3>3, <3>4
  <2>. QED
    BY <2>6, <2>7 DEF Returned
<1>6. CASE fo # Out
  <2>1. Copied' = Copied
    BY <1>2, <1>3, <1>6 DEF HandMoves
  <2>2. user_param_out'[Out] = user_param_out[Out]
    BY <1>1, <1>6, Parts DEF IInv, TypeOK
  <2>. QED
    BY <1>1, <1>4, <2>1, <2>2, NothingMoves
<1>. QED
  BY <1>5, <1>6

\* The device makes a result of the oldest tensor of the input, and of that only.
LEMMA ExecuteOrder ==
    ASSUME IInv, IInv', OneEach, TriggersFit, Execute PROVE Kept
<1> DEFINE fi == Head(triggers).fi  fo == Head(triggers).fo
<1>1. /\ triggers # <<>> /\ elems[fi] # <<>>
      /\ stream' = [stream EXCEPT ![fo] = Append(stream[fo], Head(elems[fi]))]
      /\ elems' = [f \in Fifos |->
            IF f = fi THEN Tail(elems[f])
            ELSE IF f = fo /\ fo \in Chained THEN Append(elems[f], Head(elems[fi]))
            ELSE elems[f]]
      /\ UNCHANGED <<user_param_in, user_param_out, pc, call, hand>>
  BY DEF Execute, lists, threads, made
<1>2. fi = In <=> fo = Out
  <2>1. triggers \in Seq([fi : Fifos, fo : Fifos])
    BY DEF IInv, TypeOK
  <2>2. 1 \in DOMAIN triggers /\ Head(triggers) = triggers[1]
    BY <1>1, <2>1
  <2>. QED
    BY <2>2 DEF TriggersFit
<1>3. Sent' = Sent /\ Taken' = Taken /\ Copied' = Copied
  BY <1>1 DEF Sent, Taken, Copied, InHands, Queueing, Producing
<1>4. In \in Fifos /\ Out \in Fifos /\ In # Out /\ In \notin Chained /\ Out \in ReadAccess
  BY Parts, NcFifoAssumption DEF IInv, Writable
<1>. HIDE DEF fi, fo
<1>5. CASE fi = In
  <2> DEFINE list == elems[In]  results == stream[Out]
  <2>1. elems'[In] = Tail(list) /\ list # <<>>
    BY <1>1, <1>4, <1>5
  <2>2. stream'[Out] = Append(results, Head(list))
    BY <1>1, <1>2, <1>4, <1>5 DEF IInv, TypeOK
  <2>3. /\ Unread = (Copied \o results) \o list
        /\ Unread' = (Copied \o Append(results, Head(list))) \o Tail(list)
    BY <1>3, <2>1, <2>2 DEF Unread
  <2>4. list \in Seq(Params) /\ results \in Seq(Params) /\ Copied \in Seq(Params)
    BY Parts DEF IInv
  <2>. HIDE DEF list, results
  <2>5. Head(list) \in Params /\ Tail(list) \in Seq(Params)
    BY <2>1, <2>4
  <2> DEFINE before == Copied \o results  x == Head(list)
  <2>6. before \in Seq(Params) /\ Copied \o Append(results, x) = Append(before, x)
    BY <2>4, <2>5, Joined, EndsOfJoined
  <2>7. Append(before, x) \o Tail(list) = before \o list
    <3>1. x \in Params /\ before \in Seq(Params)
      BY <2>5, <2>6
    <3>2. <<x>> \in Seq(Params) /\ <<x>> \o Tail(list) = list
      BY <2>1, <2>4, <2>5, OneBefore
    <3>. HIDE DEF before, x
    <3>3. Append(before, x) = before \o <<x>>
      BY <3>1, OneBefore
    <3>4. (before \o <<x>>) \o Tail(list) = before \o (<<x>> \o Tail(list))
      BY <2>5, <3>1, <3>2, ConcatAssociative
    <3>. QED
      BY <3>2, <3>3, <3>4
  <2>. QED
    BY <1>1, <1>3, <2>3, <2>6, <2>7 DEF Kept, Parameters
<1>6. CASE fi # In
  <2>1. elems'[In] = elems[In]
    BY <1>1, <1>4, <1>6
  <2>2. stream'[Out] = stream[Out]
    BY <1>1, <1>2, <1>4, <1>6 DEF IInv, TypeOK
  <2>. QED
    BY <1>1, <1>3, <2>1, <2>2, NothingMoves
<1>. QED
  BY <1>5, <1>6

\* What begins with nothing, goes to the monitor or comes from it moves no tensor
\* and no parameter.
LEMMA OthersOrder ==
    ASSUME IInv, IInv', OneEach,
           \/ MonitorAccepts \/ MonitorRefuses
           \/ \E t \in Threads : \/ ncGraphQueueInference(t) \/ ncFifoReadElem(t) \/ LockInput(t)
                                 \/ sendGraphMonitorRequest(t) \/ checkGraphMonitorResponse(t)
    PROVE  Kept
<1>1. UNCHANGED <<user_param_in, user_param_out, stream, elems>>
  BY DEF MonitorAccepts, MonitorRefuses, ncGraphQueueInference, ncFifoReadElem, LockInput,
         sendGraphMonitorRequest, checkGraphMonitorResponse, lists, device
<1>2. Sent' = Sent /\ Taken' = Taken /\ Copied' = Copied
  <2>1. CASE MonitorAccepts \/ MonitorRefuses
    <3>1. UNCHANGED <<pc, call, hand>>
      BY <2>1 DEF MonitorAccepts, MonitorRefuses, threads, made
    <3>. QED
      BY <3>1 DEF Sent, Taken, Copied, InHands, Queueing, Producing
  <2>2. ASSUME NEW t \in Threads,
               \/ ncGraphQueueInference(t) \/ ncFifoReadElem(t) \/ LockInput(t)
               \/ sendGraphMonitorRequest(t) \/ checkGraphMonitorResponse(t)
        PROVE  Sent' = Sent /\ Taken' = Taken /\ Copied' = Copied
    <3>1. PICK label, d : /\ Goes(t, label)
                          /\ call' = [call EXCEPT ![t] = d] \/ call' = call
                          /\ label \notin {"push", "result", "pop"}
      BY <2>2 DEF ncGraphQueueInference, ncFifoReadElem, LockInput, sendGraphMonitorRequest,
                  checkGraphMonitorResponse, Begins, made
    <3>2. /\ pc[t] \notin {"push", "result", "pop"} /\ hand' = hand
          /\ app' = app
      BY <2>2 DEF ncGraphQueueInference, ncFifoReadElem, LockInput, sendGraphMonitorRequest,
                  checkGraphMonitorResponse, Begins, made
    <3>3. /\ pc'[t] = label
          /\ \A q \in Threads \ {t} : pc'[q] = pc[q] /\ call'[q] = call[q]
      BY <3>1 DEF IInv, TypeOK, Goes
    <3>4. /\ Queueing(In, {"push"})' = Queueing(In, {"push"})
          /\ Queueing(In, {"result"})' = Queueing(In, {"result"})
          /\ Producing(Out, {"pop"})' = Producing(Out, {"pop"})
      BY <3>1, <3>2, <3>3 DEF Queueing, Producing
    <3>. QED
      BY <3>2, <3>4, HandsAre
  <2>. QED
    BY <2>1, <2>2
<1>. QED
  BY <1>1, <1>2, NothingMoves

-----------------------------------------------------------------------------
(* The refinement                                                           *)

\* A trigger is that of the thread whose request it answers.
LEMMA TriggersKept ==
    ASSUME IInv, IInv', OneEach, TriggersFit, [Next]_vars PROVE TriggersFit'
<1>. DEFINE T == [fi : Fifos, fo : Fifos]
<1>0. triggers \in Seq(T) /\ triggers' \in Seq(T)
  BY DEF IInv, TypeOK
<1>1. ASSUME NEW e \in T, e.fi = In <=> e.fo = Out, triggers' = Append(triggers, e)
      PROVE  TriggersFit'
  <2>. HIDE DEF T
  <2>1. \A i \in DOMAIN triggers' : \/ i \in DOMAIN triggers /\ triggers'[i] = triggers[i]
                                   \/ triggers'[i] = e
    BY <1>0, <1>1
  <2>. QED
    BY <1>1, <2>1 DEF TriggersFit
<1>2. ASSUME triggers # <<>>, triggers' = Tail(triggers) PROVE TriggersFit'
  <2>. HIDE DEF T
  <2>1. \A i \in DOMAIN triggers' : i + 1 \in DOMAIN triggers /\ triggers'[i] = triggers[i + 1]
    BY <1>0, <1>2
  <2>. QED
    BY <2>1 DEF TriggersFit
<1>3. CASE MonitorAccepts
  <2>1. PICK t \in Threads : /\ pc[t] = "sent" /\ triggers' = Append(triggers, [fi |-> call[t].fi, fo |-> call[t].fo])
    BY <1>3 DEF MonitorAccepts, IInv, TypeOK
  <2>2. /\ call[t] \in app.calls[t] /\ call[t].op \in {"queue", "writequeue"}
        /\ call[t].fi \in Fifos /\ call[t].fo \in Fifos
    BY <2>1, FifosOfCall DEF IInv, CallsFit
  <2>3. call[t].fi = In <=> call[t].fo = Out
    BY <2>2 DEF OneEach
  <2> DEFINE e == [fi |-> call[t].fi, fo |-> call[t].fo]
  <2>4. e \in T /\ (e.fi = In <=> e.fo = Out)
    BY <2>2, <2>3
  <2>. QED
    BY <1>1, <2>1, <2>4
<1>4. CASE Execute
  BY <1>2, <1>4 DEF Execute
<1>5. ASSUME triggers' = triggers PROVE TriggersFit'
  BY <1>5 DEF TriggersFit
<1>6. CASE MonitorRefuses \/ UNCHANGED vars
  BY <1>5, <1>6 DEF MonitorRefuses, vars, device
<1>7. ASSUME NEW t \in Threads,
             \/ ncFifoWriteElem(t) \/ ncGraphQueueInference(t) \/ ncFifoReadElem(t) \/ Inside(t)
      PROVE  TriggersFit'
  <2>1. triggers' = triggers
    BY <1>7 DEF ncFifoWriteElem, ncGraphQueueInference, ncFifoReadElem, Inside, PushWritten, TakeInput,
                LockInput, DrainInput, PushResult, sendGraphMonitorRequest, checkGraphMonitorResponse,
                ReadResult, PopResult, device
  <2>. QED
    BY <1>5, <2>1
<1>. QED
  BY <1>3, <1>4, <1>6, <1>7 DEF Next

\* Every step gives a tensor with its parameter, returns the oldest, or changes
\* neither sequence.
LEMMA StepOrder ==
    ASSUME IInv, IInv', OneEach, TriggersFit, [Next]_vars PROVE Given \/ Returned \/ Kept
<1>1. ASSUME NEW t \in Threads,
             \/ ncFifoWriteElem(t) \/ ncGraphQueueInference(t) \/ ncFifoReadElem(t) \/ Inside(t)
      PROVE  Given \/ Returned \/ Kept
  <2>1. CASE ncFifoWriteElem(t)
    BY <2>1, WriteOrder
  <2>2. CASE \/ ncGraphQueueInference(t) \/ ncFifoReadElem(t) \/ LockInput(t)
             \/ sendGraphMonitorRequest(t) \/ checkGraphMonitorResponse(t)
    BY <2>2, OthersOrder
  <2>3. CASE PushWritten(t)
    BY <2>3, PushWrittenOrder
  <2>4. CASE TakeInput(t)
    <3>1. /\ pc[t] \in {"queue", "drain"} /\ TakeParam(t, call[t].fi)
          /\ stream'[Out] = stream[Out]
          /\ UNCHANGED <<user_param_out, elems, answer, call, app>>
      BY <2>4 DEF TakeInput, made, monitor, device
    <3>. QED
      BY <3>1, TakeOrder
  <2>5. CASE DrainInput(t)
    <3>1. /\ pc[t] = "drain" /\ TakeParam(t, call[t].fi)
          /\ stream' = [stream EXCEPT ![call[t].fi] = Tail(@)]
          /\ UNCHANGED <<user_param_out, elems, answer, call, app>>
      BY <2>5 DEF DrainInput, made, monitor
    <3>2. call[t] \in app.calls[t] /\ call[t].op \in {"queue", "writequeue"}
      BY <3>1 DEF IInv, CallsFit
    <3>3. call[t].fi # Out
      BY <3>2 DEF OneEach
    <3>4. stream'[Out] = stream[Out]
      BY <3>1, <3>3, Parts DEF IInv, TypeOK
    <3>. QED
      BY <3>1, <3>4, TakeOrder
  <2>6. CASE PushResult(t)
    BY <2>6, PushResultOrder
  <2>7. CASE ReadResult(t)
    BY <2>7, ReadResultOrder
  <2>8. CASE PopResult(t)
    BY <2>8, PopResultOrder
  <2>. QED
    BY <1>1, <2>1, <2>2, <2>3, <2>4, <2>5, <2>6, <2>7, <2>8 DEF Inside
<1>2. CASE MonitorAccepts \/ MonitorRefuses
  BY <1>2, OthersOrder
<1>3. CASE Execute
  BY <1>3, ExecuteOrder
<1>4. CASE UNCHANGED vars
  <2>1. /\ UNCHANGED <<user_param_in, user_param_out, stream, elems, pc, call, hand>>
    BY <1>4 DEF vars, lists, threads, made, device
  <2>2. Sent' = Sent /\ Taken' = Taken /\ Copied' = Copied
    BY <2>1 DEF Sent, Taken, Copied, InHands, Queueing, Producing
  <2>. QED
    BY <2>1, <2>2, NothingMoves
<1>. QED
  BY <1>1, <1>2, <1>3, <1>4 DEF Next

\* Which application runs is never changed.
LEMMA SameApplication == ASSUME [Next]_vars PROVE app' = app
  BY DEF Next, Inside, ncFifoWriteElem, ncGraphQueueInference, ncFifoReadElem, PushWritten, TakeInput,
         LockInput, DrainInput, PushResult, sendGraphMonitorRequest, checkGraphMonitorResponse,
         ReadResult, PopResult, MonitorAccepts, MonitorRefuses, Execute, Begins, vars, threads, made

\* The order is kept by every step.
LEMMA OrderKept ==
    ASSUME IInv, IInv', InOrder, [Next]_vars PROVE InOrder'
<1>1. app' = app /\ (OneEach' <=> OneEach)
  BY SameApplication DEF OneEach, Writers, Queuers, Readers
<1>2. ASSUME OneEach PROVE TriggersFit' /\ Unread' = Parameters'
  BY <1>2, TriggersKept, StepOrder DEF InOrder, Given, Returned, Kept
<1>. QED
  BY <1>1, <1>2 DEF InOrder

\* Nothing has been given yet.
LEMMA OrderInitially ==
    ASSUME Init PROVE InOrder /\ (OneEach => Unread = <<>>)
<1> SUFFICES ASSUME OneEach PROVE TriggersFit /\ Unread = <<>> /\ Parameters = <<>>
  BY DEF InOrder
<1>1. TriggersFit
  BY DEF Init, TriggersFit
<1>2. Sent = <<>> /\ Taken = <<>> /\ Copied = <<>>
  <2>1. /\ Queueing(In, {"push"}) = {} /\ Queueing(In, {"result"}) = {}
        /\ Producing(Out, {"pop"}) = {}
    BY DEF Init, Queueing, Producing
  <2>. QED
    BY <2>1 DEF Sent, Taken, Copied, InHands
<1>3. /\ user_param_out[Out] = <<>> /\ user_param_in[In] = <<>>
      /\ stream[Out] = <<>> /\ elems[In] = <<>>
  <2>1. In \in Fifos /\ Out \in Fifos
    BY NcFifoAssumption DEF OneEach, Writable
  <2>. QED
    BY <2>1 DEF Init
<1>4. <<>> \o <<>> = <<>>
  BY ConcatEmptySeq
<1>. QED
  BY <1>1, <1>2, <1>3, <1>4 DEF Unread, Parameters

\* What is not returned, as NcInferenceQueue has it.
Pairs(u, p) == [i \in 1..Len(u) |-> <<u[i], p[i]>>]

\* A tensor more, and one less.
LEMMA PairsGrow ==
    ASSUME NEW S, NEW u \in Seq(S), NEW n \in S
    PROVE  /\ Pairs(Append(u, n), Append(u, n)) = Append(Pairs(u, u), <<n, n>>)
           /\ Pairs(Append(u, n), Append(u, n)) # <<>>
           /\ Pairs(Append(u, n), Append(u, n))[Len(Pairs(Append(u, n), Append(u, n)))] = <<n, n>>
<1> DEFINE v == Append(u, n)  P == Pairs(u, u)  Q == Pairs(v, v)
<1>1. /\ v \in Seq(S) /\ Len(v) = Len(u) + 1 /\ Len(u) \in Nat
      /\ \A i \in 1..Len(v) : v[i] = IF i = Len(u) + 1 THEN n ELSE u[i]
  OBVIOUS
<1>. HIDE DEF v
<1>2. /\ P \in Seq(S \X S) /\ Len(P) = Len(u)
      /\ Q \in Seq(S \X S) /\ Len(Q) = Len(u) + 1
      /\ \A i \in 1..Len(u) : P[i] = <<u[i], u[i]>>
      /\ \A i \in 1..(Len(u) + 1) : Q[i] = <<v[i], v[i]>>
  BY <1>1 DEF Pairs
<1> DEFINE x == <<n, n>>
<1>3. x \in S \X S
  OBVIOUS
<1>. HIDE DEF P, Q, x
<1> DEFINE R == Append(P, x)
<1>4. /\ R \in Seq(S \X S) /\ Len(R) = Len(u) + 1
      /\ \A i \in 1..(Len(u) + 1) : R[i] = IF i = Len(u) + 1 THEN x ELSE P[i]
  BY <1>1, <1>2, <1>3
<1>. HIDE DEF R
<1>5. ASSUME NEW i \in 1..Len(Q) PROVE Q[i] = R[i]
  <2>1. CASE i = Len(u) + 1
    BY <1>1, <1>2, <1>4, <2>1 DEF x
  <2>2. CASE i # Len(u) + 1
    <3>1. i \in 1..Len(u) /\ i \in 1..Len(v) /\ i \in 1..(Len(u) + 1)
      BY <1>1, <1>2, <2>2
    <3>. QED
      BY <1>1, <1>2, <1>4, <2>2, <3>1
  <2>. QED
    BY <2>1, <2>2
<1>6. Q = R
  BY <1>2, <1>4, <1>5, SeqEqual
<1>7. Q # <<>> /\ Q[Len(Q)] = x
  <2>1. Len(u) + 1 \in 1..(Len(u) + 1) /\ Len(Q) = Len(u) + 1
    BY <1>1, <1>2
  <2>2. R[Len(u) + 1] = x
    BY <1>4, <2>1
  <2>3. Q # <<>>
    BY <1>1, <1>2
  <2>. QED
    BY <1>6, <2>1, <2>2, <2>3
<1>. QED
  BY <1>6, <1>7 DEF v, P, Q, x, R

LEMMA PairsShrink ==
    ASSUME NEW S, NEW u \in Seq(S), u # <<>>
    PROVE  /\ Pairs(u, u) # <<>> /\ Pairs(Tail(u), Tail(u)) = Tail(Pairs(u, u))
<1> DEFINE v == Tail(u)  P == Pairs(u, u)  Q == Pairs(v, v)
<1>1. /\ v \in Seq(S) /\ Len(v) = Len(u) - 1 /\ Len(u) \in Nat /\ Len(u) >= 1
      /\ \A i \in 1..Len(v) : v[i] = u[i + 1]
  BY HeadTailProperties
<1>. HIDE DEF v
<1>2. /\ P \in Seq(S \X S) /\ Len(P) = Len(u)
      /\ Q \in Seq(S \X S) /\ Len(Q) = Len(v)
      /\ \A i \in 1..Len(u) : P[i] = <<u[i], u[i]>>
      /\ \A i \in 1..Len(v) : Q[i] = <<v[i], v[i]>>
  BY <1>1 DEF Pairs
<1>. HIDE DEF P, Q
<1>3. P # <<>>
  BY <1>1, <1>2
<1> DEFINE R == Tail(P)
<1>4. /\ R \in Seq(S \X S) /\ Len(R) = Len(v)
      /\ \A i \in 1..Len(R) : R[i] = P[i + 1]
  BY <1>1, <1>2, <1>3, HeadTailProperties
<1>. HIDE DEF R
<1>5. ASSUME NEW i \in 1..Len(Q) PROVE Q[i] = R[i]
  <2>1. i + 1 \in 1..Len(u) /\ i \in 1..Len(v) /\ i \in 1..Len(R)
    BY <1>1, <1>2, <1>4
  <2>. QED
    BY <1>1, <1>2, <1>4, <2>1
<1>6. Q = R
  BY <1>2, <1>4, <1>5, SeqEqual
<1>. QED
  BY <1>3, <1>6 DEF v, P, Q, R

\* The fifos In and Out implement NcInferenceQueue where one thread writes, one
\* queues and one reads: every result comes back in the order of writing and with
\* the parameter of its own tensor, whatever other fifos and threads do and whatever
\* triggers the device refuses (ncFifoWriteElem, ncGraphQueueInference, ncFifoReadElem).
THEOREM FifosAreQueue == Spec => ImplementsInferences
<1>1. Init => Outstanding = <<>>
  <2>1. Init /\ OneEach => [i \in 1..Len(Unread) |-> Inference(i)] = <<>>
    BY OrderInitially
  <2>. QED
    BY <2>1 DEF Outstanding
<1>2. Init => InOrder
  BY OrderInitially
<1>3. IInv /\ IInv' /\ InOrder /\ [Next]_vars => InOrder'
  BY OrderKept
<1>4. ASSUME IInv, IInv', InOrder, InOrder', [Next]_vars
      PROVE  [Inferences!Give \/ Inferences!Return]_Outstanding
  <2>1. OneEach' <=> OneEach
    BY <1>4, SameApplication DEF OneEach, Writers, Queuers, Readers
  <2>2. CASE ~OneEach
    BY <2>1, <2>2 DEF Outstanding
  <2>3. CASE OneEach
    <3>1. /\ TriggersFit /\ Unread = Parameters /\ Unread' = Parameters'
          /\ Unread \in Seq(Params)
      BY <1>4, <2>1, <2>3, Parts DEF InOrder, IInv
    <3>2. Outstanding = Pairs(Unread, Unread) /\ Outstanding' = Pairs(Unread', Unread')
      BY <2>1, <2>3, <3>1 DEF Pairs, Outstanding, Inference
    <3>3. CASE Given
      <4>1. PICK n \in Nat : Unread' = Append(Unread, n)
        BY <3>3 DEF Given
      <4>2. n \in Params
        BY DEF Params
      <4>3. /\ Outstanding' = Append(Outstanding, <<n, n>>) /\ Outstanding' # <<>>
            /\ Outstanding'[Len(Outstanding')] = <<n, n>>
        BY <3>1, <3>2, <4>1, <4>2, PairsGrow
      <4>. QED
        BY <4>3 DEF Inferences!Give, Inferences!OwnParameter
    <3>4. CASE Returned
      <4>1. Outstanding # <<>> /\ Outstanding' = Tail(Outstanding)
        BY <3>1, <3>2, <3>4, PairsShrink DEF Returned
      <4>. QED
        BY <4>1 DEF Inferences!Return
    <3>5. CASE Kept
      BY <3>2, <3>5 DEF Kept
    <3>. QED
      BY <1>4, <2>3, <3>1, <3>3, <3>4, <3>5, StepOrder
  <2>. QED
    BY <2>2, <2>3
<1>. QED
  BY <1>1, <1>2, <1>3, <1>4, FifoInvariant, PTL
     DEF Spec, ImplementsInferences, Inferences!InferenceSpec
=============================================================================
