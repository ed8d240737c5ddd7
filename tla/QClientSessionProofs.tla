------------------------- MODULE QClientSessionProofs -------------------------
(***************************************************************************)
(* The life of a QClient, for any callers, views and number of calls, and  *)
(* whatever fails, is interrupted or is cancelled.  The inductive          *)
(* invariant says what a callback may find when its turn comes: which      *)
(* coroutine it belongs to, how far that has come, and on whose loop.      *)
(* Then, of callers that take turns: which call is under way, what it      *)
(* waits for, and on which loop.                                           *)
(***************************************************************************)
EXTENDS QClientSession, SequenceTheorems, TLAPS

-----------------------------------------------------------------------------
(* The invariant.  `n' is the number of loops, `T' the coroutines and `H'  *)
(* the homes of the sessions.                                              *)

Phases == {"running", "stopping", "draining", "closed"}

Handed == {"queued", "dropped"}

Asking == {"auth", "resource", "request"}

Tasks ==
    [op : {"none", "connect", "request", "aclose"}, handle : Handles,
     loop : Nat,
     stage : Handed \cup {"ready"} \cup Asking \cup {"closing"} \cup Ended,
     at : Nat, sent : BOOLEAN, via : Nat \cup {None}]

Callbacks ==
    [do : {"start", "step", "cancel", "request", "close", "stop"},
     task : Nat, via : Nat \cup {None}]

CallRecords ==
    [pc : {"idle", "enter", "create", "submit", "wait", "read", "close",
           "closing", "stop", "join", "await", "unwind"},
     op : {"none", "connect", "request", "bind", "close", "aclose"},
     handle : Handles, task : Nat, loop : Nat \cup {None}]

\* A coroutine has a loop; before its first turn it is nowhere else; it uses a
\* session at its home, unless the request was forwarded.
TaskFits(t, n, H) ==
    /\ t.loop \in 1..n /\ t.at \in 1..n
    /\ t.via \in (1..Len(H)) \cup {None}
    /\ t.stage \in Handed \cup {"ready"} => t.at = t.loop /\ ~t.sent
    /\ t.sent \/ t.stage = "closing" => t.via # None
    /\ (t.sent /\ t.at = t.loop) \/ t.stage = "closing" => t.at = H[t.via]

\* A callback on loop `l': what it starts and goes on with is of this loop,
\* what was forwarded is not, and a session is closed at its home.
CallbackFits(l, x, T, H) ==
    /\ x.task \in 0..Len(T)
    /\ x.via \in (1..Len(H)) \cup {None}
    /\ x.do # "stop" => x.task # 0
    /\ x.do = "start" =>
        T[x.task].stage \in Handed /\ T[x.task].loop = l
    /\ x.do = "step" =>
        T[x.task].stage \in Ended \/ T[x.task].loop = l
    /\ x.do = "request" =>
        \/ T[x.task].stage \in Ended
        \/ T[x.task].stage \in Asking /\ T[x.task].loop # l
    /\ x.do = "close" =>
        /\ T[x.task].stage \in Ended \cup {"closing"}
        /\ x.via # None /\ H[x.via] = l

\* A coroutine is started once.
StartsOnce(s) ==
    \A i, j \in 1..Len(s) :
        s[i].do = "start" /\ s[j].do = "start" /\ s[i].task = s[j].task
            => i = j

QueueFits(q, n, T, H) ==
    /\ q \in Seq(Seq(Callbacks)) /\ Len(q) = n
    /\ \A l \in 1..n :
        /\ StartsOnce(q[l])
        /\ \A i \in 1..Len(q[l]) : CallbackFits(l, q[l][i], T, H)

CallFits(k, n, T) ==
    /\ k.task \in 0..Len(T)
    /\ k.pc \in {"wait", "closing", "await", "unwind"} => k.task # 0
    /\ k.loop \in (1..n) \cup {None}
    /\ k.pc \in {"close", "closing", "stop", "join"} => k.loop # None

LoopsOK ==
    /\ phase \in Seq(Phases) /\ 1 \in 1..Len(phase)
    /\ QueueFits(queue, Len(phase), tasks, home)

SessionsOK ==
    /\ home \in Seq(Nat)
    /\ \A s \in 1..Len(home) : home[s] \in 1..Len(phase)
    /\ open \subseteq 1..Len(home)

FieldsOK ==
    /\ loopThread \in [Handles -> (2..Len(phase)) \cup {None}]
    /\ authenticated \in [Handles -> BOOLEAN]
    /\ session \in [Handles -> (1..Len(home)) \cup {None}]
    /\ resource \in [Handles -> BOOLEAN]
    /\ live \subseteq Views

TasksOK ==
    /\ tasks \in Seq(Tasks)
    /\ \A c \in 1..Len(tasks) : TaskFits(tasks[c], Len(phase), home)

CallsOK ==
    /\ call \in [Callers -> CallRecords]
    /\ \A a \in Callers : CallFits(call[a], Len(phase), tasks)
    /\ calls \in Nat
    /\ mishaps \in SUBSET Mishaps

Kept == LoopsOK /\ SessionsOK /\ FieldsOK /\ TasksOK /\ CallsOK

-----------------------------------------------------------------------------
(* Sequences.                                                              *)

LEMMA OneChanged ==
    ASSUME NEW S, NEW s \in Seq(S), NEW i \in 1..Len(s), NEW e \in S
    PROVE  /\ [s EXCEPT ![i] = e] \in Seq(S)
           /\ Len([s EXCEPT ![i] = e]) = Len(s)
           /\ [s EXCEPT ![i] = e][i] = e
           /\ \A j \in 1..Len(s) : j # i => [s EXCEPT ![i] = e][j] = s[j]
BY ExceptSeq

LEMMA OneMore ==
    ASSUME NEW S, NEW s \in Seq(S), NEW e \in S
    PROVE  /\ Append(s, e) \in Seq(S)
           /\ Len(Append(s, e)) = Len(s) + 1
           /\ Append(s, e)[Len(s) + 1] = e
           /\ \A j \in 1..Len(s) : Append(s, e)[j] = s[j]
OBVIOUS

LEMMA OneLess ==
    ASSUME NEW S, NEW s \in Seq(S), s # <<>>
    PROVE  /\ Tail(s) \in Seq(S)
           /\ Len(Tail(s)) = Len(s) - 1 /\ Len(s) \in Nat
           /\ Head(s) = s[1] /\ 1 \in 1..Len(s)
           /\ \A j \in 1..Len(Tail(s)) :
                  j + 1 \in 1..Len(s) /\ Tail(s)[j] = s[j + 1]
OBVIOUS

-----------------------------------------------------------------------------
(* How coroutines and sessions change.                                     *)

\* A coroutine goes on, but is not started.
Moves(t, u) ==
    \/ u = t
    \/ t.stage \notin Handed /\ u.stage \in Ended
    \/ /\ t.stage \notin Ended /\ u.loop = t.loop
       /\ t.stage \in Handed => u.stage \in Handed
       /\ t.stage \in Asking => u.stage \in Asking
       /\ t.stage = "closing" => u.stage = "closing"

Advances(T, U) ==
    Len(T) <= Len(U) /\ \A c \in 1..Len(T) : Moves(T[c], U[c])

Extends(H, G) ==
    Len(H) <= Len(G) /\ \A s \in 1..Len(H) : G[s] = H[s]

LEMMA NothingMoves ==
    ASSUME NEW T \in Seq(Tasks)
    PROVE  Advances(T, T)
BY DEF Advances, Moves

LEMMA NothingNew ==
    ASSUME NEW H \in Seq(Nat)
    PROVE  Extends(H, H)
BY DEF Extends

\* Coroutine `c' becomes `t'.
Puts(T, c, t, U) == U = [T EXCEPT ![c] = t]

LEMMA OneMoves ==
    ASSUME NEW T \in Seq(Tasks), NEW c \in 1..Len(T), NEW t \in Tasks,
           Moves(T[c], t), NEW U, Puts(T, c, t, U)
    PROVE  /\ U \in Seq(Tasks) /\ Len(U) = Len(T) /\ U[c] = t
           /\ \A d \in 1..Len(T) : d # c => U[d] = T[d]
           /\ Advances(T, U)
<1>1. /\ U \in Seq(Tasks) /\ Len(U) = Len(T) /\ U[c] = t
      /\ \A d \in 1..Len(T) : d # c => U[d] = T[d]
    BY OneChanged DEF Puts
<1>2. Advances(T, U)
    BY <1>1 DEF Advances, Moves
<1> QED
    BY <1>1, <1>2

\* There is a coroutine more, `t'.
Adds(T, t, U) == U = Append(T, t)

LEMMA OneMoreTask ==
    ASSUME NEW T \in Seq(Tasks), NEW t \in Tasks,
           NEW U, Adds(T, t, U)
    PROVE  /\ U \in Seq(Tasks) /\ Len(U) = Len(T) + 1
           /\ U[Len(T) + 1] = t
           /\ \A d \in 1..Len(T) : U[d] = T[d]
           /\ Advances(T, U)
<1>1. /\ U \in Seq(Tasks) /\ Len(U) = Len(T) + 1 /\ U[Len(T) + 1] = t
      /\ \A d \in 1..Len(T) : U[d] = T[d]
    BY OneMore DEF Adds
<1>2. Advances(T, U)
    BY <1>1 DEF Advances, Moves
<1> QED
    BY <1>1, <1>2

LEMMA TaskStays ==
    ASSUME NEW n \in Nat, NEW m \in Nat, n <= m,
           NEW H \in Seq(Nat), NEW G \in Seq(Nat), Extends(H, G),
           NEW t \in Tasks, TaskFits(t, n, H)
    PROVE  TaskFits(t, m, G)
<1>1. None \notin Nat
    BY SessionAssumption
<1> QED
    BY <1>1 DEF TaskFits, Extends, Tasks

LEMMA CallStays ==
    ASSUME NEW n \in Nat, NEW m \in Nat, n <= m,
           NEW T \in Seq(Tasks), NEW U \in Seq(Tasks), Len(T) <= Len(U),
           NEW k \in CallRecords, CallFits(k, n, T)
    PROVE  CallFits(k, m, U)
BY DEF CallFits, CallRecords

LEMMA CallbackStays ==
    ASSUME NEW T \in Seq(Tasks), NEW U \in Seq(Tasks), Advances(T, U),
           NEW H \in Seq(Nat), NEW G \in Seq(Nat), Extends(H, G),
           NEW l \in Nat, NEW x \in Callbacks, CallbackFits(l, x, T, H)
    PROVE  CallbackFits(l, x, U, G)
<1>1. /\ x.task \in 0..Len(U) /\ x.via \in (1..Len(G)) \cup {None}
      /\ x.via # None => G[x.via] = H[x.via]
      /\ x.do # "stop" => x.task # 0 /\ Moves(T[x.task], U[x.task])
    BY SessionAssumption DEF CallbackFits, Advances, Extends, Callbacks
<1>2. x.do = "start" => U[x.task].stage \in Handed /\ U[x.task].loop = l
    BY <1>1 DEF CallbackFits, Moves, Handed, Ended
<1>3. x.do = "step" => U[x.task].stage \in Ended \/ U[x.task].loop = l
    BY <1>1 DEF CallbackFits, Moves
<1>4. x.do = "request" =>
          \/ U[x.task].stage \in Ended
          \/ U[x.task].stage \in Asking /\ U[x.task].loop # l
    BY <1>1 DEF CallbackFits, Moves
<1>5. x.do = "close" => U[x.task].stage \in Ended \cup {"closing"}
    BY <1>1 DEF CallbackFits, Moves
<1> QED
    BY <1>1, <1>2, <1>3, <1>4, <1>5 DEF CallbackFits

-----------------------------------------------------------------------------
(* How the callbacks of a loop change.                                     *)

QueueOf(s, l, T, H) ==
    /\ s \in Seq(Callbacks) /\ StartsOnce(s)
    /\ \A i \in 1..Len(s) : CallbackFits(l, s[i], T, H)

LEMMA QueueParts ==
    ASSUME NEW n \in Nat, NEW T, NEW H, NEW q, QueueFits(q, n, T, H),
           NEW l \in 1..n
    PROVE  QueueOf(q[l], l, T, H)
BY DEF QueueFits, QueueOf

LEMMA QueueChanged ==
    ASSUME NEW n \in Nat, NEW T, NEW H, NEW q, QueueFits(q, n, T, H),
           NEW l \in 1..n, NEW s, QueueOf(s, l, T, H)
    PROVE  QueueFits([q EXCEPT ![l] = s], n, T, H)
<1>1. /\ q \in Seq(Seq(Callbacks)) /\ l \in 1..Len(q) /\ Len(q) = n
      /\ s \in Seq(Callbacks)
    BY DEF QueueFits, QueueOf
<1>2. PICK p : p = [q EXCEPT ![l] = s]
    OBVIOUS
<1>3. /\ p \in Seq(Seq(Callbacks)) /\ Len(p) = n /\ p[l] = s
      /\ \A j \in 1..n : j # l => p[j] = q[j]
    BY <1>1, <1>2, OneChanged
<1>4. \A j \in 1..n : QueueOf(p[j], j, T, H)
    BY <1>3, QueueParts
<1> QED
    BY <1>2, <1>3, <1>4 DEF QueueFits, QueueOf

LEMMA QueueTail ==
    ASSUME NEW l \in Nat, NEW T, NEW H, NEW s, QueueOf(s, l, T, H), s # <<>>
    PROVE  /\ QueueOf(Tail(s), l, T, H)
           /\ Head(s) \in Callbacks /\ CallbackFits(l, Head(s), T, H)
           /\ Head(s).do = "start" =>
                  \A i \in 1..Len(Tail(s)) :
                      Tail(s)[i].do = "start" =>
                          Tail(s)[i].task # Head(s).task
<1>1. s \in Seq(Callbacks)
    BY DEF QueueOf
<1>2. PICK r : r = Tail(s)
    OBVIOUS
<1>3. /\ r \in Seq(Callbacks) /\ Len(r) \in Nat
      /\ Len(r) = Len(s) - 1 /\ Len(s) \in Nat
      /\ Head(s) = s[1] /\ 1 \in 1..Len(s)
      /\ \A j \in 1..Len(r) : j + 1 \in 1..Len(s) /\ r[j] = s[j + 1]
    BY <1>1, <1>2, OneLess
<1>4. \A i \in 1..Len(r) : CallbackFits(l, r[i], T, H)
    BY <1>3 DEF QueueOf
<1>5. StartsOnce(r)
    <2> SUFFICES ASSUME NEW i \in 1..Len(r), NEW j \in 1..Len(r),
                        r[i].do = "start", r[j].do = "start",
                        r[i].task = r[j].task
                 PROVE  i = j
        BY DEF StartsOnce
    <2>1. /\ i + 1 \in 1..Len(s) /\ r[i] = s[i + 1]
          /\ j + 1 \in 1..Len(s) /\ r[j] = s[j + 1]
        BY <1>3
    <2>2. i + 1 = j + 1
        BY <2>1 DEF QueueOf, StartsOnce
    <2> QED
        BY <2>2
<1>6. Head(s) \in Callbacks /\ CallbackFits(l, Head(s), T, H)
    BY <1>1, <1>3 DEF QueueOf
<1>7. ASSUME Head(s).do = "start", NEW i \in 1..Len(r),
             r[i].do = "start", r[i].task = Head(s).task
      PROVE  FALSE
    <2>1. i + 1 \in 1..Len(s) /\ r[i] = s[i + 1] /\ 1 # i + 1
        BY <1>3
    <2> QED
        BY <1>3, <1>7, <2>1 DEF QueueOf, StartsOnce
<1> QED
    BY <1>2, <1>3, <1>4, <1>5, <1>6, <1>7 DEF QueueOf

LEMMA QueueAppend ==
    ASSUME NEW l \in Nat, NEW T, NEW H, NEW s, QueueOf(s, l, T, H),
           NEW x \in Callbacks, CallbackFits(l, x, T, H),
           x.do = "start" =>
               \A i \in 1..Len(s) : s[i].do = "start" => s[i].task # x.task
    PROVE  QueueOf(Append(s, x), l, T, H)
<1>1. s \in Seq(Callbacks) /\ Len(s) \in Nat
    BY DEF QueueOf
<1>2. PICK r : r = Append(s, x)
    OBVIOUS
<1>3. /\ r \in Seq(Callbacks) /\ Len(r) = Len(s) + 1
      /\ r[Len(s) + 1] = x
      /\ \A j \in 1..Len(s) : r[j] = s[j]
    BY <1>1, <1>2, OneMore
<1>4. \A i \in 1..Len(r) : i \in 1..Len(s) \/ i = Len(s) + 1
    BY <1>1, <1>3
<1>5. \A i \in 1..Len(r) : CallbackFits(l, r[i], T, H)
    BY <1>3, <1>4 DEF QueueOf
<1>6. StartsOnce(r)
    <2> SUFFICES ASSUME NEW i \in 1..Len(r), NEW j \in 1..Len(r),
                        r[i].do = "start", r[j].do = "start",
                        r[i].task = r[j].task
                 PROVE  i = j
        BY DEF StartsOnce
    <2>1. CASE i \in 1..Len(s) /\ j \in 1..Len(s)
        BY <1>3, <2>1 DEF QueueOf, StartsOnce
    <2>2. CASE i \in 1..Len(s) /\ j = Len(s) + 1
        BY <1>3, <2>2
    <2>3. CASE i = Len(s) + 1 /\ j \in 1..Len(s)
        BY <1>3, <2>3
    <2> QED
        BY <1>4, <2>1, <2>2, <2>3
<1> QED
    BY <1>2, <1>3, <1>5, <1>6 DEF QueueOf

\* The next callback of a loop is taken.
LEMMA QueueRests ==
    ASSUME NEW n \in Nat, NEW T, NEW H, NEW q, QueueFits(q, n, T, H),
           NEW l \in 1..n, q[l] # <<>>
    PROVE  /\ QueueFits([q EXCEPT ![l] = Tail(@)], n, T, H)
           /\ Head(q[l]) \in Callbacks /\ CallbackFits(l, Head(q[l]), T, H)
<1>1. QueueOf(q[l], l, T, H)
    BY QueueParts
<1>2. PICK s : s = Tail(q[l])
    OBVIOUS
<1>3. QueueOf(s, l, T, H)
    BY <1>1, <1>2, QueueTail
<1>4. QueueFits([q EXCEPT ![l] = s], n, T, H)
    BY <1>3, QueueChanged
<1>5. Head(q[l]) \in Callbacks /\ CallbackFits(l, Head(q[l]), T, H)
    <2>1. PICK r : r = q[l]
        OBVIOUS
    <2>2. l \in Nat /\ QueueOf(r, l, T, H) /\ r # <<>>
        BY <1>1, <2>1
    <2>3. Head(r) \in Callbacks /\ CallbackFits(l, Head(r), T, H)
        BY <2>2, QueueTail
    <2> QED
        BY <2>1, <2>3
<1> QED
    BY <1>2, <1>4, <1>5

\* A callback is scheduled.
LEMMA QueueTakes ==
    ASSUME NEW n \in Nat, NEW T, NEW H, NEW q, QueueFits(q, n, T, H),
           NEW l \in 1..n, NEW x \in Callbacks, CallbackFits(l, x, T, H),
           x.do = "start" =>
               \A i \in 1..Len(q[l]) :
                   q[l][i].do = "start" => q[l][i].task # x.task
    PROVE  QueueFits([q EXCEPT ![l] = Append(@, x)], n, T, H)
<1>1. QueueOf(q[l], l, T, H)
    BY QueueParts
<1>2. PICK s : s = Append(q[l], x)
    OBVIOUS
<1>3. QueueOf(s, l, T, H)
    BY <1>1, <1>2, QueueAppend
<1>4. QueueFits([q EXCEPT ![l] = s], n, T, H)
    BY <1>3, QueueChanged
<1> QED
    BY <1>2, <1>4

\* A closed loop drops its callbacks.
LEMMA QueueDrops ==
    ASSUME NEW n \in Nat, NEW T, NEW H, NEW q, QueueFits(q, n, T, H),
           NEW l \in 1..n
    PROVE  QueueFits([q EXCEPT ![l] = <<>>], n, T, H)
<1>1. PICK s : s = <<>>
    OBVIOUS
<1>2. QueueOf(s, l, T, H)
    BY <1>1 DEF QueueOf, StartsOnce
<1>3. QueueFits([q EXCEPT ![l] = s], n, T, H)
    BY <1>2, QueueChanged
<1> QED
    BY <1>1, <1>3

\* There is a loop more.
LEMMA QueueAdds ==
    ASSUME NEW n \in Nat, NEW T, NEW H, NEW q, QueueFits(q, n, T, H)
    PROVE  QueueFits(Append(q, <<>>), n + 1, T, H)
<1>1. PICK s : s = <<>>
    OBVIOUS
<1>2. q \in Seq(Seq(Callbacks)) /\ Len(q) = n /\ s \in Seq(Callbacks)
    BY <1>1 DEF QueueFits
<1>3. PICK p : p = Append(q, s)
    OBVIOUS
<1>4. /\ p \in Seq(Seq(Callbacks)) /\ Len(p) = n + 1 /\ p[n + 1] = s
      /\ \A j \in 1..n : p[j] = q[j]
    BY <1>2, <1>3, OneMore
<1>5. \A j \in 1..(n + 1) : j \in 1..n \/ j = n + 1
    OBVIOUS
<1>6. \A j \in 1..(n + 1) : QueueOf(p[j], j, T, H)
    <2>1. QueueOf(p[n + 1], n + 1, T, H)
        BY <1>1, <1>4 DEF QueueOf, StartsOnce
    <2> QED
        BY <1>4, <1>5, <2>1, QueueParts
<1>7. QueueFits(p, n + 1, T, H)
    BY <1>4, <1>6 DEF QueueFits, QueueOf
<1> QED
    BY <1>1, <1>3, <1>7

LEMMA QueueStays ==
    ASSUME NEW n \in Nat, NEW q,
           NEW T \in Seq(Tasks), NEW U \in Seq(Tasks), Advances(T, U),
           NEW H \in Seq(Nat), NEW G \in Seq(Nat), Extends(H, G),
           QueueFits(q, n, T, H)
    PROVE  QueueFits(q, n, U, G)
<1>1. ASSUME NEW l \in 1..n, NEW i \in 1..Len(q[l])
      PROVE  CallbackFits(l, q[l][i], U, G)
    <2>1. l \in Nat /\ q[l][i] \in Callbacks
        BY DEF QueueFits
    <2>2. CallbackFits(l, q[l][i], T, H)
        BY DEF QueueFits
    <2> QED
        BY <2>1, <2>2, CallbackStays
<1> QED
    BY <1>1 DEF QueueFits

\* A coroutine gets its turn, once it is started.
LEMMA QueueStarts ==
    ASSUME NEW n \in Nat, NEW H \in Seq(Nat),
           NEW T \in Seq(Tasks), NEW U \in Seq(Tasks), Len(U) = Len(T),
           NEW q, QueueFits(q, n, T, H), NEW c \in 1..Len(T),
           T[c].stage \in Handed, U[c].loop = T[c].loop,
           \A d \in 1..Len(T) : d # c => U[d] = T[d],
           \A l \in 1..n : \A i \in 1..Len(q[l]) :
               q[l][i].do = "start" => q[l][i].task # c
    PROVE  QueueFits(q, n, U, H)
<1>1. ASSUME NEW l \in 1..n, NEW i \in 1..Len(q[l])
      PROVE  CallbackFits(l, q[l][i], U, H)
    <2>1. PICK x : x = q[l][i]
        OBVIOUS
    <2>2. x \in Callbacks /\ CallbackFits(l, x, T, H)
        BY <2>1 DEF QueueFits
    <2>3. CASE x.task # c
        <3>1. x.task \in 0..Len(T) /\ (x.do # "stop" => x.task # 0)
            BY <2>2 DEF CallbackFits
        <3>2. x.do # "stop" => U[x.task] = T[x.task]
            BY <2>3, <3>1
        <3> QED
            BY <2>1, <2>2, <3>2 DEF CallbackFits
    <2>4. CASE x.task = c
        <3>1. x.do \notin {"start", "request", "close"}
            BY <2>1, <2>2, <2>4
               DEF CallbackFits, Handed, Asking, Ended
        <3> QED
            BY <2>1, <2>2, <2>4, <3>1
               DEF CallbackFits, Handed, Ended, Callbacks
    <2> QED
        BY <2>3, <2>4
<1> QED
    BY <1>1 DEF QueueFits

-----------------------------------------------------------------------------
(* What the steps have in common.                                          *)

\* The invariant of the coroutines and of the callbacks, as loops and
\* sessions are now.
Fits(T, q) ==
    /\ T \in Seq(Tasks) /\ Len(tasks) <= Len(T)
    /\ \A c \in 1..Len(T) : TaskFits(T[c], Len(phase), home)
    /\ QueueFits(q, Len(phase), T, home)

LEMMA KeptShape ==
    ASSUME Kept
    PROVE  /\ phase \in Seq(Phases) /\ Len(phase) \in Nat
           /\ DOMAIN phase = 1..Len(phase) /\ App \in 1..Len(phase)
           /\ home \in Seq(Nat) /\ Len(home) \in Nat
           /\ tasks \in Seq(Tasks) /\ Len(tasks) \in Nat
           /\ DOMAIN tasks = 1..Len(tasks)
           /\ None \notin Nat
           /\ Fits(tasks, queue)
BY SessionAssumption
   DEF Kept, LoopsOK, SessionsOK, TasksOK, Fits, App

LEMMA KeptAfter ==
    ASSUME Kept,
           phase' \in Seq(Phases), Len(phase) <= Len(phase'),
           SessionsOK', Extends(home, home'), FieldsOK',
           tasks' \in Seq(Tasks), Len(tasks) <= Len(tasks'),
           \A c \in 1..Len(tasks') :
               TaskFits(tasks'[c], Len(phase'), home'),
           QueueFits(queue', Len(phase'), tasks', home'),
           call' \in [Callers -> CallRecords],
           \A a \in Callers :
               \/ call'[a] = call[a]
               \/ CallFits(call'[a], Len(phase'), tasks'),
           calls' \in Nat, mishaps' = mishaps
    PROVE  Kept'
<1>1. /\ Len(phase) \in Nat /\ Len(phase') \in Nat /\ tasks \in Seq(Tasks)
      /\ 1 \in 1..Len(phase)
    BY KeptShape DEF App
<1>2. LoopsOK'
    BY <1>1 DEF LoopsOK
<1>3. TasksOK'
    BY DEF TasksOK
<1>4. \A a \in Callers : CallFits(call'[a], Len(phase'), tasks')
    <2> SUFFICES ASSUME NEW a \in Callers, call'[a] = call[a]
                 PROVE  CallFits(call'[a], Len(phase'), tasks')
        OBVIOUS
    <2>1. call[a] \in CallRecords /\ CallFits(call[a], Len(phase), tasks)
        BY DEF Kept, CallsOK
    <2>2. CallFits(call[a], Len(phase'), tasks')
        BY <1>1, <2>1, CallStays
    <2> QED
        BY <2>2
<1>5. CallsOK'
    BY <1>4 DEF Kept, CallsOK
<1> QED
    BY <1>2, <1>3, <1>5 DEF Kept

\* A step that makes no loop and no session.
LEMMA FitsKeeps ==
    ASSUME Kept, phase' = phase, home' = home, open' \subseteq open,
           FieldsOK', Fits(tasks', queue'),
           call' \in [Callers -> CallRecords],
           \A a \in Callers :
               \/ call'[a] = call[a]
               \/ CallFits(call'[a], Len(phase), tasks'),
           calls' \in Nat, mishaps' = mishaps
    PROVE  Kept'
<1>1. /\ phase \in Seq(Phases) /\ Len(phase) \in Nat
      /\ home \in Seq(Nat) /\ Len(phase) <= Len(phase)
    BY KeptShape
<1>2. SessionsOK' /\ Extends(home, home')
    BY <1>1, NothingNew DEF Kept, SessionsOK
<1> QED
    BY <1>1, <1>2, KeptAfter DEF Fits

\* A step of no call.
LEMMA LoopKeeps ==
    ASSUME Kept, phase' = phase, home' = home, open' \subseteq open,
           FieldsOK', Fits(tasks', queue'), UNCHANGED callVars
    PROVE  Kept'
<1>1. /\ call' \in [Callers -> CallRecords] /\ calls' \in Nat
      /\ mishaps' = mishaps /\ \A a \in Callers : call'[a] = call[a]
    BY DEF callVars, Kept, CallsOK
<1> QED
    BY <1>1, FitsKeeps

\* A step of one call.
LEMMA CallKeeps ==
    ASSUME Kept, phase' = phase, home' = home, open' = open,
           FieldsOK', Fits(tasks', queue'),
           NEW a \in Callers, NEW k \in CallRecords,
           call' = [call EXCEPT ![a] = k],
           CallFits(k, Len(phase), tasks'),
           calls' \in Nat, mishaps' = mishaps
    PROVE  Kept'
<1>1. /\ call' \in [Callers -> CallRecords]
      /\ \A b \in Callers :
          call'[b] = call[b] \/ CallFits(call'[b], Len(phase), tasks')
    BY DEF Kept, CallsOK
<1> QED
    BY <1>1, FitsKeeps

\* A coroutine changes.
LEMMA TaskChanges ==
    ASSUME Kept, NEW q, QueueFits(q, Len(phase), tasks, home),
           NEW c \in 1..Len(tasks), NEW t \in Tasks, Moves(tasks[c], t),
           TaskFits(t, Len(phase), home), NEW T, Puts(tasks, c, t, T)
    PROVE  Fits(T, q) /\ Len(T) = Len(tasks) /\ T[c] = t
<1>1. /\ tasks \in Seq(Tasks) /\ home \in Seq(Nat) /\ Len(phase) \in Nat
      /\ Len(tasks) \in Nat
    BY KeptShape
<1>2. /\ T \in Seq(Tasks) /\ Len(T) = Len(tasks) /\ T[c] = t
      /\ \A d \in 1..Len(tasks) : d # c => T[d] = tasks[d]
      /\ Advances(tasks, T)
    <2>1. PICK S : S = tasks
        OBVIOUS
    <2>2. /\ S \in Seq(Tasks) /\ c \in 1..Len(S) /\ Moves(S[c], t)
          /\ Puts(S, c, t, T)
        BY <1>1, <2>1
    <2>3. /\ T \in Seq(Tasks) /\ Len(T) = Len(S) /\ T[c] = t
          /\ \A d \in 1..Len(S) : d # c => T[d] = S[d]
          /\ Advances(S, T)
        BY <2>2, OneMoves
    <2> QED
        BY <2>1, <2>3
<1>3. QueueFits(q, Len(phase), T, home)
    BY <1>1, <1>2, NothingNew, QueueStays
<1>4. \A d \in 1..Len(T) : TaskFits(T[d], Len(phase), home)
    BY <1>2 DEF Kept, TasksOK
<1> QED
    BY <1>1, <1>2, <1>3, <1>4 DEF Fits

\* A coroutine ends.
LEMMA OverFits ==
    ASSUME Kept, NEW how \in Ended
    PROVE  Over(how) \in Tasks /\ TaskFits(Over(how), Len(phase), home)
<1>1. App \in 1..Len(phase) /\ Client \in Handles /\ App \in Nat
    BY KeptShape DEF Handles, App
<1> QED
    BY <1>1 DEF Over, Task, Tasks, TaskFits, Handed, Ended

LEMMA EndFits ==
    ASSUME Kept, NEW q, QueueFits(q, Len(phase), tasks, home),
           NEW c \in 1..Len(tasks), tasks[c].stage \notin Handed,
           NEW how \in Ended, End(c, how)
    PROVE  Fits(tasks', q)
<1>1. PICK t : t = Over(how)
    OBVIOUS
<1>2. t \in Tasks /\ TaskFits(t, Len(phase), home)
    BY <1>1, OverFits
<1>3. t.stage = how
    BY <1>1 DEF Over, Task
<1>4. Puts(tasks, c, t, tasks') /\ Moves(tasks[c], t)
    BY <1>1, <1>3 DEF End, Moves, Puts
<1> QED
    BY <1>2, <1>4, TaskChanges

\* The next callback of a loop, and the coroutine it is about.
LEMMA HeadFits ==
    ASSUME Kept, NEW l \in 1..Len(phase), queue[l] # <<>>
    PROVE  /\ Head(queue[l]) \in Callbacks
           /\ CallbackFits(l, Head(queue[l]), tasks, home)
           /\ QueueFits(Rest(l), Len(phase), tasks, home)
           /\ Head(queue[l]).do # "stop" =>
                  LET c == Head(queue[l]).task
                  IN  /\ c \in 1..Len(tasks) /\ tasks[c] \in Tasks
                      /\ TaskFits(tasks[c], Len(phase), home)
<1>1. Len(phase) \in Nat /\ QueueFits(queue, Len(phase), tasks, home)
    BY KeptShape DEF Kept, LoopsOK
<1>2. /\ Head(queue[l]) \in Callbacks
      /\ CallbackFits(l, Head(queue[l]), tasks, home)
      /\ QueueFits([queue EXCEPT ![l] = Tail(@)], Len(phase), tasks, home)
    BY <1>1, QueueRests
<1>3. PICK x : x = Head(queue[l])
    OBVIOUS
<1>4. x.do # "stop" => x.task \in 1..Len(tasks)
    BY <1>2, <1>3, KeptShape DEF CallbackFits
<1> QED
    BY <1>2, <1>3, <1>4 DEF Rest, Kept, TasksOK

\* A request is made in place, refused, or forwarded to its loop.
LEMMA RequestFits ==
    ASSUME Kept, NEW q, QueueFits(q, Len(phase), tasks, home),
           NEW c \in 1..Len(tasks), NEW stage \in Asking,
           tasks[c].stage \in Asking \cup {"ready"}, Request(c, stage, q)
    PROVE  Fits(tasks', queue')
<1>1. /\ tasks \in Seq(Tasks) /\ tasks[c] \in Tasks
      /\ TaskFits(tasks[c], Len(phase), home)
      /\ None \notin Nat /\ Len(phase) \in Nat /\ Len(home) \in Nat
      /\ Len(tasks) \in Nat
    BY KeptShape DEF Kept, TasksOK
<1>2. PICK t : t = tasks[c]
    OBVIOUS
<1>3. PICK s : s = session[t.handle]
    OBVIOUS
<1>4. t \in Tasks /\ TaskFits(t, Len(phase), home) /\ t.handle \in Handles
    BY <1>1, <1>2 DEF Tasks
<1>5. /\ s \in (1..Len(home)) \cup {None}
      /\ s \in open => s \in 1..Len(home) /\ s # None
      /\ s # None => home[s] \in 1..Len(phase)
    <2>1. s \in (1..Len(home)) \cup {None}
        BY <1>3, <1>4 DEF Kept, FieldsOK
    <2>2. open \subseteq 1..Len(home) /\ 1..Len(home) \subseteq Nat
        BY <1>1 DEF Kept, SessionsOK
    <2>3. \A i \in 1..Len(home) : home[i] \in 1..Len(phase)
        BY DEF Kept, SessionsOK
    <2> QED
        BY <1>1, <2>1, <2>2, <2>3
<1>6. PICK owner : owner = IF s = None THEN None ELSE home[s]
    OBVIOUS
<1>7. owner = Owner(t.handle)
    BY <1>3, <1>6 DEF Owner
<1>8. t.stage \notin Handed /\ t.stage \notin Ended /\ t.stage # "closing"
    BY <1>2 DEF Asking, Handed, Ended
<1>9. CASE /\ owner \in {None, t.loop}
           /\ tasks' = [tasks EXCEPT ![c] = Sent(t, stage, t.loop)]
           /\ queue' = q
    <2>1. PICK u : u = Sent(t, stage, t.loop)
        OBVIOUS
    <2>2. CASE s \in open
        <3>1. u = [t EXCEPT !.stage = stage, !.at = t.loop, !.sent = TRUE,
                            !.via = s]
            BY <1>3, <2>1, <2>2 DEF Sent
        <3>2. u \in Tasks
            <4>1. s \in Nat /\ stage \in Asking /\ t.loop \in Nat
                BY <1>4, <1>5, <2>2, KeptShape DEF Tasks
            <4> QED
                BY <1>4, <3>1, <4>1 DEF Tasks
        <3>3. /\ u.loop = t.loop /\ u.stage = stage /\ u.at = t.loop
              /\ u.sent /\ u.via = s
            BY <1>4, <3>1 DEF Tasks
        <3>4. home[s] = t.loop /\ s # None
            BY <1>1, <1>5, <1>6, <1>9, <2>2
        <3>5. TaskFits(u, Len(phase), home)
            <4>1. /\ t.loop \in 1..Len(phase) /\ s \in 1..Len(home)
                  /\ stage \notin Handed \cup {"ready", "closing"}
                BY <1>4, <1>5, <2>2 DEF TaskFits, Asking, Handed
            <4> QED
                BY <3>3, <3>4, <4>1 DEF TaskFits
        <3>6. Moves(t, u)
            BY <1>8, <3>3 DEF Moves
        <3>7. Puts(tasks, c, u, tasks') /\ Moves(tasks[c], u)
            BY <1>2, <1>9, <2>1, <3>6 DEF Puts
        <3> QED
            BY <1>9, <3>2, <3>5, <3>7, TaskChanges
    <2>3. CASE s \notin open
        <3>1. End(c, "raised")
            BY <1>3, <1>9, <2>3 DEF Sent, End
        <3>2. "raised" \in Ended /\ tasks[c].stage \notin Handed
            BY <1>2, <1>8 DEF Ended
        <3> QED
            BY <1>9, <3>1, <3>2, EndFits
    <2> QED
        BY <2>2, <2>3
<1>10. CASE End(c, "raised") /\ queue' = q
    <2>1. "raised" \in Ended /\ tasks[c].stage \notin Handed
        BY <1>2, <1>8 DEF Ended
    <2> QED
        BY <1>10, <2>1, EndFits
<1>11. CASE /\ owner \notin {None, t.loop}
            /\ tasks' = [tasks EXCEPT ![c].stage = stage, ![c].at = owner,
                                      ![c].sent = FALSE]
            /\ queue' = [q EXCEPT ![owner] =
                            Append(@, Callback("request", c))]
    <2>1. PICK u : u = [t EXCEPT !.stage = stage, !.at = owner,
                                 !.sent = FALSE]
        OBVIOUS
    <2>2. owner \in 1..Len(phase) /\ owner \in Nat
        BY <1>1, <1>5, <1>6, <1>11
    <2>3. /\ u \in Tasks /\ u.loop = t.loop /\ u.stage = stage
          /\ u.at = owner /\ ~u.sent /\ u.via = t.via
        BY <1>4, <2>1, <2>2 DEF Tasks
    <2>4. TaskFits(u, Len(phase), home)
        BY <1>4, <2>2, <2>3 DEF TaskFits, Asking, Handed
    <2>5. Moves(t, u)
        BY <1>8, <2>3 DEF Moves
    <2>6. Puts(tasks, c, u, tasks') /\ Moves(tasks[c], u)
        BY <1>2, <1>11, <2>1, <2>5 DEF Puts
    <2>7. Fits(tasks', q) /\ Len(tasks') = Len(tasks) /\ tasks'[c] = u
        BY <2>3, <2>4, <2>6, TaskChanges
    <2>8. PICK x : x = Callback("request", c)
        OBVIOUS
    <2>9. /\ x \in Callbacks
          /\ x.do = "request" /\ x.task = c /\ x.via = None
        BY <1>1, <2>8 DEF Callback, Callbacks
    <2>10. CallbackFits(owner, x, tasks', home)
        <3>1. /\ x.task \in 0..Len(tasks') /\ x.task # 0
              /\ tasks'[x.task].stage \in Asking
              /\ tasks'[x.task].loop # owner
            <4>1. tasks'[c].stage = stage /\ tasks'[c].loop = t.loop
                BY <2>3, <2>7
            <4>2. Len(tasks') = Len(tasks) /\ owner # t.loop
                BY <1>11, <2>7
            <4> QED
                BY <1>1, <2>9, <4>1, <4>2
        <3> QED
            BY <2>9, <3>1 DEF CallbackFits
    <2>11. QueueFits(q, Len(phase), tasks', home)
        BY <2>7 DEF Fits
    <2>12. QueueFits(queue', Len(phase), tasks', home)
        BY <1>1, <1>11, <2>2, <2>8, <2>9, <2>10, <2>11, QueueTakes
    <2> QED
        BY <2>7, <2>12 DEF Fits
<1> QED
    BY <1>2, <1>7, <1>9, <1>10, <1>11 DEF Request

-----------------------------------------------------------------------------
(* The turns of a loop.                                                    *)

\* The coroutine whose first turn it is, on its loop.
Ready(c, l) ==
    /\ Kept
    /\ l \in 1..Len(phase) /\ c \in 1..Len(tasks)
    /\ tasks[c] \in Tasks /\ tasks[c].handle \in Handles
    /\ tasks[c].stage = "ready" /\ tasks[c].loop = l /\ tasks[c].at = l
    /\ ~tasks[c].sent
    /\ QueueFits(Rest(l), Len(phase), tasks, home)

LEMMA StepReady ==
    ASSUME Kept, NEW l \in 1..Len(phase), Holds(l, "step"),
           tasks[Head(queue[l]).task].stage = "ready"
    PROVE  Ready(Head(queue[l]).task, l)
<1>1. PICK x : x = Head(queue[l])
    OBVIOUS
<1>2. queue[l] # <<>> /\ x.do = "step"
    BY <1>1 DEF Holds
<1>3. PICK c : c = x.task
    OBVIOUS
<1>4. /\ CallbackFits(l, x, tasks, home)
      /\ QueueFits(Rest(l), Len(phase), tasks, home)
      /\ c \in 1..Len(tasks) /\ tasks[c] \in Tasks
      /\ TaskFits(tasks[c], Len(phase), home)
    BY <1>1, <1>2, <1>3, HeadFits
<1>5. tasks[c].stage = "ready" /\ "ready" \notin Ended
    BY <1>1, <1>3 DEF Ended
<1>6. tasks[c].loop = l
    BY <1>2, <1>3, <1>4, <1>5 DEF CallbackFits
<1>7. tasks[c].at = l /\ ~tasks[c].sent
    BY <1>4, <1>5, <1>6 DEF TaskFits
<1>8. tasks[c].handle \in Handles
    BY <1>4 DEF Tasks
<1> QED
    BY <1>1, <1>3, <1>4, <1>5, <1>6, <1>7, <1>8 DEF Ready

LEMMA ReadyEnds ==
    ASSUME NEW c, NEW l, Ready(c, l), NEW how \in Ended, End(c, how),
           queue' = Rest(l)
    PROVE  Fits(tasks', queue')
<1>1. tasks[c].stage \notin Handed
    BY DEF Ready, Handed
<1> QED
    BY <1>1, EndFits DEF Ready

LEMMA ConnectAgainKeeps ==
    ASSUME NEW c, NEW l, Ready(c, l), ConnectAgain(c, l),
           UNCHANGED <<phase, loopThread, resource, live, callVars,
                       authenticated>>
    PROVE  Kept'
<1>1. Fits(tasks', queue')
    <2>1. "returned" \in Ended /\ End(c, "returned") /\ queue' = Rest(l)
        BY DEF Ended, ConnectAgain
    <2> QED
        BY <2>1, ReadyEnds
<1>2. FieldsOK' /\ home' = home /\ open' = open
    BY DEF ConnectAgain, Ready, Kept, FieldsOK
<1> QED
    BY <1>1, <1>2, LoopKeeps DEF Ready

LEMMA ConnectReusingKeeps ==
    ASSUME NEW c, NEW l, Ready(c, l), ConnectReusing(c, l),
           UNCHANGED <<phase, loopThread, resource, live, callVars,
                       authenticated>>
    PROVE  Kept'
<1>1. Fits(tasks', queue')
    <2>1. PICK stage \in Asking : stage = "auth"
        BY DEF Asking
    <2>2. PICK q : q = Rest(l)
        OBVIOUS
    <2>3. Request(c, stage, q)
        BY <2>1, <2>2 DEF ConnectReusing
    <2>4. QueueFits(q, Len(phase), tasks, home) /\ c \in 1..Len(tasks)
        BY <2>2 DEF Ready
    <2>5. tasks[c].stage \in Asking \cup {"ready"}
        BY DEF Ready
    <2> QED
        BY <2>3, <2>4, <2>5, RequestFits DEF Ready
<1>2. FieldsOK' /\ home' = home /\ open' = open
    BY DEF ConnectReusing, Ready, Kept, FieldsOK
<1> QED
    BY <1>1, <1>2, LoopKeeps DEF Ready

\* A session is made where it will be used.
LEMMA ConnectAnewKeeps ==
    ASSUME NEW c, NEW l, Ready(c, l), ConnectAnew(c, l),
           UNCHANGED <<phase, loopThread, resource, live, callVars,
                       authenticated>>
    PROVE  Kept'
<1>1. /\ tasks \in Seq(Tasks) /\ home \in Seq(Nat) /\ Len(home) \in Nat
      /\ Len(phase) \in Nat /\ None \notin Nat /\ phase \in Seq(Phases)
      /\ Len(tasks) \in Nat /\ l \in Nat
    BY KeptShape DEF Ready
<1>2. PICK t : t = tasks[c]
    OBVIOUS
<1>3. /\ t \in Tasks /\ t.loop = l /\ t.at = l /\ t.stage = "ready"
      /\ t.handle \in Handles /\ l \in 1..Len(phase)
    BY <1>2 DEF Ready
<1>4. PICK s : s = Len(home) + 1
    OBVIOUS
<1>5. home' = Append(home, l) /\ open' = open \cup {s}
      /\ session' = [session EXCEPT ![t.handle] = s]
    BY <1>2, <1>4 DEF ConnectAnew
<1>6. /\ home' \in Seq(Nat) /\ Len(home') = s /\ home'[s] = l
      /\ \A i \in 1..Len(home) : home'[i] = home[i]
      /\ s \in Nat /\ s \in 1..s /\ \A i \in 1..s : i \in 1..Len(home) \/ i = s
    BY <1>1, <1>4, <1>5, OneMore
<1>7. Extends(home, home')
    BY <1>1, <1>4, <1>6 DEF Extends
<1>8. SessionsOK'
    <2>1. \A i \in 1..s : home'[i] \in 1..Len(phase)
        BY <1>3, <1>6 DEF Ready, Kept, SessionsOK
    <2>2. open' \subseteq 1..s
        <3>1. open \subseteq 1..Len(home)
            BY DEF Ready, Kept, SessionsOK
        <3>2. 1..Len(home) \subseteq 1..s
            BY <1>1, <1>4
        <3> QED
            BY <1>5, <1>6, <3>1, <3>2
    <2> QED
        BY <1>6, <2>1, <2>2 DEF SessionsOK
<1>9. FieldsOK'
    <2>1. session' \in [Handles -> (1..s) \cup {None}]
        <3>1. session \in [Handles -> (1..Len(home)) \cup {None}]
            BY DEF Ready, Kept, FieldsOK
        <3>2. (1..Len(home)) \cup {None} \subseteq (1..s) \cup {None}
            BY <1>1, <1>4
        <3> QED
            BY <1>3, <1>5, <1>6, <3>1, <3>2
    <2> QED
        BY <1>6, <2>1 DEF Ready, Kept, FieldsOK
<1>10. PICK u : u = [t EXCEPT !.stage = "auth", !.sent = TRUE, !.via = s]
    OBVIOUS
<1>11. /\ u \in Tasks /\ u.loop = l /\ u.stage = "auth" /\ u.at = l
       /\ u.sent /\ u.via = s
    BY <1>3, <1>6, <1>10 DEF Tasks, Asking
<1>12. TaskFits(u, Len(phase), home')
    BY <1>1, <1>3, <1>6, <1>11 DEF TaskFits, Handed
<1>13. Moves(t, u)
    BY <1>3, <1>11 DEF Moves, Ended, Handed, Asking
<1>14. Puts(tasks, c, u, tasks')
    BY <1>2, <1>4, <1>10 DEF ConnectAnew, Puts
<1>15. /\ tasks' \in Seq(Tasks) /\ Len(tasks') = Len(tasks)
       /\ tasks'[c] = u /\ Advances(tasks, tasks')
       /\ \A d \in 1..Len(tasks) : d # c => tasks'[d] = tasks[d]
    <2>1. c \in 1..Len(tasks) /\ Moves(tasks[c], u)
        BY <1>2, <1>13 DEF Ready
    <2> QED
        <3>1. u \in Tasks /\ tasks \in Seq(Tasks)
            BY <1>1, <1>11
        <3> QED
            BY <1>14, <2>1, <3>1, OneMoves
<1>16. \A d \in 1..Len(tasks') : TaskFits(tasks'[d], Len(phase), home')
    <2> SUFFICES ASSUME NEW d \in 1..Len(tasks), d # c
                 PROVE  TaskFits(tasks'[d], Len(phase), home')
        BY <1>12, <1>15
    <2>1. /\ tasks'[d] = tasks[d] /\ tasks[d] \in Tasks
          /\ TaskFits(tasks[d], Len(phase), home)
          /\ Len(phase) <= Len(phase)
        BY <1>1, <1>15 DEF Ready, Kept, TasksOK
    <2> QED
        BY <1>1, <1>6, <1>7, <2>1, TaskStays
<1>17. QueueFits(queue', Len(phase), tasks', home')
    <2>1. QueueFits(Rest(l), Len(phase), tasks, home) /\ queue' = Rest(l)
        BY DEF Ready, ConnectAnew
    <2> QED
        BY <1>1, <1>6, <1>7, <1>15, <2>1, QueueStays
<1>18. /\ call' \in [Callers -> CallRecords] /\ calls' \in Nat
       /\ mishaps' = mishaps /\ \A a \in Callers : call'[a] = call[a]
    BY DEF callVars, Ready, Kept, CallsOK
<1>19. /\ phase' \in Seq(Phases) /\ Len(phase') = Len(phase)
       /\ Len(phase) <= Len(phase') /\ Len(tasks) <= Len(tasks')
    BY <1>1, <1>15
<1> QED
    BY <1>7, <1>8, <1>9, <1>15, <1>16, <1>17, <1>18, <1>19, KeptAfter
       DEF Ready

LEMMA CloseKeeps ==
    ASSUME NEW c, NEW l, Ready(c, l), Close(c, l),
           UNCHANGED <<phase, loopThread, resource, live, callVars>>
    PROVE  Kept'
<1>1. /\ home \in Seq(Nat) /\ Len(home) \in Nat /\ Len(phase) \in Nat
      /\ None \notin Nat /\ Len(tasks) \in Nat /\ l \in Nat
    BY KeptShape DEF Ready
<1>2. PICK t : t = tasks[c]
    OBVIOUS
<1>3. /\ t \in Tasks /\ t.loop = l /\ t.at = l /\ t.stage = "ready"
      /\ ~t.sent /\ t.handle \in Handles /\ l \in 1..Len(phase)
      /\ c \in 1..Len(tasks) /\ TaskFits(t, Len(phase), home)
    BY <1>2 DEF Ready, Kept, TasksOK
<1>4. PICK q : q = Rest(l)
    OBVIOUS
<1>5. QueueFits(q, Len(phase), tasks, home)
    BY <1>4 DEF Ready
<1>6. PICK s : s = session[Client]
    OBVIOUS
<1>7. /\ open \subseteq 1..Len(home) /\ 1..Len(home) \subseteq Nat
      /\ \A i \in 1..Len(home) : home[i] \in 1..Len(phase)
    BY <1>1 DEF Ready, Kept, SessionsOK
<1>8. s \in open => /\ s \in 1..Len(home) /\ s \in Nat /\ s # None
                    /\ Owner(Client) = home[s] /\ home[s] \in 1..Len(phase)
                    /\ home[s] \in Nat
    BY <1>1, <1>6, <1>7 DEF Owner
<1>9. Fits(tasks', queue') /\ open' \subseteq open
    <2>1. CASE CloseView(c, l) \/ CloseNothing(c, l)
        <3>1. /\ "returned" \in Ended /\ End(c, "returned")
              /\ queue' = Rest(l) /\ open' = open
            BY <2>1 DEF Ended, CloseView, CloseNothing
        <3> QED
            BY <3>1, ReadyEnds
    <2>2. CASE CloseHere(c, l)
        <3>1. PICK u : u = [t EXCEPT !.stage = "closing", !.sent = TRUE,
                                     !.via = s]
            OBVIOUS
        <3>2. /\ s \in open /\ Owner(Client) = l /\ queue' = q
              /\ open' \subseteq open
            BY <1>4, <1>6, <2>2 DEF CloseHere
        <3>3. /\ u \in Tasks /\ u.loop = l /\ u.at = l
              /\ u.stage = "closing" /\ u.sent /\ u.via = s
            BY <1>3, <1>8, <3>1, <3>2 DEF Tasks
        <3>4. u \in Tasks /\ TaskFits(u, Len(phase), home)
            BY <1>3, <1>8, <3>2, <3>3 DEF TaskFits, Handed
        <3>5. Puts(tasks, c, u, tasks')
            BY <1>2, <1>6, <2>2, <3>1 DEF CloseHere, Puts
        <3>6. Moves(tasks[c], u)
            BY <1>2, <1>3, <3>3 DEF Moves, Ended, Handed, Asking
        <3>7. Fits(tasks', q)
            BY <1>3, <1>5, <3>4, <3>5, <3>6, TaskChanges DEF Ready
        <3> QED
            BY <3>2, <3>7
    <2>3. CASE CloseElsewhere(c, l)
        <3>1. PICK owner : owner = home[s]
            OBVIOUS
        <3>2. /\ s \in open /\ owner = Owner(Client) /\ owner # l
              /\ open' = open
            BY <1>6, <1>8, <2>3, <3>1 DEF CloseElsewhere
        <3>3. PICK u : u = [t EXCEPT !.stage = "closing", !.at = owner,
                                     !.via = s]
            OBVIOUS
        <3>4. /\ u \in Tasks /\ u.loop = l /\ u.at = owner
              /\ u.stage = "closing" /\ ~u.sent /\ u.via = s
            BY <1>3, <1>8, <3>1, <3>2, <3>3 DEF Tasks
        <3>5. u \in Tasks /\ TaskFits(u, Len(phase), home)
            BY <1>3, <1>8, <3>1, <3>2, <3>4 DEF TaskFits, Handed
        <3>6. Puts(tasks, c, u, tasks')
            BY <1>2, <1>6, <2>3, <3>2, <3>3 DEF CloseElsewhere, Puts
        <3>7. Moves(tasks[c], u)
            BY <1>2, <1>3, <3>4 DEF Moves, Ended, Handed, Asking
        <3>8. Fits(tasks', q) /\ Len(tasks') = Len(tasks) /\ tasks'[c] = u
            BY <1>3, <1>5, <3>5, <3>6, <3>7, TaskChanges DEF Ready
        <3>9. PICK x : x = Closing(c, s)
            OBVIOUS
        <3>10. /\ x \in Callbacks
               /\ x.do = "close" /\ x.task = c /\ x.via = s
            BY <1>1, <1>3, <1>8, <3>2, <3>9 DEF Closing, Callbacks
        <3>11. CallbackFits(owner, x, tasks', home)
            <4>1. /\ x.task \in 0..Len(tasks') /\ x.task # 0
                  /\ tasks'[x.task].stage = "closing"
                BY <1>1, <1>3, <3>4, <3>8, <3>10
            <4>2. x.via \in 1..Len(home) /\ x.via # None
                  /\ home[x.via] = owner
                BY <1>8, <3>1, <3>2, <3>10
            <4> QED
                BY <3>10, <4>1, <4>2 DEF CallbackFits
        <3>12. queue' = [q EXCEPT ![owner] = Append(@, x)]
            BY <1>4, <1>6, <2>3, <3>2, <3>9 DEF CloseElsewhere
        <3>13. QueueFits(queue', Len(phase), tasks', home)
            <4>1. QueueFits(q, Len(phase), tasks', home)
                BY <3>8 DEF Fits
            <4>2. owner \in 1..Len(phase) /\ x \in Callbacks
                  /\ x.do # "start"
                BY <1>8, <3>1, <3>2, <3>10
            <4> QED
                BY <1>1, <3>11, <3>12, <4>1, <4>2, QueueTakes
        <3> QED
            BY <3>2, <3>8, <3>13 DEF Fits
    <2> QED
        BY <2>1, <2>2, <2>3 DEF Close
<1>10. FieldsOK' /\ home' = home
    <2>1. \/ session' = session
          \/ session' = [session EXCEPT ![Client] = None]
        BY DEF Close, CloseView, CloseNothing, CloseHere, CloseElsewhere
    <2>2. session' \in [Handles -> (1..Len(home)) \cup {None}]
        BY <2>1 DEF Ready, Kept, FieldsOK
    <2>3. authenticated' \in [Handles -> BOOLEAN]
        BY DEF Close, Ready, Kept, FieldsOK
    <2> QED
        BY <2>2, <2>3 DEF Close, Ready, Kept, FieldsOK
<1> QED
    BY <1>9, <1>10, LoopKeeps DEF Ready

LEMMA UseKeeps ==
    ASSUME NEW c, NEW l, Ready(c, l), Use(c, l),
           UNCHANGED <<phase, loopThread, resource, live, callVars>>
    PROVE  Kept'
<1>1. Fits(tasks', queue')
    <2>1. CASE Request(c, "request", Rest(l))
        <3>1. PICK stage \in Asking : stage = "request"
            BY DEF Asking
        <3>2. PICK q : q = Rest(l)
            OBVIOUS
        <3>3. Request(c, stage, q)
            BY <2>1, <3>1, <3>2
        <3>4. QueueFits(q, Len(phase), tasks, home) /\ c \in 1..Len(tasks)
            BY <3>2 DEF Ready
        <3>5. tasks[c].stage \in Asking \cup {"ready"}
            BY DEF Ready
        <3> QED
            BY <3>3, <3>4, <3>5, RequestFits DEF Ready
    <2>2. CASE End(c, "raised") /\ queue' = Rest(l)
        <3>1. "raised" \in Ended
            BY DEF Ended
        <3> QED
            BY <2>2, <3>1, ReadyEnds
    <2> QED
        BY <2>1, <2>2 DEF Use
<1>2. FieldsOK' /\ home' = home /\ open' = open
    BY DEF Use, Ready, Kept, FieldsOK
<1> QED
    BY <1>1, <1>2, LoopKeeps DEF Ready

LEMMA StepKeeps ==
    ASSUME Kept, NEW l \in 1..Len(phase), Step(l)
    PROVE  Kept'
<1>1. PICK c : c = Head(queue[l]).task
    OBVIOUS
<1>2. Ready(c, l)
    BY <1>1, StepReady DEF Step
<1>3. UNCHANGED <<phase, loopThread, resource, live, callVars>>
    BY DEF Step
<1>4. CASE Connect(c, l)
    <2>1. UNCHANGED authenticated
        BY <1>4 DEF Connect
    <2>2. CASE ConnectAgain(c, l)
        BY <1>2, <1>3, <2>1, <2>2, ConnectAgainKeeps
    <2>3. CASE ConnectAnew(c, l)
        BY <1>2, <1>3, <2>1, <2>3, ConnectAnewKeeps
    <2>4. CASE ConnectReusing(c, l)
        BY <1>2, <1>3, <2>1, <2>4, ConnectReusingKeeps
    <2> QED
        BY <1>4, <2>2, <2>3, <2>4 DEF Connect
<1>5. CASE Close(c, l)
    BY <1>2, <1>3, <1>5, CloseKeeps
<1>6. CASE Use(c, l)
    BY <1>2, <1>3, <1>6, UseKeeps
<1> QED
    BY <1>1, <1>4, <1>5, <1>6 DEF Step

\* The fields are as they were.
LEMMA SameFields ==
    ASSUME Kept, UNCHANGED <<phase, home, fields>>
    PROVE  FieldsOK'
BY DEF Kept, FieldsOK, fields

\* A turn that does nothing to a coroutine.
LEMMA RestFits ==
    ASSUME Kept, NEW l \in 1..Len(phase), queue[l] # <<>>,
           queue' = Rest(l), tasks' = tasks
    PROVE  Fits(tasks', queue')
<1>1. QueueFits(Rest(l), Len(phase), tasks, home)
    BY HeadFits
<1> QED
    BY <1>1, KeptShape DEF Fits, Kept, TasksOK

\* A callback for a coroutine is handed to the loop twice at most: to be
\* started, and cancelled if its caller has given it up.
LEMMA StartKeeps ==
    ASSUME Kept, NEW l \in 1..Len(phase), Start(l)
    PROVE  Kept'
<1>1. /\ tasks \in Seq(Tasks) /\ home \in Seq(Nat) /\ Len(phase) \in Nat
      /\ Len(tasks) \in Nat /\ None \notin Nat
    BY KeptShape
<1>2. PICK c : c = Head(queue[l]).task
    OBVIOUS
<1>3. PICK q : q = Rest(l)
    OBVIOUS
<1>4. PICK n : n = Len(phase)
    OBVIOUS
<1>5. queue[l] # <<>> /\ Head(queue[l]).do = "start"
    BY DEF Start, Holds
<1>6. /\ c \in 1..Len(tasks) /\ tasks[c] \in Tasks
      /\ TaskFits(tasks[c], n, home) /\ QueueFits(q, n, tasks, home)
      /\ CallbackFits(l, Head(queue[l]), tasks, home)
    BY <1>2, <1>3, <1>4, <1>5, HeadFits
<1>7. tasks[c].stage \in Handed /\ tasks[c].loop = l
    BY <1>2, <1>5, <1>6 DEF CallbackFits
<1>8. ASSUME NEW m \in 1..n, NEW i \in 1..Len(q[m]), q[m][i].do = "start"
      PROVE  q[m][i].task # c
    <2>1. CASE m # l
        <3>1. CallbackFits(m, q[m][i], tasks, home)
            BY <1>6 DEF QueueFits
        <3> QED
            BY <1>7, <1>8, <2>1, <3>1 DEF CallbackFits
    <2>2. CASE m = l
        <3>1. l \in Nat /\ QueueOf(queue[l], l, tasks, home)
            BY <1>1, QueueParts DEF Kept, LoopsOK
        <3>2. PICK s : s = queue[l]
            OBVIOUS
        <3>3. /\ Head(s).do = "start" /\ Head(s).task = c /\ s # <<>>
              /\ QueueOf(s, l, tasks, home)
            BY <1>2, <1>5, <3>1, <3>2
        <3>4. q[l] = Tail(s)
            <4>1. DOMAIN queue = 1..n
                BY <1>4 DEF Kept, LoopsOK, QueueFits
            <4> QED
                BY <1>3, <1>4, <3>2, <4>1 DEF Rest
        <3>5. \A j \in 1..Len(Tail(s)) :
                  Tail(s)[j].do = "start" => Tail(s)[j].task # Head(s).task
            BY <3>1, <3>3, QueueTail
        <3> QED
            BY <1>8, <2>2, <3>3, <3>4, <3>5
    <2> QED
        BY <2>1, <2>2
<1>9. PICK t : t = tasks[c]
    OBVIOUS
<1>10. PICK u : u = [t EXCEPT !.stage = "ready"]
    OBVIOUS
<1>11. /\ u \in Tasks /\ u.stage = "ready" /\ u.loop = t.loop
       /\ u.at = t.at /\ u.sent = t.sent /\ u.via = t.via
    BY <1>6, <1>9, <1>10 DEF Tasks
<1>12. u \in Tasks /\ TaskFits(u, n, home)
    BY <1>6, <1>7, <1>9, <1>11 DEF TaskFits
<1>13. PICK U : U = tasks'
    OBVIOUS
<1>14. U = [tasks EXCEPT ![c] = u]
    BY <1>2, <1>9, <1>10, <1>13 DEF Start
<1>15. /\ U \in Seq(Tasks) /\ Len(U) = Len(tasks) /\ U[c] = u
       /\ \A d \in 1..Len(tasks) : d # c => U[d] = tasks[d]
    BY <1>1, <1>6, <1>12, <1>14, OneChanged
<1>16. \A d \in 1..Len(U) : TaskFits(U[d], n, home)
    BY <1>4, <1>12, <1>15 DEF Kept, TasksOK
<1>17. QueueFits(q, n, U, home)
    <2>1. U[c].loop = tasks[c].loop
        BY <1>9, <1>11, <1>15
    <2> QED
        BY <1>1, <1>4, <1>6, <1>7, <1>8, <1>15, <2>1, QueueStarts
<1>18. PICK x : x = Callback("step", c)
    OBVIOUS
<1>19. PICK y : y = Callback("cancel", c)
    OBVIOUS
<1>20. /\ x \in Callbacks /\ CallbackFits(l, x, U, home) /\ x.do # "start"
       /\ y \in Callbacks /\ CallbackFits(l, y, U, home) /\ y.do # "start"
    <2>1. /\ x \in Callbacks /\ x.do = "step" /\ x.task = c /\ x.via = None
          /\ y \in Callbacks /\ y.do = "cancel" /\ y.task = c
          /\ y.via = None
        BY <1>1, <1>6, <1>18, <1>19 DEF Callback, Callbacks
    <2>2. c \in 0..Len(U) /\ c # 0 /\ U[c].loop = l
        BY <1>1, <1>6, <1>7, <1>9, <1>11, <1>15
    <2> QED
        BY <2>1, <2>2 DEF CallbackFits
<1>21. PICK p : p = [q EXCEPT ![l] = Append(@, x)]
    OBVIOUS
<1>22. QueueFits(p, n, U, home)
    BY <1>1, <1>4, <1>17, <1>20, <1>21, QueueTakes
<1>23. PICK r : r = [p EXCEPT ![l] = Append(@, y)]
    OBVIOUS
<1>24. QueueFits(r, n, U, home)
    BY <1>1, <1>4, <1>20, <1>22, <1>23, QueueTakes
<1>25. queue' = p \/ queue' = r
    <2>1. PICK s : s = Tail(queue[l])
        OBVIOUS
    <2>2. /\ queue[l] \in Seq(Callbacks) /\ DOMAIN queue = 1..n
          /\ l \in DOMAIN queue
        BY <1>1, <1>4 DEF Kept, LoopsOK, QueueFits
    <2>3. s \in Seq(Callbacks)
        BY <1>5, <2>1, <2>2, OneLess
    <2>4. \/ queue' = [queue EXCEPT ![l] = s \o <<x>>]
          \/ queue' = [queue EXCEPT ![l] = s \o <<x, y>>]
        BY <1>2, <1>18, <1>19, <2>1 DEF Start
    <2>5. s \o <<x>> = Append(s, x)
        BY <1>20, <2>3
    <2>6. s \o <<x, y>> = Append(Append(s, x), y)
        BY <1>20, <2>3
    <2>7. p = [queue EXCEPT ![l] = Append(s, x)]
        BY <1>3, <1>21, <2>1, <2>2 DEF Rest
    <2>8. r = [queue EXCEPT ![l] = Append(Append(s, x), y)]
        BY <1>23, <2>2, <2>7
    <2> QED
        BY <2>4, <2>5, <2>6, <2>7, <2>8
<1>26. Fits(tasks', queue')
    <2>1. QueueFits(queue', n, tasks', home)
        BY <1>13, <1>22, <1>24, <1>25
    <2> QED
        BY <1>1, <1>4, <1>13, <1>15, <1>16, <2>1 DEF Fits
<1>27. UNCHANGED <<phase, home, open, fields, callVars>>
    BY DEF Start, sessionVars
<1> QED
    BY <1>26, <1>27, SameFields, LoopKeeps

LEMMA SkipStepKeeps ==
    ASSUME Kept, NEW l \in 1..Len(phase), SkipStep(l)
    PROVE  Kept'
<1>1. queue[l] # <<>> /\ queue' = Rest(l) /\ tasks' = tasks
    BY DEF SkipStep, Holds
<1>2. Fits(tasks', queue')
    BY <1>1, RestFits
<1>3. UNCHANGED <<phase, home, open, fields, callVars>>
    BY DEF SkipStep, sessionVars
<1> QED
    BY <1>2, <1>3, SameFields, LoopKeeps

LEMMA CancelKeeps ==
    ASSUME Kept, NEW l \in 1..Len(phase), Cancel(l)
    PROVE  Kept'
<1>1. PICK c : c = Head(queue[l]).task
    OBVIOUS
<1>2. queue[l] # <<>> /\ Head(queue[l]).do # "stop" /\ queue' = Rest(l)
    BY DEF Cancel, Holds
<1>3. c \in 1..Len(tasks) /\ QueueFits(Rest(l), Len(phase), tasks, home)
    BY <1>1, <1>2, HeadFits
<1>4. Fits(tasks', queue')
    <2>1. CASE tasks' = tasks
        BY <1>2, <2>1, RestFits
    <2>2. CASE Pending(c) /\ End(c, "cancelled")
        <3>1. "cancelled" \in Ended /\ tasks[c].stage \notin Handed
            BY <2>2 DEF Ended, Handed, Pending
        <3>2. PICK q : q = Rest(l)
            OBVIOUS
        <3>3. QueueFits(q, Len(phase), tasks, home) /\ queue' = q
            BY <1>2, <1>3, <3>2
        <3>4. Fits(tasks', q)
            BY <1>3, <2>2, <3>1, <3>3, EndFits
        <3> QED
            BY <3>3, <3>4
    <2> QED
        BY <1>1, <2>1, <2>2 DEF Cancel
<1>5. UNCHANGED <<phase, home, open, fields, callVars>>
    BY DEF Cancel, sessionVars
<1> QED
    BY <1>4, <1>5, SameFields, LoopKeeps

\* A forwarded request uses the session there is, at its loop or not.
LEMMA ForwardedRequestKeeps ==
    ASSUME Kept, NEW l \in 1..Len(phase), ForwardedRequest(l)
    PROVE  Kept'
<1>1. PICK c : c = Head(queue[l]).task
    OBVIOUS
<1>2. queue[l] # <<>> /\ Head(queue[l]).do = "request" /\ queue' = Rest(l)
    BY DEF ForwardedRequest, Holds
<1>3. /\ c \in 1..Len(tasks) /\ tasks[c] \in Tasks
      /\ TaskFits(tasks[c], Len(phase), home)
      /\ QueueFits(Rest(l), Len(phase), tasks, home)
      /\ CallbackFits(l, Head(queue[l]), tasks, home)
    BY <1>1, <1>2, HeadFits
<1>4. PICK q : q = Rest(l)
    OBVIOUS
<1>5. PICK t : t = tasks[c]
    OBVIOUS
<1>6. PICK s : s = session[t.handle]
    OBVIOUS
<1>7. ASSUME Pending(c)
      PROVE  Fits(tasks', queue')
    <2>1. t.stage \in Asking /\ t.loop # l
        <3>1. t.stage \notin Ended
            BY <1>5, <1>7 DEF Pending, Ended
        <3> QED
            BY <1>1, <1>2, <1>3, <1>5, <3>1 DEF CallbackFits
    <2>2. t.stage \notin Handed /\ t.stage \notin Ended
          /\ t.stage \notin {"ready", "closing"}
        BY <2>1 DEF Asking, Handed, Ended
    <2>3. PICK u : u = Sent(t, t.stage, l)
        OBVIOUS
    <2>4. Puts(tasks, c, u, tasks')
        BY <1>1, <1>5, <1>7, <2>3 DEF ForwardedRequest, Puts
    <2>5. CASE s \in open
        <3>1. s \in 1..Len(home) /\ s \in Nat /\ s # None
            BY <2>5, KeptShape DEF Kept, SessionsOK
        <3>2. u = [t EXCEPT !.stage = t.stage, !.at = l, !.sent = TRUE,
                            !.via = s]
            BY <1>6, <2>3, <2>5 DEF Sent
        <3>3. l \in Nat /\ t \in Tasks
            BY <1>3, <1>5, KeptShape
        <3>4. /\ u \in Tasks /\ u.loop = t.loop /\ u.stage = t.stage
              /\ u.at = l /\ u.sent /\ u.via = s
            BY <3>1, <3>2, <3>3 DEF Tasks
        <3>5. u \in Tasks /\ TaskFits(u, Len(phase), home)
            BY <1>3, <1>5, <2>1, <2>2, <3>1, <3>4 DEF TaskFits
        <3>6. Moves(tasks[c], u)
            BY <1>5, <2>2, <3>4 DEF Moves
        <3>7. QueueFits(q, Len(phase), tasks, home) /\ queue' = q
            BY <1>2, <1>3, <1>4
        <3>8. Fits(tasks', q)
            BY <1>3, <2>4, <3>5, <3>6, <3>7, TaskChanges
        <3> QED
            BY <3>7, <3>8
    <2>6. CASE s \notin open
        <3>1. End(c, "raised")
            BY <1>6, <2>3, <2>4, <2>6 DEF Sent, End, Puts
        <3>2. "raised" \in Ended /\ tasks[c].stage \notin Handed
            BY <1>5, <2>2 DEF Ended
        <3>3. QueueFits(q, Len(phase), tasks, home) /\ queue' = q
            BY <1>2, <1>3, <1>4
        <3>4. Fits(tasks', q)
            BY <1>3, <3>1, <3>2, <3>3, EndFits
        <3> QED
            BY <3>3, <3>4
    <2> QED
        BY <2>5, <2>6
<1>8. ASSUME ~Pending(c)
      PROVE  Fits(tasks', queue')
    <2>1. tasks' = tasks
        BY <1>1, <1>8 DEF ForwardedRequest
    <2> QED
        BY <1>2, <2>1, RestFits
<1>9. Fits(tasks', queue')
    BY <1>7, <1>8
<1>10. UNCHANGED <<phase, home, open, fields, callVars>>
    BY DEF ForwardedRequest, sessionVars
<1> QED
    BY <1>9, <1>10, SameFields, LoopKeeps

\* A session is closed at its home.
LEMMA ForwardedCloseKeeps ==
    ASSUME Kept, NEW l \in 1..Len(phase), ForwardedClose(l)
    PROVE  Kept'
<1>1. PICK c : c = Head(queue[l]).task
    OBVIOUS
<1>2. queue[l] # <<>> /\ Head(queue[l]).do = "close" /\ queue' = Rest(l)
    BY DEF ForwardedClose, Holds
<1>3. /\ c \in 1..Len(tasks) /\ tasks[c] \in Tasks
      /\ TaskFits(tasks[c], Len(phase), home)
      /\ QueueFits(Rest(l), Len(phase), tasks, home)
      /\ CallbackFits(l, Head(queue[l]), tasks, home)
    BY <1>1, <1>2, HeadFits
<1>4. PICK q : q = Rest(l)
    OBVIOUS
<1>5. PICK t : t = tasks[c]
    OBVIOUS
<1>6. ASSUME Pending(c)
      PROVE  Fits(tasks', queue')
    <2>1. t.stage = "closing"
        <3>1. t.stage \notin Ended
            BY <1>5, <1>6 DEF Pending, Ended
        <3> QED
            BY <1>1, <1>2, <1>3, <1>5, <3>1 DEF CallbackFits
    <2>2. PICK u : u = [t EXCEPT !.sent = TRUE]
        OBVIOUS
    <2>3. /\ u \in Tasks /\ u.loop = t.loop /\ u.stage = t.stage
          /\ u.at = t.at /\ u.sent /\ u.via = t.via
        BY <1>3, <1>5, <2>2 DEF Tasks
    <2>4. u \in Tasks /\ TaskFits(u, Len(phase), home)
        BY <1>3, <1>5, <2>1, <2>3 DEF TaskFits, Handed
    <2>5. Moves(tasks[c], u)
        BY <1>5, <2>1, <2>3 DEF Moves, Ended, Handed, Asking
    <2>6. Puts(tasks, c, u, tasks')
        BY <1>1, <1>5, <1>6, <2>2 DEF ForwardedClose, Puts
    <2>7. QueueFits(q, Len(phase), tasks, home) /\ queue' = q
        BY <1>2, <1>3, <1>4
    <2>8. Fits(tasks', q)
        BY <1>3, <2>4, <2>5, <2>6, <2>7, TaskChanges
    <2> QED
        BY <2>7, <2>8
<1>7. ASSUME ~Pending(c)
      PROVE  Fits(tasks', queue')
    <2>1. tasks' = tasks
        BY <1>1, <1>7 DEF ForwardedClose
    <2> QED
        BY <1>2, <2>1, RestFits
<1>8. Fits(tasks', queue')
    BY <1>6, <1>7
<1>9. UNCHANGED <<phase, home, fields, callVars>> /\ open' \subseteq open
    BY DEF ForwardedClose
<1> QED
    BY <1>8, <1>9, SameFields, LoopKeeps

\* A loop changes its phase.
LEMMA PhaseKeeps ==
    ASSUME Kept, NEW l \in 1..Len(phase), NEW p \in Phases,
           phase' = [phase EXCEPT ![l] = p], Fits(tasks', queue'),
           UNCHANGED <<sessionVars, fields, callVars>>
    PROVE  Kept'
<1>1. phase \in Seq(Phases) /\ Len(phase) \in Nat /\ home \in Seq(Nat)
    BY KeptShape
<1>2. phase' \in Seq(Phases) /\ Len(phase') = Len(phase)
    BY <1>1, OneChanged
<1>3. SessionsOK' /\ Extends(home, home')
    BY <1>1, <1>2, NothingNew DEF Kept, SessionsOK, sessionVars
<1>4. FieldsOK'
    BY <1>2 DEF Kept, FieldsOK, fields, sessionVars
<1>5. /\ call' \in [Callers -> CallRecords] /\ calls' \in Nat
      /\ mishaps' = mishaps /\ \A a \in Callers : call'[a] = call[a]
    BY DEF callVars, Kept, CallsOK
<1>6. home' = home /\ Len(phase) <= Len(phase')
    BY <1>1, <1>2 DEF sessionVars
<1>7. /\ tasks' \in Seq(Tasks) /\ Len(tasks) <= Len(tasks')
      /\ \A c \in 1..Len(tasks') : TaskFits(tasks'[c], Len(phase'), home')
      /\ QueueFits(queue', Len(phase'), tasks', home')
    BY <1>2, <1>6 DEF Fits
<1> QED
    BY <1>2, <1>3, <1>4, <1>5, <1>6, <1>7, KeptAfter

LEMMA DropFits ==
    ASSUME Kept, NEW l \in 1..Len(phase),
           queue' = [queue EXCEPT ![l] = <<>>], tasks' = tasks
    PROVE  Fits(tasks', queue')
<1>1. QueueFits(queue, Len(phase), tasks, home) /\ Len(phase) \in Nat
    BY KeptShape DEF Kept, LoopsOK
<1>2. QueueFits([queue EXCEPT ![l] = <<>>], Len(phase), tasks, home)
    BY <1>1, QueueDrops
<1> QED
    BY <1>2, KeptShape DEF Fits, Kept, TasksOK

LEMMA StopKeeps ==
    ASSUME Kept, NEW l \in 1..Len(phase), Stop(l) \/ CloseLoop(l)
    PROVE  Kept'
<1>1. /\ tasks' = tasks /\ UNCHANGED <<sessionVars, fields, callVars>>
    BY DEF Stop, CloseLoop
<1>2. CASE Shut(l)
    <2>1. PICK p \in Phases : p = "closed"
        BY DEF Phases
    <2>2. Fits(tasks', queue')
        BY <1>1, <1>2, DropFits DEF Shut
    <2>3. phase' = [phase EXCEPT ![l] = p]
        BY <1>2, <2>1 DEF Shut
    <2> QED
        BY <1>1, <2>2, <2>3, PhaseKeeps
<1>3. CASE /\ phase' = [phase EXCEPT ![l] = "stopping"]
           /\ queue[l] # <<>> /\ queue' = Rest(l)
    <2>1. PICK p \in Phases : p = "stopping"
        BY DEF Phases
    <2>2. Fits(tasks', queue')
        BY <1>1, <1>3, RestFits
    <2>3. phase' = [phase EXCEPT ![l] = p]
        BY <1>3, <2>1
    <2> QED
        BY <1>1, <2>2, <2>3, PhaseKeeps
<1> QED
    BY <1>2, <1>3 DEF Stop, CloseLoop, Holds

LEMMA DrainKeeps ==
    ASSUME Kept, NEW l \in 1..Len(phase), Drain(l)
    PROVE  Kept'
<1>1. /\ tasks \in Seq(Tasks) /\ home \in Seq(Nat) /\ Len(phase) \in Nat
      /\ Len(tasks) \in Nat /\ DOMAIN tasks = 1..Len(tasks)
    BY KeptShape
<1>2. PICK o : o = Over("cancelled")
    OBVIOUS
<1>3. /\ o \in Tasks /\ TaskFits(o, Len(phase), home)
      /\ o.stage \in Ended
    BY <1>2, OverFits DEF Ended, Over, Task
<1>4. PICK T : T = tasks'
    OBVIOUS
<1>5. /\ DOMAIN T = 1..Len(tasks)
      /\ T = [c \in 1..Len(tasks) |-> T[c]]
      /\ \A c \in 1..Len(tasks) : T[c] = tasks[c] \/ (Pending(c) /\ T[c] = o)
    BY <1>1, <1>2, <1>4 DEF Drain
<1>6. \A c \in 1..Len(tasks) : T[c] \in Tasks
    BY <1>1, <1>3, <1>5
<1>7. T \in Seq(Tasks) /\ Len(T) = Len(tasks)
    BY <1>1, <1>5, <1>6
<1>8. Advances(tasks, T)
    <2>1. ASSUME NEW c \in 1..Len(tasks), Pending(c), T[c] = o
          PROVE  Moves(tasks[c], T[c])
        BY <1>3, <2>1 DEF Moves, Pending, Handed
    <2>2. ASSUME NEW c \in 1..Len(tasks), T[c] = tasks[c]
          PROVE  Moves(tasks[c], T[c])
        BY <2>2 DEF Moves
    <2> QED
        BY <1>1, <1>5, <1>7, <2>1, <2>2 DEF Advances
<1>9. \A c \in 1..Len(T) : TaskFits(T[c], Len(phase), home)
    BY <1>3, <1>5, <1>7 DEF Kept, TasksOK
<1>10. QueueFits(queue, Len(phase), T, home)
    BY <1>1, <1>7, <1>8, NothingNew, QueueStays DEF Kept, LoopsOK
<1>11. queue' = queue /\ UNCHANGED <<sessionVars, fields, callVars>>
    BY DEF Drain
<1>12. Fits(tasks', queue')
    BY <1>1, <1>4, <1>7, <1>9, <1>10, <1>11 DEF Fits
<1>13. PICK p \in Phases : p = "draining"
    BY DEF Phases
<1>14. phase' = [phase EXCEPT ![l] = p]
    BY <1>13 DEF Drain
<1> QED
    BY <1>11, <1>12, <1>14, PhaseKeeps

LEMMA LoopStepKeeps ==
    ASSUME Kept, NEW l \in DOMAIN phase, LoopStep(l)
    PROVE  Kept'
<1>1. l \in 1..Len(phase)
    BY KeptShape
<1> QED
    BY <1>1, StartKeeps, StepKeeps, SkipStepKeeps, CancelKeeps,
       ForwardedRequestKeeps, ForwardedCloseKeeps, StopKeeps, DrainKeeps
       DEF LoopStep

-----------------------------------------------------------------------------
(* Answers from the network.                                               *)

LEMMA AnsweredTask ==
    ASSUME Kept, NEW c \in DOMAIN tasks, Answered(c)
    PROVE  /\ c \in 1..Len(tasks) /\ tasks[c].handle \in Handles
           /\ tasks[c].stage \notin Handed
           /\ QueueFits(queue, Len(phase), tasks, home)
<1>1. c \in 1..Len(tasks) /\ tasks \in Seq(Tasks)
    BY KeptShape
<1>2. tasks[c] \in Tasks
    BY <1>1
<1> QED
    BY <1>1, <1>2
       DEF Answered, Pending, Handed, Tasks, Kept, LoopsOK

LEMMA AuthenticateKeeps ==
    ASSUME Kept, NEW c \in DOMAIN tasks, Authenticate(c)
    PROVE  Kept'
<1>1. /\ c \in 1..Len(tasks) /\ tasks[c].handle \in Handles
      /\ QueueFits(queue, Len(phase), tasks, home)
    BY AnsweredTask DEF Authenticate
<1>2. PICK stage \in Asking : stage = "resource"
    BY DEF Asking
<1>3. Request(c, stage, queue)
    BY <1>2 DEF Authenticate
<1>4. tasks[c].stage \in Asking \cup {"ready"}
    BY DEF Authenticate, Asking
<1>5. PICK q : q = queue
    OBVIOUS
<1>6. Request(c, stage, q) /\ QueueFits(q, Len(phase), tasks, home)
    BY <1>1, <1>3, <1>5
<1>7. Fits(tasks', queue')
    BY <1>1, <1>4, <1>6, RequestFits
<1>8. FieldsOK'
    BY <1>1 DEF Authenticate, sessionVars, Kept, FieldsOK
<1>9. UNCHANGED <<phase, home, open, callVars>>
    BY DEF Authenticate, sessionVars
<1> QED
    BY <1>7, <1>8, <1>9, LoopKeeps

LEMMA EndKeeps ==
    ASSUME Kept, NEW c \in DOMAIN tasks, Answered(c),
           NEW how \in Ended, End(c, how), FieldsOK',
           UNCHANGED <<loopVars, sessionVars, callVars>>
    PROVE  Kept'
<1>1. /\ c \in 1..Len(tasks) /\ tasks[c].stage \notin Handed
      /\ QueueFits(queue, Len(phase), tasks, home)
    BY AnsweredTask
<1>2. PICK q : q = queue
    OBVIOUS
<1>3. Fits(tasks', q)
    BY <1>1, <1>2, EndFits
<1>4. UNCHANGED <<phase, queue, home, open, callVars>>
    BY DEF loopVars, sessionVars
<1> QED
    BY <1>2, <1>3, <1>4, LoopKeeps

LEMMA NetworkKeeps ==
    ASSUME Kept, NEW c \in DOMAIN tasks, Network(c)
    PROVE  Kept'
<1>1. "returned" \in Ended /\ "raised" \in Ended
    BY DEF Ended
<1>2. CASE FindResource(c)
    <2>1. FieldsOK'
        <3>1. tasks[c].handle \in Handles
            BY <1>2, AnsweredTask DEF FindResource
        <3> QED
            BY <1>2, <3>1
               DEF FindResource, loopVars, sessionVars, Kept, FieldsOK
    <2>2. /\ Answered(c) /\ End(c, "returned")
          /\ UNCHANGED <<loopVars, sessionVars, callVars>>
        BY <1>2 DEF FindResource
    <2> QED
        BY <1>1, <2>1, <2>2, EndKeeps
<1>3. CASE Serve(c) \/ Refuse(c)
    <2>1. /\ Answered(c)
          /\ End(c, "returned") \/ End(c, "raised")
          /\ UNCHANGED <<loopVars, sessionVars, fields, callVars>>
        BY <1>3 DEF Serve, Refuse
    <2>2. FieldsOK'
        BY <2>1, SameFields DEF loopVars, sessionVars
    <2> QED
        BY <1>1, <2>1, <2>2, EndKeeps
<1>4. CASE FinishClosing(c)
    <2>1. FieldsOK'
        <3>1. Client \in Handles
            BY DEF Handles
        <3> QED
            BY <1>4, <3>1
               DEF FinishClosing, loopVars, sessionVars, Kept, FieldsOK
    <2>2. /\ Answered(c) /\ End(c, "returned")
          /\ UNCHANGED <<loopVars, sessionVars, callVars>>
        BY <1>4 DEF FinishClosing
    <2> QED
        BY <1>1, <2>1, <2>2, EndKeeps
<1> QED
    BY <1>2, <1>3, <1>4, AuthenticateKeeps DEF Network

-----------------------------------------------------------------------------
(* Where the calls go.                                                     *)

\* The call of `a' becomes one that fits, with the coroutines `T'.
Goes(a, T) ==
    \E k \in CallRecords :
        /\ call' = [call EXCEPT ![a] = k]
        /\ CallFits(k, Len(phase), T)

LEMMA CallShape ==
    ASSUME Kept, NEW a \in Callers
    PROVE  /\ call[a] \in CallRecords /\ call[a].handle \in Handles
           /\ CallFits(call[a], Len(phase), tasks)
BY DEF Kept, CallsOK, CallRecords

LEMMA GoesKeeps ==
    ASSUME Kept, phase' = phase, home' = home, open' = open,
           FieldsOK', Fits(tasks', queue'),
           NEW a \in Callers, Goes(a, tasks'),
           calls' \in Nat, mishaps' = mishaps
    PROVE  Kept'
<1>1. PICK k \in CallRecords : /\ call' = [call EXCEPT ![a] = k]
                               /\ CallFits(k, Len(phase), tasks')
    BY DEF Goes
<1> QED
    BY <1>1, CallKeeps

LEMMA ReturnGoes ==
    ASSUME Kept, NEW a \in Callers, NEW T \in Seq(Tasks), Return(a)
    PROVE  Goes(a, T)
<1>1. PICK k : k = NoCall
    OBVIOUS
<1>2. k \in CallRecords /\ k.pc = "idle" /\ k.task = 0 /\ k.loop = None
    BY <1>1 DEF NoCall, CallRecords, Handles
<1>3. CallFits(k, Len(phase), T)
    BY <1>2 DEF CallFits
<1> QED
    BY <1>1, <1>2, <1>3 DEF Goes, Return

LEMMA GoToGoes ==
    ASSUME Kept, NEW a \in Callers,
           NEW T \in Seq(Tasks), Len(tasks) <= Len(T),
           NEW pc \in {"enter", "create", "submit", "read", "stop", "join"},
           pc \in {"stop", "join"} => call[a].loop # None, GoTo(a, pc)
    PROVE  Goes(a, T)
<1>1. PICK c : c = call[a]
    OBVIOUS
<1>2. c \in CallRecords /\ CallFits(c, Len(phase), T)
    <2>1. /\ Len(phase) \in Nat /\ tasks \in Seq(Tasks)
          /\ Len(phase) <= Len(phase)
        BY KeptShape
    <2>2. c \in CallRecords /\ CallFits(c, Len(phase), tasks)
        BY <1>1, CallShape
    <2> QED
        BY <2>1, <2>2, CallStays
<1>3. PICK k : k = [c EXCEPT !.pc = pc]
    OBVIOUS
<1>4. k \in CallRecords /\ k.pc = pc /\ k.task = c.task /\ k.loop = c.loop
    BY <1>2, <1>3 DEF CallRecords
<1>5. CallFits(k, Len(phase), T)
    BY <1>1, <1>2, <1>4 DEF CallFits
<1>6. call' = [call EXCEPT ![a] = k]
    BY <1>1, <1>3 DEF GoTo
<1> QED
    BY <1>4, <1>5, <1>6 DEF Goes

LEMMA FailGoes ==
    ASSUME Kept, NEW a \in Callers,
           NEW T \in Seq(Tasks), Len(tasks) <= Len(T), Fail(a)
    PROVE  Goes(a, T)
<1>1. PICK pc \in {"enter", "create", "submit", "read", "stop", "join"} :
          pc = "read"
    OBVIOUS
<1>2. CASE GoTo(a, "read")
    BY <1>1, <1>2, GoToGoes
<1>3. CASE Return(a)
    BY <1>3, ReturnGoes
<1> QED
    BY <1>2, <1>3 DEF Fail

LEMMA AfterCloseGoes ==
    ASSUME Kept, NEW a \in Callers, call[a].loop # None,
           NEW T \in Seq(Tasks), Len(tasks) <= Len(T), AfterClose(a)
    PROVE  Goes(a, T)
<1>1. PICK pc \in {"enter", "create", "submit", "read", "stop", "join"} :
          pc = "stop"
    OBVIOUS
<1>2. CASE GoTo(a, "stop")
    BY <1>1, <1>2, GoToGoes
<1>3. CASE Return(a)
    BY <1>3, ReturnGoes
<1> QED
    BY <1>2, <1>3 DEF AfterClose

\* A coroutine more, and the callback for its first turn.
LEMMA TaskAdded ==
    ASSUME Kept, NEW t \in Tasks, TaskFits(t, Len(phase), home),
           NEW x \in Callbacks, x.task = Len(tasks) + 1, x.via = None,
           \/ x.do = "start" /\ t.stage \in Handed
           \/ x.do = "step",
           NEW l, t.loop = l,
           Adds(tasks, t, tasks'),
           queue' = [queue EXCEPT ![l] = Append(@, x)]
    PROVE  Fits(tasks', queue') /\ Len(tasks') = Len(tasks) + 1
<1>1. /\ tasks \in Seq(Tasks) /\ Len(tasks) \in Nat /\ home \in Seq(Nat)
      /\ Len(phase) \in Nat
    BY KeptShape
<1>2. l \in 1..Len(phase)
    BY DEF TaskFits
<1>3. PICK T : T = tasks'
    OBVIOUS
<1>4. /\ T \in Seq(Tasks) /\ Len(T) = Len(tasks) + 1
      /\ T[Len(tasks) + 1] = t /\ Advances(tasks, T)
      /\ \A d \in 1..Len(tasks) : T[d] = tasks[d]
    BY <1>1, <1>3, OneMoreTask
<1>5. \A d \in 1..Len(T) : TaskFits(T[d], Len(phase), home)
    <2>1. \A d \in 1..Len(T) : d \in 1..Len(tasks) \/ d = Len(tasks) + 1
        BY <1>1, <1>4
    <2> QED
        BY <1>4, <2>1 DEF Kept, TasksOK
<1>6. QueueFits(queue, Len(phase), T, home)
    BY <1>1, <1>4, NothingNew, QueueStays DEF Kept, LoopsOK
<1>7. CallbackFits(l, x, T, home)
    BY <1>1, <1>4 DEF CallbackFits
<1>8. \A i \in 1..Len(queue[l]) : queue[l][i].task # x.task
    <2> SUFFICES ASSUME NEW i \in 1..Len(queue[l])
                 PROVE  queue[l][i].task # x.task
        OBVIOUS
    <2>1. CallbackFits(l, queue[l][i], tasks, home)
        BY <1>2 DEF Kept, LoopsOK, QueueFits
    <2>2. PICK d : d = queue[l][i].task
        OBVIOUS
    <2>3. d \in 0..Len(tasks)
        BY <2>1, <2>2 DEF CallbackFits
    <2> QED
        BY <1>1, <2>2, <2>3
<1>9. QueueFits([queue EXCEPT ![l] = Append(@, x)], Len(phase), T, home)
    BY <1>1, <1>2, <1>6, <1>7, <1>8, QueueTakes
<1> QED
    BY <1>1, <1>3, <1>4, <1>5, <1>9 DEF Fits

LEMMA HandOverGoes ==
    ASSUME Kept, NEW a \in Callers,
           NEW op \in {"connect", "request", "aclose"},
           NEW h \in Handles, NEW l \in 1..Len(phase),
           NEW pc \in {"wait", "closing"}, HandOver(a, op, h, l, pc)
    PROVE  Fits(tasks', queue') /\ Goes(a, tasks')
<1>1. /\ Len(tasks) \in Nat /\ None \notin Nat /\ Len(phase) \in Nat
      /\ l \in Nat /\ tasks \in Seq(Tasks)
    BY KeptShape
<1>2. PICK t : t = Task(op, h, l, "queued")
    OBVIOUS
<1>3. t \in Tasks /\ t.stage = "queued" /\ t.loop = l
      /\ TaskFits(t, Len(phase), home)
    BY <1>1, <1>2 DEF Task, Tasks, TaskFits, Handed, Ended
<1>4. PICK x : x = Callback("start", Len(tasks) + 1)
    OBVIOUS
<1>5. /\ x \in Callbacks /\ x.do = "start" /\ x.task = Len(tasks) + 1
      /\ x.via = None
    BY <1>1, <1>4 DEF Callback, Callbacks
<1>6. Fits(tasks', queue') /\ Len(tasks') = Len(tasks) + 1
    <2>1. Adds(tasks, t, tasks')
        BY <1>2 DEF HandOver, Adds
    <2>2. queue' = [queue EXCEPT ![l] = Append(@, x)]
        BY <1>4 DEF HandOver
    <2>3. t \in Tasks /\ x \in Callbacks /\ t.stage \in Handed
        BY <1>3, <1>5 DEF Handed
    <2> QED
        BY <1>3, <1>5, <2>1, <2>2, <2>3, TaskAdded
<1>7. Goes(a, tasks')
    <2>1. PICK c : c = call[a]
        OBVIOUS
    <2>2. c \in CallRecords
        BY <2>1, CallShape
    <2>3. PICK n \in Nat : n = Len(tasks) + 1
        BY <1>1
    <2>4. PICK k : k = [c EXCEPT !.pc = pc, !.task = n, !.loop = l]
        OBVIOUS
    <2>5. k \in CallRecords /\ k.pc = pc /\ k.task = n /\ k.loop = l
        BY <1>1, <2>2, <2>4 DEF CallRecords
    <2>6. CallFits(k, Len(phase), tasks')
        BY <1>1, <1>6, <2>3, <2>5 DEF CallFits
    <2>7. call' = [call EXCEPT ![a] = k]
        BY <2>1, <2>3, <2>4 DEF HandOver
    <2> QED
        BY <2>5, <2>6, <2>7 DEF Goes
<1> QED
    BY <1>6, <1>7

LEMMA SubmitKeeps ==
    ASSUME Kept, NEW a \in Callers, Submit(a)
    PROVE  Kept'
<1>1. PICK h : h = call[a].handle
    OBVIOUS
<1>2. PICK l : l = loopThread[h]
    OBVIOUS
<1>3. h \in Handles /\ l \in (2..Len(phase)) \cup {None}
    BY <1>1, <1>2, CallShape DEF Kept, FieldsOK
<1>4. Fits(tasks', queue') /\ Goes(a, tasks')
    <2>1. CASE Alive(l) /\ HandOver(a, Coroutine(call[a].op), h, l, "wait")
        <3>1. PICK op \in {"connect", "request", "aclose"} :
                  op = Coroutine(call[a].op)
            BY DEF Coroutine
        <3>2. PICK pc \in {"wait", "closing"} : pc = "wait"
            OBVIOUS
        <3>3. l \in 1..Len(phase)
            BY <1>3, <2>1, KeptShape DEF Alive
        <3> QED
            BY <1>3, <2>1, <3>1, <3>2, <3>3, HandOverGoes
    <2>2. CASE Fail(a) /\ UNCHANGED <<queue, tasks>>
        <3>1. tasks \in Seq(Tasks) /\ Len(tasks) <= Len(tasks)
            BY KeptShape
        <3>2. Goes(a, tasks)
            BY <2>2, <3>1, FailGoes
        <3> QED
            BY <2>2, <3>2, KeptShape
    <2> QED
        BY <1>1, <1>2, <2>1, <2>2 DEF Submit
<1>5. /\ UNCHANGED <<phase, home, open, fields>> /\ calls' \in Nat
      /\ mishaps' = mishaps
    BY DEF Submit, sessionVars, Kept, CallsOK
<1> QED
    BY <1>4, <1>5, SameFields, GoesKeeps

\* A step that changes its call and nothing else.
LEMMA OnlyCallKeeps ==
    ASSUME Kept, NEW a \in Callers, Goes(a, tasks),
           UNCHANGED <<loopVars, sessionVars, fields, tasks, mishaps>>,
           calls' \in Nat
    PROVE  Kept'
<1>1. UNCHANGED <<phase, queue, home, open, fields, tasks, mishaps>>
    BY DEF loopVars, sessionVars
<1>2. Fits(tasks', queue') /\ Goes(a, tasks') /\ FieldsOK'
    BY <1>1, KeptShape, SameFields
<1> QED
    BY <1>1, <1>2, GoesKeeps

LEMMA CallKeepsIt ==
    ASSUME Kept, NEW a \in Callers, NEW h \in Handles,
           NEW op \in {"connect", "request", "bind", "close"}, Call(a, op, h)
    PROVE  Kept'
<1>1. PICK pc \in {"read", "enter"} :
          pc = IF op = "close" THEN "read" ELSE "enter"
    OBVIOUS
<1>2. PICK k : k = [pc |-> pc, op |-> op, handle |-> h, task |-> 0,
                    loop |-> None]
    OBVIOUS
<1>3. k \in CallRecords /\ k.pc = pc /\ k.task = 0 /\ k.loop = None
    BY <1>2 DEF CallRecords
<1>4. CallFits(k, Len(phase), tasks)
    BY <1>3 DEF CallFits
<1>5. Goes(a, tasks)
    BY <1>1, <1>2, <1>3, <1>4 DEF Goes, Call, Called
<1>6. /\ UNCHANGED <<loopVars, sessionVars, fields, tasks, mishaps>>
      /\ calls' \in Nat
    BY DEF Call, Called, Kept, CallsOK
<1> QED
    BY <1>5, <1>6, OnlyCallKeeps

LEMMA EnterKeeps ==
    ASSUME Kept, NEW a \in Callers, Enter(a)
    PROVE  Kept'
<1>1. tasks \in Seq(Tasks) /\ Len(tasks) <= Len(tasks)
    BY KeptShape
<1>2. Goes(a, tasks)
    <2>1. CASE \E pc \in {"submit", "create"} : GoTo(a, pc)
        <3>1. PICK pc \in {"enter", "create", "submit", "read", "stop",
                           "join"} :
                  pc \notin {"stop", "join"} /\ GoTo(a, pc)
            BY <2>1
        <3> QED
            BY <1>1, <3>1, GoToGoes
    <2>2. CASE Fail(a)
        BY <1>1, <2>2, FailGoes
    <2> QED
        BY <2>1, <2>2 DEF Enter
<1>3. /\ UNCHANGED <<loopVars, sessionVars, fields, tasks, mishaps>>
      /\ calls' \in Nat
    BY DEF Enter, Kept, CallsOK
<1> QED
    BY <1>2, <1>3, OnlyCallKeeps

LEMMA CreateLoopKeeps ==
    ASSUME Kept, NEW a \in Callers, CreateLoop(a)
    PROVE  Kept'
<1>1. /\ phase \in Seq(Phases) /\ Len(phase) \in Nat /\ None \notin Nat
      /\ tasks \in Seq(Tasks) /\ Len(tasks) \in Nat /\ home \in Seq(Nat)
      /\ 1 \in 1..Len(phase)
    BY KeptShape DEF App
<1>2. PICK n \in Nat : n = Len(phase) + 1
    BY <1>1
<1>3. phase' \in Seq(Phases) /\ Len(phase') = n /\ Len(phase) <= n
    BY <1>1, <1>2, OneMore DEF CreateLoop, Phases
<1>4. UNCHANGED <<home, open, authenticated, session, resource, live, tasks,
                  calls, mishaps>>
    BY DEF CreateLoop, sessionVars
<1>5. SessionsOK' /\ Extends(home, home')
    BY <1>1, <1>2, <1>3, <1>4, NothingNew DEF Kept, SessionsOK
<1>6. FieldsOK'
    <2>1. loopThread' \in [Handles -> (2..n) \cup {None}]
        <3>1. loopThread' = [loopThread EXCEPT ![Client] = n]
            BY <1>2 DEF CreateLoop
        <3>2. loopThread \in [Handles -> (2..Len(phase)) \cup {None}]
            BY DEF Kept, FieldsOK
        <3>3. (2..Len(phase)) \cup {None} \subseteq (2..n) \cup {None}
              /\ n \in 2..n
            BY <1>1, <1>2
        <3> QED
            BY <3>1, <3>2, <3>3
    <2> QED
        BY <1>3, <1>4, <2>1 DEF Kept, FieldsOK
<1>7. \A c \in 1..Len(tasks) : TaskFits(tasks[c], n, home)
    <2> SUFFICES ASSUME NEW c \in 1..Len(tasks)
                 PROVE  TaskFits(tasks[c], n, home)
        OBVIOUS
    <2>1. /\ tasks[c] \in Tasks /\ TaskFits(tasks[c], Len(phase), home)
          /\ Extends(home, home)
        BY <1>1, NothingNew DEF Kept, TasksOK
    <2> QED
        BY <1>1, <1>3, <2>1, TaskStays
<1>8. QueueFits(queue', n, tasks, home)
    <2>1. QueueFits(queue, Len(phase), tasks, home)
        BY DEF Kept, LoopsOK
    <2>2. QueueFits(Append(queue, <<>>), Len(phase) + 1, tasks, home)
        BY <1>1, <2>1, QueueAdds
    <2> QED
        BY <1>2, <2>2 DEF CreateLoop
<1>9. call' \in [Callers -> CallRecords]
      /\ \A b \in Callers :
          call'[b] = call[b] \/ CallFits(call'[b], n, tasks)
    <2>1. PICK c : c = call[a]
        OBVIOUS
    <2>2. c \in CallRecords /\ CallFits(c, n, tasks)
        <3>1. c \in CallRecords /\ CallFits(c, Len(phase), tasks)
              /\ Len(tasks) <= Len(tasks)
            BY <1>1, <2>1, CallShape
        <3> QED
            BY <1>1, <1>3, <3>1, CallStays
    <2>3. PICK k : k = [c EXCEPT !.pc = "submit"]
        OBVIOUS
    <2>4. k \in CallRecords /\ k.pc = "submit" /\ k.task = c.task
          /\ k.loop = c.loop
        BY <2>2, <2>3 DEF CallRecords
    <2>5. CallFits(k, n, tasks)
        BY <2>2, <2>4 DEF CallFits
    <2>6. call' = [call EXCEPT ![a] = k]
        BY <2>1, <2>3 DEF CreateLoop, GoTo
    <2>7. call \in [Callers -> CallRecords]
        BY DEF Kept, CallsOK
    <2> QED
        BY <2>4, <2>5, <2>6, <2>7
<1>10. calls' \in Nat /\ mishaps' = mishaps
       /\ tasks' \in Seq(Tasks) /\ Len(tasks) <= Len(tasks')
    BY <1>1, <1>4 DEF Kept, CallsOK
<1> QED
    BY <1>3, <1>4, <1>5, <1>6, <1>7, <1>8, <1>9, <1>10, KeptAfter

LEMMA FinishKeeps ==
    ASSUME Kept, NEW a \in Callers, Finish(a)
    PROVE  Kept'
<1>1. tasks \in Seq(Tasks) /\ Len(tasks) <= Len(tasks)
    BY KeptShape
<1>2. Goes(a, tasks)
    BY <1>1, ReturnGoes, FailGoes DEF Finish
<1>3. /\ UNCHANGED <<phase, queue, home, open, tasks, mishaps>>
      /\ calls' \in Nat
    BY DEF Finish, loopVars, sessionVars, Kept, CallsOK
<1>4. FieldsOK'
    <2>1. CASE UNCHANGED fields
        BY <1>3, <2>1, SameFields
    <2>2. CASE \E v \in Views \ live : Copy(call[a].handle, v)
        <3>1. PICK v \in Views : Copy(call[a].handle, v)
            BY <2>2
        <3>2. call[a].handle \in Handles /\ v \in Handles
            BY CallShape DEF Handles
        <3> QED
            BY <1>3, <3>1, <3>2 DEF Copy, Kept, FieldsOK
    <2> QED
        BY <2>1, <2>2 DEF Finish
<1>5. Fits(tasks', queue') /\ Goes(a, tasks')
    BY <1>2, <1>3, KeptShape
<1> QED
    BY <1>3, <1>4, <1>5, GoesKeeps

\* The caller that waits for coroutine `c' gives it up.
LEMMA GiveUpFits ==
    ASSUME Kept, NEW c \in 1..Len(tasks), GiveUp(c)
    PROVE  Fits(tasks', queue') /\ Len(tasks) <= Len(tasks')
<1>1. /\ tasks[c] \in Tasks /\ TaskFits(tasks[c], Len(phase), home)
      /\ Len(tasks) \in Nat /\ Len(phase) \in Nat
      /\ QueueFits(queue, Len(phase), tasks, home)
    BY KeptShape DEF Kept, TasksOK, LoopsOK
<1>2. PICK t : t = tasks[c]
    OBVIOUS
<1>3. CASE /\ tasks[c].stage = "queued"
           /\ tasks' = [tasks EXCEPT ![c].stage = "dropped"]
           /\ UNCHANGED queue
    <2>1. PICK u : u = [t EXCEPT !.stage = "dropped"]
        OBVIOUS
    <2>2. /\ u \in Tasks /\ u.stage = "dropped" /\ u.loop = t.loop
          /\ u.at = t.at /\ u.sent = t.sent /\ u.via = t.via
        BY <1>1, <1>2, <2>1 DEF Tasks, Handed
    <2>3. TaskFits(u, Len(phase), home)
        BY <1>1, <1>2, <1>3, <2>2 DEF TaskFits, Handed
    <2>4. Moves(t, u)
        BY <1>2, <1>3, <2>2 DEF Moves, Handed, Asking, Ended
    <2>5. Puts(tasks, c, u, tasks') /\ Moves(tasks[c], u)
        BY <1>2, <1>3, <2>1, <2>4 DEF Puts
    <2>6. PICK q : q = queue
        OBVIOUS
    <2>7. Fits(tasks', q) /\ Len(tasks') = Len(tasks)
        BY <1>1, <2>2, <2>3, <2>5, <2>6, TaskChanges
    <2> QED
        BY <1>1, <1>3, <2>6, <2>7
<1>4. CASE tasks' = tasks /\ queue' = queue
    BY <1>1, <1>4, KeptShape
<1>5. CASE /\ queue' = [queue EXCEPT ![tasks[c].loop] =
                            Append(@, Callback("cancel", c))]
           /\ tasks' = tasks
    <2>1. PICK l : l = tasks[c].loop
        OBVIOUS
    <2>2. PICK x : x = Callback("cancel", c)
        OBVIOUS
    <2>3. l \in 1..Len(phase)
        BY <1>1, <2>1 DEF TaskFits
    <2>4. x \in Callbacks /\ x.do = "cancel" /\ x.task = c /\ x.via = None
        BY <1>1, <2>2 DEF Callback, Callbacks
    <2>5. CallbackFits(l, x, tasks, home)
        BY <1>1, <2>4 DEF CallbackFits
    <2>6. QueueFits([queue EXCEPT ![l] = Append(@, x)], Len(phase), tasks,
                    home)
        BY <1>1, <2>3, <2>4, <2>5, QueueTakes
    <2>7. QueueFits(queue', Len(phase), tasks, home)
        BY <1>5, <2>1, <2>2, <2>6
    <2> QED
        BY <1>1, <1>5, <2>7, KeptShape DEF Fits
<1> QED
    BY <1>3, <1>4, <1>5 DEF GiveUp

LEMMA InterruptKeeps ==
    ASSUME Kept, NEW a \in Callers, Interrupt(a) \/ InterruptClose(a)
    PROVE  Kept'
<1>1. CallFits(call[a], Len(phase), tasks)
    BY CallShape
<1>2. PICK c : c = call[a].task
    OBVIOUS
<1>3. c \in 1..Len(tasks)
    <2>1. c \in 0..Len(tasks) /\ c # 0
        BY <1>1, <1>2 DEF CallFits, Interrupt, InterruptClose, At
    <2> QED
        BY <2>1, KeptShape
<1>4. Fits(tasks', queue') /\ Len(tasks) <= Len(tasks')
    BY <1>2, <1>3, GiveUpFits DEF Interrupt, InterruptClose
<1>5. tasks' \in Seq(Tasks)
    BY <1>4 DEF Fits
<1>6. Goes(a, tasks')
    <2>1. PICK T : T = tasks'
        OBVIOUS
    <2>2. T \in Seq(Tasks) /\ Len(tasks) <= Len(T)
        BY <1>4, <1>5, <2>1
    <2>3. CASE Interrupt(a)
        BY <2>1, <2>2, <2>3, FailGoes DEF Interrupt
    <2>4. CASE InterruptClose(a)
        <3>1. call[a].loop # None
            BY <1>1, <2>4 DEF CallFits, InterruptClose, At
        <3> QED
            BY <2>1, <2>2, <2>4, <3>1, AfterCloseGoes DEF InterruptClose
    <2> QED
        BY <2>3, <2>4
<1>7. /\ UNCHANGED <<phase, home, open, fields, mishaps>> /\ calls' \in Nat
    BY DEF Interrupt, InterruptClose, sessionVars, Kept, CallsOK
<1> QED
    BY <1>4, <1>6, <1>7, SameFields, GoesKeeps

LEMMA ReadLoopKeeps ==
    ASSUME Kept, NEW a \in Callers, ReadLoop(a)
    PROVE  Kept'
<1>1. tasks \in Seq(Tasks) /\ Len(phase) \in Nat
    BY KeptShape
<1>2. PICK c : c = call[a]
    OBVIOUS
<1>3. PICK l : l = loopThread[c.handle]
    OBVIOUS
<1>4. /\ c \in CallRecords /\ CallFits(c, Len(phase), tasks)
      /\ l \in (2..Len(phase)) \cup {None}
    BY <1>2, <1>3, CallShape DEF Kept, FieldsOK
<1>5. Goes(a, tasks)
    <2>1. CASE Return(a)
        BY <1>1, <2>1, ReturnGoes
    <2>2. CASE /\ l # None
               /\ call' = [call EXCEPT ![a].pc = "close", ![a].loop = l]
        <3>1. PICK k : k = [c EXCEPT !.pc = "close", !.loop = l]
            OBVIOUS
        <3>2. l \in 1..Len(phase) /\ l \in Nat
            BY <1>1, <1>4, <2>2
        <3>3. /\ k \in CallRecords /\ k.pc = "close" /\ k.task = c.task
              /\ k.loop = l
            BY <1>4, <3>1, <3>2 DEF CallRecords
        <3>4. CallFits(k, Len(phase), tasks)
            BY <1>4, <2>2, <3>2, <3>3 DEF CallFits
        <3>5. call' = [call EXCEPT ![a] = k]
            BY <1>2, <2>2, <3>1
        <3> QED
            BY <3>3, <3>4, <3>5 DEF Goes
    <2> QED
        BY <1>2, <1>3, <2>1, <2>2 DEF ReadLoop
<1>6. /\ UNCHANGED <<loopVars, sessionVars, fields, tasks, mishaps>>
      /\ calls' \in Nat
    BY DEF ReadLoop, Kept, CallsOK
<1> QED
    BY <1>5, <1>6, OnlyCallKeeps

LEMMA SubmitCloseKeeps ==
    ASSUME Kept, NEW a \in Callers, SubmitClose(a)
    PROVE  Kept'
<1>1. PICK h : h = call[a].handle
    OBVIOUS
<1>2. PICK l : l = call[a].loop
    OBVIOUS
<1>3. h \in Handles /\ l \in 1..Len(phase) /\ call[a].loop # None
    <2>1. CallFits(call[a], Len(phase), tasks) /\ call[a].handle \in Handles
        BY CallShape
    <2> QED
        BY <1>1, <1>2, <2>1 DEF CallFits, SubmitClose, At
<1>4. Fits(tasks', queue') /\ Goes(a, tasks')
    <2>1. CASE HandOver(a, "aclose", h, l, "closing")
        <3>1. PICK op \in {"connect", "request", "aclose"} : op = "aclose"
            OBVIOUS
        <3>2. PICK pc \in {"wait", "closing"} : pc = "closing"
            OBVIOUS
        <3> QED
            BY <1>3, <2>1, <3>1, <3>2, HandOverGoes
    <2>2. CASE AfterClose(a) /\ UNCHANGED <<queue, tasks>>
        <3>1. tasks \in Seq(Tasks) /\ Len(tasks) <= Len(tasks)
            BY KeptShape
        <3>2. Goes(a, tasks)
            BY <1>3, <2>2, <3>1, AfterCloseGoes
        <3> QED
            BY <2>2, <3>2, KeptShape
    <2> QED
        BY <1>1, <1>2, <2>1, <2>2 DEF SubmitClose
<1>5. /\ loopThread' = [loopThread EXCEPT ![h] = None]
      /\ UNCHANGED <<phase, home, open, authenticated, session, resource,
                     live, mishaps>>
      /\ calls' \in Nat
    BY <1>1 DEF SubmitClose, sessionVars, Kept, CallsOK
<1>6. FieldsOK'
    BY <1>3, <1>5 DEF Kept, FieldsOK
<1> QED
    BY <1>4, <1>5, <1>6, GoesKeeps

LEMMA FinishCloseKeeps ==
    ASSUME Kept, NEW a \in Callers, FinishClose(a) \/ Join(a)
    PROVE  Kept'
<1>1. tasks \in Seq(Tasks) /\ Len(tasks) <= Len(tasks)
    BY KeptShape
<1>2. Goes(a, tasks)
    <2>1. CASE FinishClose(a)
        <3>1. call[a].loop # None
            BY <2>1, CallShape DEF CallFits, FinishClose, At
        <3> QED
            BY <1>1, <2>1, <3>1, AfterCloseGoes DEF FinishClose
    <2>2. CASE Join(a)
        BY <1>1, <2>2, ReturnGoes DEF Join
    <2> QED
        BY <2>1, <2>2
<1>3. /\ UNCHANGED <<loopVars, sessionVars, fields, tasks, mishaps>>
      /\ calls' \in Nat
    BY DEF FinishClose, Join, Kept, CallsOK
<1> QED
    BY <1>2, <1>3, OnlyCallKeeps

LEMMA StopLoopKeeps ==
    ASSUME Kept, NEW a \in Callers, StopLoop(a)
    PROVE  Kept'
<1>1. /\ tasks \in Seq(Tasks) /\ Len(tasks) <= Len(tasks)
      /\ Len(tasks) \in Nat /\ Len(phase) \in Nat
      /\ QueueFits(queue, Len(phase), tasks, home)
    BY KeptShape DEF Kept, LoopsOK
<1>2. PICK l : l = call[a].loop
    OBVIOUS
<1>3. l \in 1..Len(phase) /\ call[a].loop # None
    <2>1. CallFits(call[a], Len(phase), tasks)
        BY CallShape
    <2> QED
        BY <1>2, <2>1 DEF CallFits, StopLoop, At
<1>4. PICK x : x = Callback("stop", 0)
    OBVIOUS
<1>5. x \in Callbacks /\ x.do = "stop" /\ x.task = 0 /\ x.via = None
    BY <1>1, <1>4 DEF Callback, Callbacks
<1>6. CallbackFits(l, x, tasks, home)
    BY <1>1, <1>5 DEF CallbackFits
<1>7. QueueFits([queue EXCEPT ![l] = Append(@, x)], Len(phase), tasks, home)
    BY <1>1, <1>3, <1>5, <1>6, QueueTakes
<1>8. QueueFits(queue', Len(phase), tasks, home)
    BY <1>1, <1>2, <1>4, <1>7 DEF StopLoop
<1>9. /\ UNCHANGED <<phase, home, open, fields, tasks, mishaps>>
      /\ calls' \in Nat
    BY DEF StopLoop, sessionVars, Kept, CallsOK
<1>10. Goes(a, tasks)
    <2>1. PICK pc \in {"enter", "create", "submit", "read", "stop", "join"} :
              pc = "join"
        OBVIOUS
    <2>2. GoTo(a, pc)
        BY <2>1 DEF StopLoop
    <2> QED
        BY <1>1, <1>3, <2>1, <2>2, GoToGoes
<1>11. Fits(tasks', queue') /\ Goes(a, tasks')
    BY <1>1, <1>8, <1>9, <1>10, KeptShape DEF Fits
<1> QED
    BY <1>9, <1>11, SameFields, GoesKeeps

\* A coroutine of a cell.
LEMMA BeginFits ==
    ASSUME Kept, NEW a, NEW op \in {"connect", "request", "aclose"},
           NEW h \in Handles, Begin(a, op, h)
    PROVE  Fits(tasks', queue') /\ Len(tasks') = Len(tasks) + 1
<1>1. /\ Len(tasks) \in Nat /\ Len(phase) \in Nat
      /\ App \in 1..Len(phase) /\ App \in Nat
    BY KeptShape DEF App
<1>2. PICK t : t = Task(op, h, App, "ready")
    OBVIOUS
<1>3. PICK l : l = App
    OBVIOUS
<1>4. t \in Tasks /\ t.loop = l /\ TaskFits(t, Len(phase), home)
    BY <1>1, <1>2, <1>3 DEF Task, Tasks, TaskFits, Handed, Ended
<1>5. PICK x : x = Callback("step", Len(tasks) + 1)
    OBVIOUS
<1>6. /\ x \in Callbacks /\ x.do = "step" /\ x.task = Len(tasks) + 1
      /\ x.via = None
    BY <1>1, <1>5 DEF Callback, Callbacks
<1>7. Adds(tasks, t, tasks')
    BY <1>2 DEF Begin, Adds
<1>8. queue' = [queue EXCEPT ![l] = Append(@, x)]
    BY <1>3, <1>5 DEF Begin
<1> QED
    BY <1>4, <1>6, <1>7, <1>8, TaskAdded

LEMMA AwaitKeeps ==
    ASSUME Kept, NEW a \in Callers, NEW h \in Handles,
           NEW op \in {"connect", "request", "aclose"}, Await(a, op, h)
    PROVE  Kept'
<1>1. Fits(tasks', queue') /\ Len(tasks') = Len(tasks) + 1
    BY BeginFits DEF Await
<1>2. Len(tasks) \in Nat /\ Len(phase) \in Nat /\ App \in 1..Len(phase)
    BY KeptShape
<1>3. PICK n \in Nat : n = Len(tasks) + 1
    BY <1>2
<1>4. PICK k : k = [pc |-> "await", op |-> op, handle |-> h, task |-> n,
                    loop |-> App]
    OBVIOUS
<1>5. k \in CallRecords /\ k.pc = "await" /\ k.task = n /\ k.loop = App
    BY <1>4 DEF CallRecords, App
<1>6. CallFits(k, Len(phase), tasks')
    BY <1>1, <1>2, <1>3, <1>5 DEF CallFits
<1>7. call' = [call EXCEPT ![a] = k]
    BY <1>3, <1>4 DEF Await
<1>8. /\ UNCHANGED <<phase, home, open, fields, mishaps>> /\ calls' \in Nat
    BY DEF Await, sessionVars, Kept, CallsOK
<1> QED
    BY <1>1, <1>5, <1>6, <1>7, <1>8, SameFields, CallKeeps

LEMMA ResumeKeeps ==
    ASSUME Kept, NEW a \in Callers, Resume(a)
    PROVE  Kept'
<1>1. /\ tasks \in Seq(Tasks) /\ Len(tasks) \in Nat /\ Len(phase) \in Nat
    BY KeptShape
<1>2. /\ UNCHANGED <<phase, home, open, fields, mishaps>> /\ calls' \in Nat
    BY DEF Resume, sessionVars, Kept, CallsOK
<1>3. Fits(tasks', queue') /\ Goes(a, tasks')
    <2>1. CASE Return(a) /\ UNCHANGED <<queue, tasks>>
        <3>1. Goes(a, tasks)
            BY <1>1, <2>1, ReturnGoes
        <3> QED
            BY <2>1, <3>1, KeptShape
    <2>2. CASE /\ Begin(a, "aclose", call[a].handle)
               /\ call' = [call EXCEPT ![a].pc = "unwind",
                                       ![a].task = Len(tasks) + 1]
        <3>1. PICK op \in {"connect", "request", "aclose"} : op = "aclose"
            OBVIOUS
        <3>2. PICK c : c = call[a]
            OBVIOUS
        <3>3. PICK h \in Handles : h = c.handle
            BY <3>2, CallShape
        <3>4. Begin(a, op, h)
            BY <2>2, <3>1, <3>2, <3>3
        <3>5. Fits(tasks', queue') /\ Len(tasks') = Len(tasks) + 1
            BY <3>4, BeginFits
        <3>6. PICK n \in Nat : n = Len(tasks) + 1
            BY <1>1
        <3>7. PICK k : k = [c EXCEPT !.pc = "unwind", !.task = n]
            OBVIOUS
        <3>8. c \in CallRecords /\ CallFits(c, Len(phase), tasks)
            BY <3>2, CallShape
        <3>9. /\ k \in CallRecords /\ k.pc = "unwind" /\ k.task = n
              /\ k.loop = c.loop
            BY <3>7, <3>8 DEF CallRecords
        <3>10. CallFits(k, Len(phase), tasks')
            BY <1>1, <3>5, <3>6, <3>8, <3>9 DEF CallFits
        <3>11. call' = [call EXCEPT ![a] = k]
            BY <2>2, <3>2, <3>6, <3>7
        <3> QED
            BY <3>5, <3>9, <3>10, <3>11 DEF Goes
    <2> QED
        BY <2>1, <2>2 DEF Resume
<1> QED
    BY <1>2, <1>3, SameFields, GoesKeeps

LEMMA CancelCellKeeps ==
    ASSUME Kept, NEW a \in Callers, CancelCell(a)
    PROVE  Kept'
<1>1. PICK c : c = call[a].task
    OBVIOUS
<1>2. c \in 1..Len(tasks)
    <2>1. CallFits(call[a], Len(phase), tasks)
        BY CallShape
    <2>2. c \in 0..Len(tasks) /\ c # 0
        BY <1>1, <2>1 DEF CallFits, CancelCell, At
    <2> QED
        BY <2>2, KeptShape
<1>3. PICK how \in Ended : how = "cancelled"
    BY DEF Ended
<1>4. End(c, how) /\ tasks[c].stage \notin Handed
    BY <1>1, <1>3 DEF CancelCell, Pending, Handed
<1>5. PICK q : q = queue
    OBVIOUS
<1>6. QueueFits(q, Len(phase), tasks, home)
    BY <1>5 DEF Kept, LoopsOK
<1>7. Fits(tasks', q)
    BY <1>2, <1>4, <1>6, EndFits
<1>8. UNCHANGED <<phase, queue, home, open, fields, callVars>>
    BY DEF CancelCell, loopVars, sessionVars
<1> QED
    BY <1>5, <1>7, <1>8, SameFields, LoopKeeps

-----------------------------------------------------------------------------
(* The invariant holds in every behaviour.                                 *)

LEMMA InitKept ==
    ASSUME Init
    PROVE  Kept
<1>1. phase \in Seq(Phases) /\ Len(phase) = 1
    BY DEF Init, Phases
<1>2. home \in Seq(Nat) /\ Len(home) = 0 /\ tasks \in Seq(Tasks)
      /\ Len(tasks) = 0 /\ open = {} /\ live = {} /\ calls = 0
    BY DEF Init
<1>3. QueueFits(queue, 1, tasks, home)
    <2>1. PICK s : s = <<>>
        OBVIOUS
    <2>2. s \in Seq(Callbacks) /\ Len(s) = 0
        BY <2>1
    <2>3. queue \in Seq(Seq(Callbacks)) /\ Len(queue) = 1 /\ queue[1] = s
        BY <2>1, <2>2 DEF Init
    <2>4. \A l \in 1..1 : queue[l] = s /\ 1..Len(s) = {}
        BY <2>2, <2>3
    <2> QED
        BY <2>3, <2>4 DEF QueueFits, StartsOnce
<1>4. FieldsOK
    BY DEF Init, FieldsOK
<1>5. CallsOK
    <2>1. PICK k : k = NoCall
        OBVIOUS
    <2>2. /\ k \in CallRecords /\ k.pc = "idle" /\ k.task = 0
          /\ k.loop = None
        BY <2>1 DEF NoCall, CallRecords, Handles
    <2>3. CallFits(k, Len(phase), tasks)
        BY <1>2, <2>2 DEF CallFits
    <2>4. mishaps \in SUBSET Mishaps /\ calls \in Nat
        BY SessionAssumption DEF Init
    <2>5. call = [a \in Callers |-> k]
        BY <2>1 DEF Init
    <2> QED
        BY <2>2, <2>3, <2>4, <2>5 DEF CallsOK
<1> QED
    BY <1>1, <1>2, <1>3, <1>4, <1>5
       DEF Kept, LoopsOK, SessionsOK, TasksOK

LEMMA ProceedKeeps ==
    ASSUME Kept, NEW a \in Callers, Proceed(a)
    PROVE  Kept'
BY EnterKeeps, CreateLoopKeeps, SubmitKeeps, FinishKeeps, ReadLoopKeeps,
   SubmitCloseKeeps, FinishCloseKeeps, StopLoopKeeps, ResumeKeeps
   DEF Proceed

LEMMA UserStepKeeps ==
    ASSUME Kept, NEW a \in Callers, UserStep(a)
    PROVE  Kept'
BY CallKeepsIt, InterruptKeeps DEF UserStep

LEMMA CellStepKeeps ==
    ASSUME Kept, NEW a \in Cells, CellStep(a)
    PROVE  Kept'
<1>1. a \in Callers
    BY DEF Callers
<1> QED
    BY <1>1, AwaitKeeps, CancelCellKeeps DEF CellStep

LEMMA NextKeeps ==
    ASSUME Kept, [Next]_vars
    PROVE  Kept'
<1>1. CASE UNCHANGED vars
    BY <1>1
       DEF vars, Kept, LoopsOK, SessionsOK, FieldsOK, TasksOK, CallsOK
<1>2. CASE \E a \in Callers : Proceed(a) \/ UserStep(a)
    BY <1>2, ProceedKeeps, UserStepKeeps
<1>3. CASE \E a \in Cells : CellStep(a)
    BY <1>3, CellStepKeeps
<1>4. CASE \E l \in DOMAIN phase : LoopStep(l)
    BY <1>4, LoopStepKeeps
<1>5. CASE \E c \in DOMAIN tasks : Network(c)
    BY <1>5, NetworkKeeps
<1> QED
    BY <1>1, <1>2, <1>3, <1>4, <1>5 DEF Next

\* Whoever calls, and whatever fails, is interrupted or cancelled: a callback
\* finds the coroutine it is about at the stage and on the loop it was
\* scheduled for (qclient.py, _on_session_loop and aclose; asyncio's
\* run_coroutine_threadsafe).
THEOREM KeptAlways == Spec => []Kept
<1>1. Init => Kept
    BY InitKept
<1>2. Kept /\ [Next]_vars => Kept'
    BY NextKeeps
<1> QED
    BY <1>1, <1>2, PTL DEF Spec

-----------------------------------------------------------------------------
(* What follows from it.                                                   *)

\* The fields refer to loops and sessions that exist, and so do callbacks and
\* calls to coroutines, for any number of callers, views and calls.
THEOREM SessionIsTyped == Spec => []SessionTypeOK
<1>1. ASSUME Kept
      PROVE  SessionTypeOK
    <2>1. /\ Len(phase) \in Nat /\ Len(home) \in Nat /\ Len(tasks) \in Nat
          /\ phase \in Seq(Phases) /\ home \in Seq(Nat)
        BY <1>1, KeptShape
    <2>2. QueueFits(queue, Len(phase), tasks, home)
        BY <1>1 DEF Kept, LoopsOK
    <2>3. \A l \in DOMAIN queue : \A i \in DOMAIN queue[l] :
              queue[l][i] \in
                 [do : {"start", "step", "cancel", "request", "close",
                        "stop"},
                  task : 0..Len(tasks), via : (1..Len(home)) \cup {None}]
        <3> SUFFICES ASSUME NEW l \in DOMAIN queue,
                            NEW i \in DOMAIN queue[l]
                     PROVE  queue[l][i] \in
                              [do : {"start", "step", "cancel", "request",
                                     "close", "stop"},
                               task : 0..Len(tasks),
                               via : (1..Len(home)) \cup {None}]
            OBVIOUS
        <3>1. PICK x : x = queue[l][i]
            OBVIOUS
        <3>2. l \in 1..Len(phase) /\ queue[l] \in Seq(Callbacks)
            BY <2>2 DEF QueueFits
        <3>3. i \in 1..Len(queue[l])
            BY <3>2
        <3>4. x \in Callbacks /\ CallbackFits(l, x, tasks, home)
            BY <2>2, <3>1, <3>2, <3>3 DEF QueueFits
        <3> QED
            BY <3>1, <3>4 DEF Callbacks, CallbackFits
    <2>4. home \in Seq(1..Len(phase))
        BY <1>1, <2>1 DEF Kept, SessionsOK
    <2>5. \A a \in Callers : call[a].task \in 0..Len(tasks)
        BY <1>1 DEF Kept, CallsOK, CallFits
    <2>6. phase \in Seq({"running", "stopping", "draining", "closed"})
          /\ Len(queue) = Len(phase)
        BY <2>1, <2>2 DEF Phases, QueueFits
    <2> QED
        BY <1>1, <2>3, <2>4, <2>5, <2>6
           DEF SessionTypeOK, Kept, SessionsOK, FieldsOK, CallsOK
<1> QED
    BY <1>1, KeptAlways, PTL

\* A session is closed on the loop it was made on, and a request that is not
\* forwarded uses it there, even if callers do not take turns and close() is
\* interrupted (_on_session_loop and aclose).
THEOREM SessionAlwaysKeepsItsLoop == Spec => []SessionKeepsItsLoop
<1>1. ASSUME Kept
      PROVE  SessionKeepsItsLoop
    <2>1. QueueFits(queue, Len(phase), tasks, home)
        BY <1>1 DEF Kept, LoopsOK
    <2>2. ASSUME NEW c \in DOMAIN tasks, tasks[c].sent,
                 tasks[c].stage = "closing" \/ tasks[c].at = tasks[c].loop
          PROVE  tasks[c].at = home[tasks[c].via]
        <3>1. c \in 1..Len(tasks)
            BY <1>1, KeptShape
        <3>2. TaskFits(tasks[c], Len(phase), home)
            BY <1>1, <3>1 DEF Kept, TasksOK
        <3> QED
            BY <2>2, <3>2 DEF TaskFits
    <2>3. ASSUME NEW l \in DOMAIN queue, NEW i \in DOMAIN queue[l],
                 queue[l][i].do = "close"
          PROVE  home[queue[l][i].via] = l
        <3>1. l \in 1..Len(phase) /\ queue[l] \in Seq(Callbacks)
            BY <2>1 DEF QueueFits
        <3>2. i \in 1..Len(queue[l])
            BY <3>1
        <3>3. CallbackFits(l, queue[l][i], tasks, home)
            BY <2>1, <3>1, <3>2 DEF QueueFits
        <3> QED
            BY <2>3, <3>3 DEF CallbackFits
    <2> QED
        BY <2>2, <2>3 DEF SessionKeepsItsLoop
<1> QED
    BY <1>1, KeptAlways, PTL

-----------------------------------------------------------------------------
(* The callbacks of a loop and their order.                                *)

Is(x, d, c) == x.do = d /\ x.task = c

Has(s, d, c) == \E i \in 1..Len(s) : Is(s[i], d, c)

Does(s, d) == \E i \in 1..Len(s) : s[i].do = d

\* Every callback `e' of coroutine `c' comes behind a `d' of coroutine `b'.
Precedes(s, d, b, e, c) ==
    \A j \in 1..Len(s) : Is(s[j], e, c) =>
        \E i \in 1..Len(s) : i < j /\ Is(s[i], d, b)

LEMMA TailHas ==
    ASSUME NEW s \in Seq(Callbacks), s # <<>>, NEW d, NEW c
    PROVE  /\ Has(Tail(s), d, c) => Has(s, d, c)
           /\ Has(s, d, c) => Has(Tail(s), d, c) \/ Is(Head(s), d, c)
           /\ Does(Tail(s), d) => Does(s, d)
<1>1. PICK r : r = Tail(s)
    OBVIOUS
<1>2. /\ Len(r) = Len(s) - 1 /\ Len(s) \in Nat
      /\ Head(s) = s[1] /\ 1 \in 1..Len(s)
      /\ \A j \in 1..Len(r) : j + 1 \in 1..Len(s) /\ r[j] = s[j + 1]
    BY <1>1, OneLess
<1>3. ASSUME NEW i \in 1..Len(s), Is(s[i], d, c), ~Is(Head(s), d, c)
      PROVE  Has(r, d, c)
    <2>1. i # 1 /\ i - 1 \in 1..Len(r) /\ (i - 1) + 1 = i
        BY <1>2, <1>3
    <2>2. r[i - 1] = s[i]
        BY <1>2, <2>1
    <2> QED
        BY <1>3, <2>1, <2>2 DEF Has
<1> QED
    BY <1>1, <1>2, <1>3 DEF Has, Does

LEMMA AppendHas ==
    ASSUME NEW s \in Seq(Callbacks), NEW x \in Callbacks, NEW d, NEW c
    PROVE  /\ Has(Append(s, x), d, c) <=> Has(s, d, c) \/ Is(x, d, c)
           /\ Does(Append(s, x), d) => Does(s, d) \/ x.do = d
<1>1. PICK r : r = Append(s, x)
    OBVIOUS
<1>2. /\ Len(r) = Len(s) + 1 /\ Len(s) \in Nat /\ r[Len(s) + 1] = x
      /\ \A j \in 1..Len(s) : r[j] = s[j]
    BY <1>1, OneMore
<1>3. \A i \in 1..Len(r) : i \in 1..Len(s) \/ i = Len(s) + 1
    BY <1>2
<1>4. /\ \A i \in 1..Len(s) : i \in 1..Len(r)
      /\ Len(s) + 1 \in 1..Len(r)
    BY <1>2
<1> QED
    BY <1>1, <1>2, <1>3, <1>4 DEF Has, Does

LEMMA TailPrecedes ==
    ASSUME NEW s \in Seq(Callbacks), s # <<>>,
           NEW d, NEW b, NEW e, NEW c, Precedes(s, d, b, e, c),
           ~Is(Head(s), d, b)
    PROVE  Precedes(Tail(s), d, b, e, c)
<1>1. PICK r : r = Tail(s)
    OBVIOUS
<1>2. /\ Len(r) = Len(s) - 1 /\ Len(s) \in Nat
      /\ Head(s) = s[1] /\ 1 \in 1..Len(s)
      /\ \A j \in 1..Len(r) : j + 1 \in 1..Len(s) /\ r[j] = s[j + 1]
    BY <1>1, OneLess
<1>3. ASSUME NEW j \in 1..Len(r), Is(r[j], e, c)
      PROVE  \E i \in 1..Len(r) : i < j /\ Is(r[i], d, b)
    <2>1. j + 1 \in 1..Len(s) /\ Is(s[j + 1], e, c)
        BY <1>2, <1>3
    <2>2. PICK i \in 1..Len(s) : i < j + 1 /\ Is(s[i], d, b)
        BY <2>1 DEF Precedes
    <2>3. i # 1 /\ i - 1 \in 1..Len(r) /\ (i - 1) + 1 = i /\ i - 1 < j
        BY <1>2, <2>2
    <2>4. r[i - 1] = s[i]
        BY <1>2, <2>3
    <2> QED
        BY <2>2, <2>3, <2>4
<1> QED
    BY <1>1, <1>3 DEF Precedes

LEMMA AppendPrecedes ==
    ASSUME NEW s \in Seq(Callbacks), NEW x \in Callbacks,
           NEW d, NEW b, NEW e, NEW c, Precedes(s, d, b, e, c),
           Is(x, e, c) => Has(s, d, b)
    PROVE  Precedes(Append(s, x), d, b, e, c)
<1>1. PICK r : r = Append(s, x)
    OBVIOUS
<1>2. /\ Len(r) = Len(s) + 1 /\ Len(s) \in Nat /\ r[Len(s) + 1] = x
      /\ \A j \in 1..Len(s) : r[j] = s[j]
    BY <1>1, OneMore
<1>3. ASSUME NEW j \in 1..Len(r), Is(r[j], e, c)
      PROVE  \E i \in 1..Len(r) : i < j /\ Is(r[i], d, b)
    <2>1. CASE j \in 1..Len(s)
        <3>1. PICK i \in 1..Len(s) : i < j /\ Is(s[i], d, b)
            BY <1>2, <1>3, <2>1 DEF Precedes
        <3>2. i \in 1..Len(r) /\ r[i] = s[i]
            BY <1>2
        <3> QED
            BY <3>1, <3>2
    <2>2. CASE j = Len(s) + 1
        <3>1. PICK i \in 1..Len(s) : Is(s[i], d, b)
            BY <1>2, <1>3, <2>2 DEF Has
        <3>2. i \in 1..Len(r) /\ r[i] = s[i] /\ i < j
            BY <1>2, <2>2
        <3> QED
            BY <3>1, <3>2
    <2> QED
        BY <1>2, <2>1, <2>2
<1> QED
    BY <1>1, <1>3 DEF Precedes

LEMMA HeadHas ==
    ASSUME NEW s \in Seq(Callbacks), s # <<>>
    PROVE  /\ \A d, c : Is(Head(s), d, c) => Has(s, d, c)
           /\ Does(s, Head(s).do) /\ Has(s, Head(s).do, Head(s).task)
           /\ \A d, b, e, c :
                  Precedes(s, d, b, e, c) => ~Is(Head(s), e, c)
<1>1. Head(s) = s[1] /\ 1 \in 1..Len(s) /\ Len(s) \in Nat
    BY OneLess
<1>2. \A i \in 1..Len(s) : ~(i < 1)
    BY <1>1
<1> QED
    BY <1>1, <1>2 DEF Has, Does, Is, Precedes

\* A loop takes its next callback (none, if `l' is 0), and another one may be
\* forwarded.
Passes(s, r) ==
    \/ r = s
    \/ \E x \in Callbacks :
          x.do \in {"request", "close"} /\ r = Append(s, x)

Left(q, l, m) == IF m = l THEN Tail(q[m]) ELSE q[m]

Passed(q, l, p) ==
    /\ Len(p) = Len(q)
    /\ l # 0 => l \in 1..Len(q) /\ q[l] # <<>>
    /\ \A m \in 1..Len(q) : Passes(Left(q, l, m), p[m])

\* What is not forwarded.
Scheduled == {"start", "step", "cancel", "stop"}

LEMMA PassesKeeps ==
    ASSUME NEW s \in Seq(Callbacks), NEW r, Passes(s, r),
           NEW d \in Scheduled, NEW c
    PROVE  /\ Has(r, d, c) <=> Has(s, d, c)
           /\ Does(r, d) => Does(s, d)
           /\ \A e, b : Precedes(s, e, b, d, c) => Precedes(r, e, b, d, c)
<1>1. CASE r = s
    BY <1>1
<1>2. CASE r # s
    <2>1. PICK x \in Callbacks :
              x.do \in {"request", "close"} /\ r = Append(s, x)
        BY <1>2 DEF Passes
    <2>2. x.do # d /\ ~Is(x, d, c)
        BY <2>1 DEF Is, Scheduled
    <2>3. /\ Has(r, d, c) <=> Has(s, d, c)
          /\ Does(r, d) => Does(s, d)
        <3>1. /\ Has(Append(s, x), d, c) <=> Has(s, d, c) \/ Is(x, d, c)
              /\ Does(Append(s, x), d) => Does(s, d) \/ x.do = d
            BY AppendHas
        <3> QED
            BY <2>1, <2>2, <3>1
    <2>4. ASSUME NEW e, NEW b, Precedes(s, e, b, d, c)
          PROVE  Precedes(r, e, b, d, c)
        BY <2>1, <2>2, <2>4, AppendPrecedes
    <2> QED
        BY <2>3, <2>4
<1> QED
    BY <1>1, <1>2

LEMMA PassedKeeps ==
    ASSUME NEW q \in Seq(Seq(Callbacks)), NEW l, NEW p, Passed(q, l, p),
           NEW m \in 1..Len(q),
           NEW d \in Scheduled, NEW c
    PROVE  /\ Has(p[m], d, c) => Has(q[m], d, c)
           /\ Has(q[m], d, c) =>
                  Has(p[m], d, c) \/ (m = l /\ Is(Head(q[m]), d, c))
           /\ Does(p[m], d) => Does(q[m], d)
<1>1. PICK s : s = q[m]
    OBVIOUS
<1>2. PICK r : r = p[m]
    OBVIOUS
<1>3. s \in Seq(Callbacks)
    BY <1>1
<1>4. CASE m # l
    <2>1. Passes(s, r)
        BY <1>1, <1>2, <1>4 DEF Passed, Left
    <2>2. /\ Has(r, d, c) <=> Has(s, d, c)
          /\ Does(r, d) => Does(s, d)
        BY <1>3, <2>1, PassesKeeps
    <2> QED
        BY <1>1, <1>2, <2>2
<1>5. CASE m = l
    <2>1. PICK t : t = Tail(s)
        OBVIOUS
    <2>2. s # <<>> /\ Passes(t, r)
        <3>1. l # 0
            BY <1>5
        <3> QED
            BY <1>1, <1>2, <1>5, <2>1, <3>1 DEF Passed, Left
    <2>3. t \in Seq(Callbacks)
        BY <1>3, <2>1, <2>2, OneLess
    <2>4. /\ Has(r, d, c) <=> Has(t, d, c)
          /\ Does(r, d) => Does(t, d)
        BY <2>2, <2>3, PassesKeeps
    <2>5. /\ Has(t, d, c) => Has(s, d, c)
          /\ Has(s, d, c) => Has(t, d, c) \/ Is(Head(s), d, c)
          /\ Does(t, d) => Does(s, d)
        BY <1>3, <2>1, <2>2, TailHas
    <2> QED
        BY <1>1, <1>2, <1>5, <2>4, <2>5
<1> QED
    BY <1>4, <1>5

LEMMA StillPrecedes ==
    ASSUME NEW q \in Seq(Seq(Callbacks)), NEW l, NEW p, Passed(q, l, p),
           NEW m \in 1..Len(q), NEW d \in Scheduled, NEW c, NEW e, NEW b,
           Precedes(q[m], e, b, d, c), ~(m = l /\ Is(Head(q[m]), e, b))
    PROVE  Precedes(p[m], e, b, d, c)
<1>1. PICK s : s = q[m]
    OBVIOUS
<1>2. PICK r : r = p[m]
    OBVIOUS
<1>3. s \in Seq(Callbacks) /\ Precedes(s, e, b, d, c)
    BY <1>1
<1>4. ASSUME NEW t \in Seq(Callbacks), Passes(t, r), Precedes(t, e, b, d, c)
      PROVE  Precedes(r, e, b, d, c)
    BY <1>4, PassesKeeps
<1>5. CASE m # l
    <2>1. Passes(s, r)
        BY <1>1, <1>2, <1>5 DEF Passed, Left
    <2> QED
        BY <1>2, <1>3, <1>4, <2>1
<1>6. CASE m = l
    <2>1. PICK t : t = Tail(s)
        OBVIOUS
    <2>2. s # <<>> /\ Passes(t, r) /\ ~Is(Head(s), e, b)
        <3>1. l # 0
            BY <1>6
        <3> QED
            BY <1>1, <1>2, <1>6, <2>1, <3>1 DEF Passed, Left
    <2>3. t \in Seq(Callbacks)
        BY <1>3, <2>1, <2>2, OneLess
    <2>4. Precedes(t, e, b, d, c)
        BY <1>3, <2>1, <2>2, TailPrecedes
    <2> QED
        BY <1>2, <1>4, <2>2, <2>3, <2>4
<1> QED
    BY <1>5, <1>6

-----------------------------------------------------------------------------
(* Most steps let one coroutine go on, or end, and leave the calls and the *)
(* loops alone.                                                            *)

\* What a coroutine may be doing.
Kind(t) ==
    t.stage \notin Ended =>
        /\ t.op # "none"
        /\ t.stage \in {"auth", "resource"} => t.op = "connect"
        /\ t.stage = "request" => t.op = "request"
        /\ t.stage = "closing" => t.op = "aclose" /\ t.handle = Client

GoesOn(t, u) ==
    \/ u = t
    \/ t.stage \notin Handed /\ u.stage \in Ended
    \/ /\ t.stage \notin Handed \cup Ended
       /\ u.stage \in Asking \cup {"closing"}
       /\ u.op = t.op /\ u.handle = t.handle /\ u.loop = t.loop
       /\ Kind(t) => Kind(u)

\* With the next callback of loop `l' (none, if that is 0) the coroutines go
\* on: its first step is the only way past "ready", but for a cancellation.
Advanced(q, l, T, U) ==
    /\ Len(U) = Len(T)
    /\ l # 0 => Head(q[l]).do \notin {"start", "stop"}
    /\ \A c \in 1..Len(T) :
        /\ GoesOn(T[c], U[c])
        /\ (T[c].stage = "ready" /\ U[c] # T[c]) =>
            \/ l # 0 /\ Is(Head(q[l]), "step", c)
            \/ /\ U[c].stage \in Ended
               /\ \/ T[c].op # "aclose"
                  \/ l # 0 /\ Is(Head(q[l]), "cancel", c)
        /\ (l # 0 /\ Is(Head(q[l]), "cancel", c)) =>
               T[c].stage \in Handed \/ U[c].stage \in Ended

GoesOnBy(l) ==
    /\ Passed(queue, l, queue') /\ Advanced(queue, l, tasks, tasks')
    /\ UNCHANGED <<phase, loopThread, live, call, calls, mishaps>>

LoopTurn(l) ==
    \/ Step(l)  \/ SkipStep(l)  \/ Cancel(l)
    \/ ForwardedRequest(l)  \/ ForwardedClose(l)

GoOnStep ==
    \/ \E l \in DOMAIN phase : LoopTurn(l)
    \/ \E c \in DOMAIN tasks : Network(c)
    \/ \E a \in Cells : CancelCell(a)

LEMMA NothingAdvances ==
    ASSUME NEW q, NEW l, NEW T \in Seq(Tasks),
           l # 0 => /\ Head(q[l]).do \notin {"start", "stop"}
                    /\ \A c \in 1..Len(T) :
                           Is(Head(q[l]), "cancel", c) =>
                               T[c].stage \in Handed \cup Ended
    PROVE  Advanced(q, l, T, T)
BY DEF Advanced, GoesOn

LEMMA OneAdvances ==
    ASSUME NEW q, NEW l, NEW T \in Seq(Tasks), NEW c \in 1..Len(T),
           NEW u \in Tasks, GoesOn(T[c], u), NEW U, Puts(T, c, u, U),
           l # 0 => \/ Head(q[l]).do \in {"step", "request", "close"}
                    \/ Is(Head(q[l]), "cancel", c) /\ u.stage \in Ended,
           T[c].stage = "ready" =>
               \/ l # 0 /\ Is(Head(q[l]), "step", c)
               \/ /\ u.stage \in Ended
                  /\ \/ T[c].op # "aclose"
                     \/ l # 0 /\ Is(Head(q[l]), "cancel", c)
    PROVE  Advanced(q, l, T, U)
<1>1. /\ Len(U) = Len(T) /\ U[c] = u
      /\ \A d \in 1..Len(T) : d # c => U[d] = T[d]
    BY OneChanged DEF Puts
<1>2. l # 0 => /\ Head(q[l]).do \notin {"start", "stop"}
               /\ \A d \in 1..Len(T) :
                      Is(Head(q[l]), "cancel", d) =>
                          d = c /\ u.stage \in Ended
    BY DEF Is
<1>3. ASSUME NEW d \in 1..Len(T)
      PROVE  /\ GoesOn(T[d], U[d])
             /\ (T[d].stage = "ready" /\ U[d] # T[d]) =>
                 \/ l # 0 /\ Is(Head(q[l]), "step", d)
                 \/ /\ U[d].stage \in Ended
                    /\ \/ T[d].op # "aclose"
                       \/ l # 0 /\ Is(Head(q[l]), "cancel", d)
             /\ (l # 0 /\ Is(Head(q[l]), "cancel", d)) =>
                    T[d].stage \in Handed \/ U[d].stage \in Ended
    <2>1. CASE d = c
        <3>1. U[d] = u /\ T[d] = T[c]
            BY <1>1, <2>1
        <3>2. GoesOn(T[d], U[d])
            BY <2>1, <3>1
        <3>3. (l # 0 /\ Is(Head(q[l]), "cancel", d)) => u.stage \in Ended
            BY <1>2
        <3> QED
            BY <2>1, <3>1, <3>2, <3>3
    <2>2. CASE d # c
        BY <1>1, <1>2, <2>2 DEF GoesOn
    <2> QED
        BY <2>1, <2>2
<1> QED
    BY <1>1, <1>2, <1>3 DEF Advanced

LEMMA EndsOn ==
    ASSUME Kept, NEW c \in 1..Len(tasks), tasks[c].stage \notin Handed,
           NEW how \in Ended, End(c, how)
    PROVE  \E u \in Tasks : /\ Puts(tasks, c, u, tasks')
                            /\ GoesOn(tasks[c], u) /\ u.stage \in Ended
<1>1. PICK u : u = Over(how)
    OBVIOUS
<1>2. u \in Tasks /\ u.stage = how
    BY <1>1, OverFits DEF Over, Task
<1> QED
    BY <1>1, <1>2 DEF End, Puts, GoesOn

\* A request goes on where it is made, or ends.
LEMMA RequestGoesOn ==
    ASSUME Kept, NEW c \in 1..Len(tasks), NEW q \in Seq(Seq(Callbacks)),
           Len(q) = Len(phase), NEW stage \in Asking,
           tasks[c].stage \in Asking \cup {"ready"},
           IF stage = "request" THEN tasks[c].op = "request"
           ELSE Kind(tasks[c]) => tasks[c].op = "connect",
           Request(c, stage, q)
    PROVE  /\ Len(queue') = Len(q)
           /\ \A m \in 1..Len(q) : Passes(q[m], queue'[m])
           /\ \E u \in Tasks : /\ Puts(tasks, c, u, tasks')
                               /\ GoesOn(tasks[c], u)
<1>1. /\ tasks \in Seq(Tasks) /\ tasks[c] \in Tasks
      /\ None \notin Nat /\ Len(phase) \in Nat /\ Len(home) \in Nat
      /\ Len(tasks) \in Nat /\ TaskFits(tasks[c], Len(phase), home)
    BY KeptShape DEF Kept, TasksOK
<1>2. PICK t : t = tasks[c]
    OBVIOUS
<1>3. PICK s : s = session[t.handle]
    OBVIOUS
<1>4. /\ t \in Tasks /\ t.handle \in Handles /\ t.loop \in Nat
      /\ t.stage \notin Handed \cup Ended
    BY <1>1, <1>2 DEF Tasks, Asking, Handed, Ended
<1>5. /\ s \in (1..Len(home)) \cup {None}
      /\ s \in open => s \in Nat
      /\ s # None => home[s] \in 1..Len(phase)
    <2>1. s \in (1..Len(home)) \cup {None}
        BY <1>3, <1>4 DEF Kept, FieldsOK
    <2>2. open \subseteq 1..Len(home) /\ 1..Len(home) \subseteq Nat
        BY <1>1 DEF Kept, SessionsOK
    <2>3. \A i \in 1..Len(home) : home[i] \in 1..Len(phase)
        BY DEF Kept, SessionsOK
    <2> QED
        BY <1>1, <2>1, <2>2, <2>3
<1>6. PICK owner : owner = IF s = None THEN None ELSE home[s]
    OBVIOUS
<1>7. owner = Owner(t.handle)
    BY <1>3, <1>6 DEF Owner
<1>8. ASSUME NEW u \in Tasks, u.stage = stage, u.op = t.op,
             u.handle = t.handle, u.loop = t.loop
      PROVE  GoesOn(t, u)
    <2>1. Kind(t) => Kind(u)
        BY <1>2, <1>4, <1>8 DEF Kind, Asking
    <2> QED
        BY <1>4, <1>8, <2>1 DEF GoesOn
<1>9. \A m \in 1..Len(q) : Passes(q[m], q[m])
    BY DEF Passes
<1>10. CASE End(c, "raised") /\ queue' = q
    <2>1. "raised" \in Ended /\ tasks[c].stage \notin Handed
        BY <1>2, <1>4 DEF Ended
    <2> QED
        BY <1>9, <1>10, <2>1, EndsOn
<1>11. CASE /\ owner \in {None, t.loop}
            /\ tasks' = [tasks EXCEPT ![c] = Sent(t, stage, t.loop)]
            /\ queue' = q
    <2>1. CASE s \in open
        <3>1. PICK u : u = [t EXCEPT !.stage = stage, !.at = t.loop,
                                     !.sent = TRUE, !.via = s]
            OBVIOUS
        <3>2. /\ u \in Tasks /\ u.stage = stage /\ u.op = t.op
              /\ u.handle = t.handle /\ u.loop = t.loop
            <4>1. s \in Nat /\ stage \in Asking /\ t.loop \in Nat
                BY <1>4, <1>5, <2>1
            <4> QED
                BY <1>4, <3>1, <4>1 DEF Tasks
        <3>3. GoesOn(t, u)
            BY <1>8, <3>2
        <3>4. Puts(tasks, c, u, tasks')
            BY <1>3, <1>11, <2>1, <3>1 DEF Sent, Puts
        <3> QED
            BY <1>2, <1>9, <1>11, <3>2, <3>3, <3>4
    <2>2. CASE s \notin open
        <3>1. End(c, "raised")
            BY <1>3, <1>11, <2>2 DEF Sent, End
        <3> QED
            BY <1>10, <1>11, <3>1
    <2> QED
        BY <2>1, <2>2
<1>12. CASE /\ owner \notin {None, t.loop}
            /\ tasks' = [tasks EXCEPT ![c].stage = stage, ![c].at = owner,
                                      ![c].sent = FALSE]
            /\ queue' = [q EXCEPT ![owner] =
                            Append(@, Callback("request", c))]
    <2>1. PICK u : u = [t EXCEPT !.stage = stage, !.at = owner,
                                 !.sent = FALSE]
        OBVIOUS
    <2>2. owner \in 1..Len(phase) /\ owner \in Nat
        BY <1>1, <1>5, <1>6, <1>12
    <2>3. /\ u \in Tasks /\ u.loop = t.loop /\ u.stage = stage
          /\ u.op = t.op /\ u.handle = t.handle
        BY <1>4, <2>1, <2>2 DEF Tasks
    <2>4. GoesOn(t, u) /\ Puts(tasks, c, u, tasks')
        BY <1>2, <1>8, <1>12, <2>1, <2>3 DEF Puts
    <2>5. PICK x : x = Callback("request", c)
        OBVIOUS
    <2>6. x \in Callbacks /\ x.do = "request"
        BY <1>1, <2>5 DEF Callback, Callbacks
    <2>7. PICK r : r = Append(q[owner], x)
        OBVIOUS
    <2>8. r \in Seq(Callbacks) /\ queue' = [q EXCEPT ![owner] = r]
        <3>1. q[owner] \in Seq(Callbacks)
            BY <2>2
        <3> QED
            BY <1>12, <2>5, <2>6, <2>7, <3>1, OneMore
    <2>9. Passes(q[owner], r)
        BY <2>6, <2>7 DEF Passes
    <2>10. /\ Len(queue') = Len(q) /\ queue'[owner] = r
           /\ \A m \in 1..Len(q) : m # owner => queue'[m] = q[m]
        BY <2>2, <2>8, OneChanged
    <2>11. \A m \in 1..Len(q) : Passes(q[m], queue'[m])
        BY <1>9, <2>9, <2>10
    <2> QED
        BY <1>2, <2>3, <2>4, <2>10, <2>11
<1> QED
    BY <1>2, <1>7, <1>10, <1>11, <1>12 DEF Request

\* The callbacks of loop `l' without the next.
LEMMA RestLeft ==
    ASSUME Kept, NEW l \in 1..Len(phase), queue[l] # <<>>
    PROVE  /\ Rest(l) \in Seq(Seq(Callbacks)) /\ Len(Rest(l)) = Len(queue)
           /\ Len(queue) = Len(phase) /\ queue \in Seq(Seq(Callbacks))
           /\ \A m \in 1..Len(queue) : Rest(l)[m] = Left(queue, l, m)
<1>1. queue \in Seq(Seq(Callbacks)) /\ Len(queue) = Len(phase)
    BY DEF Kept, LoopsOK, QueueFits
<1>2. PICK r : r = Tail(queue[l])
    OBVIOUS
<1>3. r \in Seq(Callbacks)
    <2>1. queue[l] \in Seq(Callbacks)
        BY <1>1
    <2> QED
        BY <1>2, <2>1, OneLess
<1>4. PICK p : p = [queue EXCEPT ![l] = r]
    OBVIOUS
<1>5. /\ p \in Seq(Seq(Callbacks)) /\ Len(p) = Len(queue) /\ p[l] = r
      /\ \A m \in 1..Len(queue) : m # l => p[m] = queue[m]
    BY <1>1, <1>3, <1>4, OneChanged
<1>6. p = Rest(l)
    BY <1>2, <1>4 DEF Rest
<1> QED
    BY <1>1, <1>2, <1>5, <1>6 DEF Left

LEMMA RestPasses ==
    ASSUME Kept, NEW l \in 1..Len(phase), queue[l] # <<>>,
           Len(queue') = Len(Rest(l)),
           \A m \in 1..Len(Rest(l)) : Passes(Rest(l)[m], queue'[m])
    PROVE  Passed(queue, l, queue')
BY RestLeft DEF Passed

LEMMA JustRests ==
    ASSUME Kept, NEW l \in 1..Len(phase), queue[l] # <<>>,
           queue' = Rest(l)
    PROVE  Passed(queue, l, queue')
<1>1. \A m \in 1..Len(Rest(l)) : Passes(Rest(l)[m], queue'[m])
    BY DEF Passes
<1> QED
    BY <1>1, RestPasses

LEMMA NoneTaken ==
    ASSUME Kept, Len(queue') = Len(queue),
           \A m \in 1..Len(queue) : Passes(queue[m], queue'[m])
    PROVE  Passed(queue, 0, queue')
<1>1. Len(queue) \in Nat
    BY KeptShape DEF Kept, LoopsOK, QueueFits
<1>2. \A m \in 1..Len(queue) : Left(queue, 0, m) = queue[m]
    BY <1>1 DEF Left
<1> QED
    BY <1>2 DEF Passed

LEMMA HeadGoesOn ==
    ASSUME Kept, NEW l \in 1..Len(phase), queue[l] # <<>>,
           NEW c \in 1..Len(tasks), c = Head(queue[l]).task,
           \E u \in Tasks :
               /\ Puts(tasks, c, u, tasks') /\ GoesOn(tasks[c], u)
               /\ \/ Head(queue[l]).do \in {"step", "request", "close"}
                  \/ Head(queue[l]).do = "cancel" /\ u.stage \in Ended,
           tasks[c].stage = "ready" =>
               Head(queue[l]).do \in {"step", "cancel"},
           Passed(queue, l, queue'),
           UNCHANGED <<phase, loopThread, live, callVars>>
    PROVE  GoesOnBy(l)
<1>1. PICK u \in Tasks :
          /\ Puts(tasks, c, u, tasks') /\ GoesOn(tasks[c], u)
          /\ \/ Head(queue[l]).do \in {"step", "request", "close"}
             \/ Head(queue[l]).do = "cancel" /\ u.stage \in Ended
    OBVIOUS
<1>2. PICK x : x = Head(queue[l])
    OBVIOUS
<1>3. /\ \/ x.do \in {"step", "request", "close"}
         \/ Is(x, "cancel", c) /\ u.stage \in Ended
      /\ tasks[c].stage = "ready" =>
          \/ Is(x, "step", c)
          \/ u.stage \in Ended /\ Is(x, "cancel", c)
    BY <1>1, <1>2 DEF Is
<1>4. PICK T : T = tasks
    OBVIOUS
<1>5. PICK U : U = tasks'
    OBVIOUS
<1>6. /\ T \in Seq(Tasks) /\ c \in 1..Len(T) /\ GoesOn(T[c], u)
      /\ Puts(T, c, u, U)
    BY <1>1, <1>4, <1>5, KeptShape
<1>7. /\ l # 0 => \/ Head(queue[l]).do \in {"step", "request", "close"}
                  \/ Is(Head(queue[l]), "cancel", c) /\ u.stage \in Ended
      /\ T[c].stage = "ready" =>
           \/ l # 0 /\ Is(Head(queue[l]), "step", c)
           \/ /\ u.stage \in Ended
              /\ \/ T[c].op # "aclose"
                 \/ l # 0 /\ Is(Head(queue[l]), "cancel", c)
    BY <1>2, <1>3, <1>4, KeptShape
<1>8. Advanced(queue, l, T, U)
    BY <1>6, <1>7, OneAdvances
<1> QED
    BY <1>4, <1>5, <1>8 DEF GoesOnBy, callVars

\* The first turn of a coroutine, by what it may be.
LEMMA FirstGoesOn ==
    ASSUME NEW c, NEW l, Ready(c, l), queue[l] # <<>>,
           Connect(c, l) \/ Close(c, l) \/ Use(c, l)
    PROVE  /\ Passed(queue, l, queue')
           /\ \E u \in Tasks :
                  Puts(tasks, c, u, tasks') /\ GoesOn(tasks[c], u)
<1>1. /\ l \in 1..Len(phase) /\ c \in 1..Len(tasks) /\ Kept
      /\ tasks \in Seq(Tasks) /\ Len(phase) \in Nat /\ Len(home) \in Nat
      /\ None \notin Nat
    BY KeptShape DEF Ready
<1>2. PICK t : t = tasks[c]
    OBVIOUS
<1>3. /\ t \in Tasks /\ t.stage = "ready" /\ t.handle \in Handles
      /\ t.stage \notin Handed \cup Ended
      /\ tasks[c].stage \notin Handed /\ t.loop \in Nat
    BY <1>2 DEF Ready, Tasks, Handed, Ended
<1>4. PICK q : q = Rest(l)
    OBVIOUS
<1>5. /\ q \in Seq(Seq(Callbacks)) /\ Len(q) = Len(phase)
      /\ Len(q) = Len(queue)
    BY <1>1, <1>4, RestLeft
<1>6. ASSUME NEW how \in Ended, End(c, how), queue' = q
      PROVE  /\ Passed(queue, l, queue')
             /\ \E u \in Tasks :
                    Puts(tasks, c, u, tasks') /\ GoesOn(tasks[c], u)
    BY <1>1, <1>3, <1>4, <1>6, EndsOn, JustRests
<1>7. "returned" \in Ended /\ "raised" \in Ended
    BY DEF Ended
<1>8. ASSUME NEW stage \in Asking, Request(c, stage, q),
             IF stage = "request" THEN t.op = "request"
             ELSE t.op = "connect"
      PROVE  /\ Passed(queue, l, queue')
             /\ \E u \in Tasks :
                    Puts(tasks, c, u, tasks') /\ GoesOn(tasks[c], u)
    <2>1. /\ tasks[c].stage \in Asking \cup {"ready"}
          /\ IF stage = "request" THEN tasks[c].op = "request"
             ELSE Kind(tasks[c]) => tasks[c].op = "connect"
        BY <1>2, <1>3, <1>8
    <2>2. /\ Len(queue') = Len(q)
          /\ \A m \in 1..Len(q) : Passes(q[m], queue'[m])
          /\ \E u \in Tasks :
                 Puts(tasks, c, u, tasks') /\ GoesOn(tasks[c], u)
        BY <1>1, <1>5, <1>8, <2>1, RequestGoesOn
    <2> QED
        BY <1>1, <1>4, <2>2, RestPasses
<1>9. \A x : x \in open => x \in Nat /\ x \in 1..Len(home)
    <2>1. open \subseteq 1..Len(home) /\ 1..Len(home) \subseteq Nat
        BY <1>1 DEF Kept, SessionsOK
    <2> QED
        BY <2>1
<1>10. CASE Connect(c, l)
    <2>1. CASE ConnectAgain(c, l)
        BY <1>4, <1>6, <1>7, <2>1 DEF ConnectAgain
    <2>2. CASE ConnectAnew(c, l)
        <3>1. PICK s \in Nat : s = Len(home) + 1
            BY <1>1
        <3>2. PICK u : u = [t EXCEPT !.stage = "auth", !.sent = TRUE,
                                     !.via = s]
            OBVIOUS
        <3>3. /\ u \in Tasks /\ u.stage = "auth" /\ u.op = t.op
              /\ u.handle = t.handle /\ u.loop = t.loop
            BY <1>3, <3>1, <3>2 DEF Tasks, Asking
        <3>4. t.op = "connect"
            BY <1>2, <1>10 DEF Connect
        <3>5. Kind(u)
            BY <3>3, <3>4 DEF Kind
        <3>6. GoesOn(t, u)
            <4>1. u.stage \in Asking \cup {"closing"}
                BY <3>3 DEF Asking
            <4> QED
                BY <1>3, <3>3, <3>5, <4>1 DEF GoesOn
        <3>7. Puts(tasks, c, u, tasks') /\ queue' = q
            BY <1>2, <1>4, <2>2, <3>1, <3>2 DEF ConnectAnew, Puts
        <3> QED
            BY <1>1, <1>2, <1>4, <3>3, <3>6, <3>7, JustRests
    <2>3. CASE ConnectReusing(c, l)
        <3>1. PICK stage \in Asking : stage = "auth"
            BY DEF Asking
        <3>2. Request(c, stage, q) /\ t.op = "connect"
            BY <1>2, <1>4, <1>10, <2>3, <3>1 DEF ConnectReusing, Connect
        <3> QED
            BY <1>8, <3>1, <3>2
    <2> QED
        BY <1>10, <2>1, <2>2, <2>3 DEF Connect
<1>11. CASE Close(c, l)
    <2>1. CASE CloseView(c, l) \/ CloseNothing(c, l)
        BY <1>4, <1>6, <1>7, <2>1 DEF CloseView, CloseNothing
    <2>2. PICK s : s = session[Client]
        OBVIOUS
    <2>3. t.op = "aclose"
        BY <1>2, <1>11 DEF Close
    <2>4. ASSUME NEW u \in Tasks, u.stage = "closing", u.op = t.op,
                 u.handle = t.handle, u.loop = t.loop,
                 t.handle = Client
          PROVE  GoesOn(t, u)
        <3>1. Kind(u)
            BY <2>3, <2>4 DEF Kind
        <3> QED
            BY <1>3, <2>4, <3>1 DEF GoesOn
    <2>5. CASE CloseHere(c, l)
        <3>1. PICK u : u = [t EXCEPT !.stage = "closing", !.sent = TRUE,
                                     !.via = s]
            OBVIOUS
        <3>2. s \in Nat /\ t.handle = Client
            BY <1>2, <1>9, <2>2, <2>5 DEF CloseHere
        <3>3. /\ u \in Tasks /\ u.stage = "closing" /\ u.op = t.op
              /\ u.handle = t.handle /\ u.loop = t.loop
            BY <1>3, <3>1, <3>2 DEF Tasks
        <3>4. Puts(tasks, c, u, tasks') /\ queue' = q
            BY <1>2, <1>4, <2>2, <2>5, <3>1 DEF CloseHere, Puts
        <3> QED
            BY <1>1, <1>2, <1>4, <2>4, <3>2, <3>3, <3>4, JustRests
    <2>6. CASE CloseElsewhere(c, l)
        <3>1. PICK o : o = Owner(Client)
            OBVIOUS
        <3>2. /\ s \in Nat /\ t.handle = Client /\ o \in 1..Len(phase)
              /\ o \in Nat /\ s \in 1..Len(home)
            <4>1. s \in open
                BY <2>2, <2>6 DEF CloseElsewhere
            <4>2. s \in 1..Len(home) /\ s \in Nat /\ s # None
                BY <1>1, <1>9, <4>1
            <4>3. o = home[s]
                BY <2>2, <3>1, <4>2 DEF Owner
            <4>4. home[s] \in 1..Len(phase)
                BY <1>1, <4>2 DEF Kept, SessionsOK
            <4> QED
                BY <1>1, <1>2, <2>6, <4>2, <4>3, <4>4 DEF CloseElsewhere
        <3>3. PICK u : u = [t EXCEPT !.stage = "closing", !.at = o,
                                     !.via = s]
            OBVIOUS
        <3>4. /\ u \in Tasks /\ u.stage = "closing" /\ u.op = t.op
              /\ u.handle = t.handle /\ u.loop = t.loop
            BY <1>3, <3>2, <3>3 DEF Tasks
        <3>5. Puts(tasks, c, u, tasks')
            BY <1>2, <2>2, <2>6, <3>1, <3>3 DEF CloseElsewhere, Puts
        <3>6. PICK x : x = Closing(c, s)
            OBVIOUS
        <3>7. x \in Callbacks /\ x.do = "close"
            BY <1>1, <3>2, <3>6, KeptShape DEF Closing, Callbacks
        <3>8. PICK r : r = Append(q[o], x)
            OBVIOUS
        <3>9. r \in Seq(Callbacks) /\ queue' = [q EXCEPT ![o] = r]
            <4>1. q[o] \in Seq(Callbacks)
                BY <1>5, <3>2
            <4> QED
                BY <1>4, <2>2, <2>6, <3>1, <3>6, <3>7, <3>8, <4>1, OneMore
                   DEF CloseElsewhere
        <3>10. Passes(q[o], r) /\ \A m \in 1..Len(q) : Passes(q[m], q[m])
            BY <3>7, <3>8 DEF Passes
        <3>11. /\ Len(queue') = Len(q) /\ queue'[o] = r
               /\ \A m \in 1..Len(q) : m # o => queue'[m] = q[m]
            BY <1>5, <3>2, <3>9, OneChanged
        <3>12. \A m \in 1..Len(q) : Passes(q[m], queue'[m])
            BY <3>10, <3>11
        <3>13. Passed(queue, l, queue')
            BY <1>1, <1>4, <3>11, <3>12, RestPasses
        <3> QED
            BY <1>2, <2>4, <3>2, <3>4, <3>5, <3>13
    <2> QED
        BY <1>11, <2>1, <2>5, <2>6 DEF Close
<1>12. CASE Use(c, l)
    <2>1. CASE Request(c, "request", Rest(l))
        <3>1. PICK stage \in Asking : stage = "request"
            BY DEF Asking
        <3>2. Request(c, stage, q) /\ t.op = "request"
            BY <1>2, <1>4, <1>12, <2>1, <3>1 DEF Use
        <3> QED
            BY <1>8, <3>1, <3>2
    <2>2. CASE End(c, "raised") /\ queue' = Rest(l)
        BY <1>4, <1>6, <1>7, <2>2
    <2> QED
        BY <1>12, <2>1, <2>2 DEF Use
<1> QED
    BY <1>10, <1>11, <1>12

LEMMA StepGoesOn ==
    ASSUME Kept, NEW l \in 1..Len(phase), Step(l)
    PROVE  GoesOnBy(l)
<1>1. PICK c : c = Head(queue[l]).task
    OBVIOUS
<1>2. /\ Holds(l, "step") /\ tasks[c].stage = "ready"
      /\ Connect(c, l) \/ Close(c, l) \/ Use(c, l)
      /\ UNCHANGED <<phase, loopThread, resource, live, callVars>>
    BY <1>1 DEF Step
<1>3. queue[l] # <<>> /\ Head(queue[l]).do = "step"
    BY <1>2 DEF Holds
<1>4. Ready(c, l)
    BY <1>1, <1>2, StepReady
<1>5. /\ Passed(queue, l, queue')
      /\ \E u \in Tasks :
             Puts(tasks, c, u, tasks') /\ GoesOn(tasks[c], u)
    BY <1>2, <1>3, <1>4, FirstGoesOn
<1>6. c \in 1..Len(tasks)
    BY <1>4 DEF Ready
<1> QED
    BY <1>1, <1>2, <1>3, <1>5, <1>6, HeadGoesOn

\* A callback that finds nothing to do.
LEMMA SkipGoesOn ==
    ASSUME Kept, NEW l \in 1..Len(phase), queue[l] # <<>>,
           Head(queue[l]).do \in {"step", "cancel", "request", "close"},
           Head(queue[l]).do = "cancel" =>
               tasks[Head(queue[l]).task].stage \in Handed \cup Ended,
           queue' = Rest(l), tasks' = tasks,
           UNCHANGED <<phase, loopThread, live, callVars>>
    PROVE  GoesOnBy(l)
<1>1. Passed(queue, l, queue')
    BY JustRests
<1>2. Advanced(queue, l, tasks, tasks')
    <2>1. PICK T : T = tasks
        OBVIOUS
    <2>2. PICK q : q = queue
        OBVIOUS
    <2>3. /\ T \in Seq(Tasks)
          /\ l # 0 => /\ Head(q[l]).do \notin {"start", "stop"}
                      /\ \A c \in 1..Len(T) :
                             Is(Head(q[l]), "cancel", c) =>
                                 T[c].stage \in Handed \cup Ended
        BY <2>1, <2>2, KeptShape DEF Is
    <2>4. Advanced(q, l, T, T)
        BY <2>3, NothingAdvances
    <2> QED
        BY <2>1, <2>2, <2>4
<1> QED
    BY <1>1, <1>2 DEF GoesOnBy, callVars

LEMMA SkipStepGoesOn ==
    ASSUME Kept, NEW l \in 1..Len(phase), SkipStep(l)
    PROVE  GoesOnBy(l)
BY SkipGoesOn DEF SkipStep, Holds, fields

LEMMA HeadStage ==
    ASSUME Kept, NEW l \in 1..Len(phase), queue[l] # <<>>,
           Head(queue[l]).do # "stop", NEW c, c = Head(queue[l]).task
    PROVE  /\ c \in 1..Len(tasks) /\ tasks[c] \in Tasks
           /\ tasks[c].stage \in Handed \cup {"ready"} \cup Asking
                                   \cup {"closing"} \cup Ended
           /\ TaskFits(tasks[c], Len(phase), home)
           /\ CallbackFits(l, Head(queue[l]), tasks, home)
BY HeadFits DEF Tasks

LEMMA CancelGoesOn ==
    ASSUME Kept, NEW l \in 1..Len(phase), Cancel(l)
    PROVE  GoesOnBy(l)
<1>1. PICK c : c = Head(queue[l]).task
    OBVIOUS
<1>2. /\ queue[l] # <<>> /\ Head(queue[l]).do = "cancel"
      /\ queue' = Rest(l)
      /\ UNCHANGED <<phase, loopThread, live, callVars>>
    BY DEF Cancel, Holds, fields
<1>3. /\ c \in 1..Len(tasks)
      /\ tasks[c].stage \in Handed \cup {"ready"} \cup Asking
                              \cup {"closing"} \cup Ended
    BY <1>1, <1>2, HeadStage
<1>4. CASE Pending(c)
    <2>1. End(c, "cancelled") /\ "cancelled" \in Ended
        BY <1>1, <1>4 DEF Cancel, Ended
    <2>2. tasks[c].stage \notin Handed
        BY <1>4 DEF Pending, Handed
    <2>3. \E u \in Tasks : /\ Puts(tasks, c, u, tasks')
                           /\ GoesOn(tasks[c], u) /\ u.stage \in Ended
        BY <1>3, <2>1, <2>2, EndsOn
    <2>4. Passed(queue, l, queue')
        BY <1>2, JustRests
    <2> QED
        BY <1>1, <1>2, <1>3, <2>3, <2>4, HeadGoesOn
<1>5. CASE ~Pending(c)
    <2>1. tasks' = tasks
        BY <1>1, <1>5 DEF Cancel
    <2>2. tasks[c].stage \in Handed \cup Ended
        BY <1>3, <1>5 DEF Pending, Asking
    <2> QED
        BY <1>1, <1>2, <2>1, <2>2, SkipGoesOn
<1> QED
    BY <1>4, <1>5

LEMMA ForwardedRequestGoesOn ==
    ASSUME Kept, NEW l \in 1..Len(phase), ForwardedRequest(l)
    PROVE  GoesOnBy(l)
<1>1. PICK c : c = Head(queue[l]).task
    OBVIOUS
<1>2. /\ queue[l] # <<>> /\ Head(queue[l]).do = "request"
      /\ queue' = Rest(l)
      /\ UNCHANGED <<phase, loopThread, live, callVars>>
    BY DEF ForwardedRequest, Holds, fields
<1>3. /\ c \in 1..Len(tasks) /\ tasks[c] \in Tasks
      /\ tasks[c].stage \in Ended \cup Asking
      /\ Len(home) \in Nat /\ l \in Nat
    BY <1>1, <1>2, HeadStage, KeptShape DEF CallbackFits
<1>4. CASE Pending(c)
    <2>1. PICK t : t = tasks[c]
        OBVIOUS
    <2>2. /\ t \in Tasks /\ t.stage \in Asking
          /\ t.stage \notin Handed \cup Ended \cup {"ready"}
        BY <1>3, <1>4, <2>1 DEF Pending, Asking, Handed, Ended
    <2>3. PICK s : s = session[t.handle]
        OBVIOUS
    <2>4. tasks' = [tasks EXCEPT ![c] = Sent(t, t.stage, l)]
        BY <1>1, <1>4, <2>1 DEF ForwardedRequest
    <2>5. \E u \in Tasks : Puts(tasks, c, u, tasks') /\ GoesOn(tasks[c], u)
        <3>1. CASE s \in open
            <4>1. PICK u : u = [t EXCEPT !.stage = t.stage, !.at = l,
                                         !.sent = TRUE, !.via = s]
                OBVIOUS
            <4>2. s \in Nat
                BY <3>1, KeptShape DEF Kept, SessionsOK
            <4>3. /\ u \in Tasks /\ u.stage = t.stage /\ u.op = t.op
                  /\ u.handle = t.handle /\ u.loop = t.loop
                BY <1>3, <2>2, <4>1, <4>2 DEF Tasks
            <4>4. GoesOn(t, u)
                BY <2>2, <4>3 DEF GoesOn, Kind
            <4>5. Puts(tasks, c, u, tasks')
                BY <2>3, <2>4, <3>1, <4>1 DEF Sent, Puts
            <4> QED
                BY <2>1, <4>3, <4>4, <4>5
        <3>2. CASE s \notin open
            <4>1. End(c, "raised") /\ "raised" \in Ended
                BY <2>3, <2>4, <3>2 DEF Sent, End, Ended
            <4> QED
                BY <1>3, <2>1, <2>2, <4>1, EndsOn
        <3> QED
            BY <3>1, <3>2
    <2>6. Passed(queue, l, queue')
        BY <1>2, JustRests
    <2>7. tasks[c].stage # "ready"
        BY <2>1, <2>2
    <2> QED
        BY <1>1, <1>2, <1>3, <2>5, <2>6, <2>7, HeadGoesOn
<1>5. CASE ~Pending(c)
    <2>1. tasks' = tasks
        BY <1>1, <1>5 DEF ForwardedRequest
    <2> QED
        BY <1>2, <2>1, SkipGoesOn
<1> QED
    BY <1>4, <1>5

LEMMA ForwardedCloseGoesOn ==
    ASSUME Kept, NEW l \in 1..Len(phase), ForwardedClose(l)
    PROVE  GoesOnBy(l)
<1>1. PICK c : c = Head(queue[l]).task
    OBVIOUS
<1>2. /\ queue[l] # <<>> /\ Head(queue[l]).do = "close"
      /\ queue' = Rest(l)
      /\ UNCHANGED <<phase, loopThread, live, callVars>>
    BY DEF ForwardedClose, Holds, fields
<1>3. /\ c \in 1..Len(tasks) /\ tasks[c] \in Tasks
      /\ tasks[c].stage \in Ended \cup {"closing"}
    BY <1>1, <1>2, HeadStage DEF CallbackFits
<1>4. CASE Pending(c)
    <2>1. PICK t : t = tasks[c]
        OBVIOUS
    <2>2. t \in Tasks /\ t.stage = "closing"
          /\ t.stage \notin Handed \cup Ended
        BY <1>3, <1>4, <2>1 DEF Pending, Handed, Ended
    <2>3. PICK u : u = [t EXCEPT !.sent = TRUE]
        OBVIOUS
    <2>4. /\ u \in Tasks /\ u.stage = t.stage /\ u.op = t.op
          /\ u.handle = t.handle /\ u.loop = t.loop
        BY <2>2, <2>3 DEF Tasks
    <2>5. GoesOn(t, u)
        BY <2>2, <2>4 DEF GoesOn, Kind
    <2>6. Puts(tasks, c, u, tasks')
        BY <1>1, <1>4, <2>1, <2>3 DEF ForwardedClose, Puts
    <2>7. Passed(queue, l, queue') /\ tasks[c].stage # "ready"
        BY <1>2, <2>1, <2>2, JustRests
    <2> QED
        BY <1>1, <1>2, <1>3, <2>1, <2>4, <2>5, <2>6, <2>7, HeadGoesOn
<1>5. CASE ~Pending(c)
    <2>1. tasks' = tasks
        BY <1>1, <1>5 DEF ForwardedClose
    <2> QED
        BY <1>2, <2>1, SkipGoesOn
<1> QED
    BY <1>4, <1>5

\* A coroutine goes on when it is answered, or is cancelled in its cell.
LEMMA OtherGoesOn ==
    ASSUME Kept, NEW c \in 1..Len(tasks),
           \E u \in Tasks :
               /\ Puts(tasks, c, u, tasks') /\ GoesOn(tasks[c], u)
               /\ tasks[c].stage = "ready" =>
                      u.stage \in Ended /\ tasks[c].op # "aclose",
           Len(queue') = Len(queue),
           \A m \in 1..Len(queue) : Passes(queue[m], queue'[m]),
           UNCHANGED <<phase, loopThread, live, callVars>>
    PROVE  GoesOnBy(0)
<1>1. Passed(queue, 0, queue')
    BY NoneTaken
<1>2. PICK u \in Tasks :
          /\ Puts(tasks, c, u, tasks') /\ GoesOn(tasks[c], u)
          /\ tasks[c].stage = "ready" =>
                 u.stage \in Ended /\ tasks[c].op # "aclose"
    OBVIOUS
<1>3. PICK T : T = tasks
    OBVIOUS
<1>4. PICK U : U = tasks'
    OBVIOUS
<1>5. PICK l : l = 0
    OBVIOUS
<1>6. /\ T \in Seq(Tasks) /\ c \in 1..Len(T) /\ GoesOn(T[c], u)
      /\ Puts(T, c, u, U)
      /\ l # 0 => \/ Head(queue[l]).do \in {"step", "request", "close"}
                  \/ Is(Head(queue[l]), "cancel", c) /\ u.stage \in Ended
      /\ T[c].stage = "ready" =>
           \/ l # 0 /\ Is(Head(queue[l]), "step", c)
           \/ /\ u.stage \in Ended
              /\ \/ T[c].op # "aclose"
                 \/ l # 0 /\ Is(Head(queue[l]), "cancel", c)
    BY <1>2, <1>3, <1>4, <1>5, KeptShape
<1>7. Advanced(queue, l, T, U)
    BY <1>6, OneAdvances
<1> QED
    BY <1>1, <1>3, <1>4, <1>5, <1>7 DEF GoesOnBy, callVars

LEMMA NetworkGoesOn ==
    ASSUME Kept, NEW c \in DOMAIN tasks, Network(c)
    PROVE  GoesOnBy(0)
<1>1. Answered(c)
    BY DEF Network, Authenticate, FindResource, Serve, Refuse, FinishClosing
<1>2. /\ c \in 1..Len(tasks) /\ tasks[c].stage \notin Handed
      /\ queue \in Seq(Seq(Callbacks)) /\ Len(queue) = Len(phase)
    BY <1>1, AnsweredTask DEF QueueFits
<1>3. tasks[c].stage # "ready"
    BY DEF Network, Authenticate, FindResource, Serve, Refuse, FinishClosing
<1>4. CASE Authenticate(c)
    <2>1. PICK stage \in Asking : stage = "resource"
        BY DEF Asking
    <2>2. PICK q : q = queue
        OBVIOUS
    <2>3. /\ Request(c, stage, q) /\ tasks[c].stage = "auth"
          /\ UNCHANGED <<phase, loopThread, live, callVars>>
        BY <1>4, <2>1, <2>2 DEF Authenticate
    <2>4. /\ tasks[c].stage \in Asking \cup {"ready"}
          /\ IF stage = "request" THEN tasks[c].op = "request"
             ELSE Kind(tasks[c]) => tasks[c].op = "connect"
        BY <2>1, <2>3 DEF Kind, Asking, Ended
    <2>5. /\ Len(queue') = Len(q)
          /\ \A m \in 1..Len(q) : Passes(q[m], queue'[m])
          /\ \E u \in Tasks : /\ Puts(tasks, c, u, tasks')
                              /\ GoesOn(tasks[c], u)
        BY <1>2, <2>2, <2>3, <2>4, RequestGoesOn
    <2> QED
        BY <1>2, <1>3, <2>2, <2>3, <2>5, OtherGoesOn
<1>5. CASE FindResource(c) \/ Serve(c) \/ Refuse(c) \/ FinishClosing(c)
    <2>1. /\ End(c, "returned") \/ End(c, "raised")
          /\ queue' = queue
          /\ UNCHANGED <<phase, loopThread, live, callVars>>
        BY <1>5 DEF FindResource, Serve, Refuse, FinishClosing, loopVars,
                    fields
    <2>2. "returned" \in Ended /\ "raised" \in Ended
        BY DEF Ended
    <2>3. \E u \in Tasks : Puts(tasks, c, u, tasks') /\ GoesOn(tasks[c], u)
        BY <1>2, <2>1, <2>2, EndsOn
    <2>4. \A m \in 1..Len(queue) : Passes(queue[m], queue'[m])
        BY <2>1 DEF Passes
    <2> QED
        BY <1>2, <1>3, <2>1, <2>3, <2>4, OtherGoesOn
<1> QED
    BY <1>4, <1>5 DEF Network

LEMMA CancelCellGoesOn ==
    ASSUME Kept, NEW a \in Cells, CancelCell(a)
    PROVE  GoesOnBy(0)
<1>1. PICK c : c = call[a].task
    OBVIOUS
<1>2. /\ Pending(c) /\ tasks[c].op # "aclose" /\ End(c, "cancelled")
      /\ At(a, "await")
      /\ queue' = queue /\ UNCHANGED <<phase, loopThread, live, callVars>>
    BY <1>1 DEF CancelCell, loopVars, fields
<1>3. c \in 1..Len(tasks)
    <2>1. CallFits(call[a], Len(phase), tasks)
        BY CallShape DEF Callers
    <2>2. c \in 0..Len(tasks) /\ c # 0
        BY <1>1, <1>2, <2>1 DEF CallFits, At
    <2> QED
        BY <2>2, KeptShape
<1>4. tasks[c].stage \notin Handed /\ "cancelled" \in Ended
    BY <1>2 DEF Pending, Handed, Ended
<1>5. \E u \in Tasks : /\ Puts(tasks, c, u, tasks')
                       /\ GoesOn(tasks[c], u) /\ u.stage \in Ended
    BY <1>2, <1>3, <1>4, EndsOn
<1>6. \A m \in 1..Len(queue) : Passes(queue[m], queue'[m])
    BY <1>2 DEF Passes
<1> QED
    BY <1>2, <1>3, <1>5, <1>6, OtherGoesOn

LEMMA GoingOn ==
    ASSUME Kept, GoOnStep
    PROVE  \E l \in 0..Len(phase) : GoesOnBy(l)
<1>1. /\ \A l \in DOMAIN phase : l \in 1..Len(phase) /\ l \in 0..Len(phase)
      /\ 0 \in 0..Len(phase)
    BY KeptShape
<1>2. ASSUME NEW l \in DOMAIN phase, LoopTurn(l)
      PROVE  GoesOnBy(l)
    BY <1>1, <1>2, StepGoesOn, SkipStepGoesOn, CancelGoesOn,
       ForwardedRequestGoesOn, ForwardedCloseGoesOn DEF LoopTurn
<1> QED
    BY <1>1, <1>2, NetworkGoesOn, CancelCellGoesOn DEF GoOnStep

-----------------------------------------------------------------------------
(* Callers that take turns, first part of their invariant: the one call    *)
(* under way, the loop it works with, and which loops run for whom.        *)

CallerFits(k, L, V) ==
    /\ k.pc # "idle" => k.handle \in V \cup {Client}
    /\ k.pc \in {"enter", "create", "submit", "wait"} =>
           k.op \in {"connect", "request", "bind"}
    /\ k.pc \in {"enter", "create", "submit"} => k.loop = None
    /\ k.pc = "create" => k.handle = Client /\ L[Client] = None
    /\ k.pc = "submit" => L[k.handle] # None
    /\ k.pc \in {"wait", "close"} => k.loop # None /\ L[k.handle] = k.loop
    /\ (k.pc = "read" /\ k.loop # None) =>
           k.op = "connect" /\ L[k.handle] = k.loop
    /\ k.pc \in {"closing", "stop", "join"} =>
           /\ k.loop \notin {App, None}
           /\ k.handle = Client => L[Client] = None
    /\ k.pc \in {"stop", "join"} => k.handle = Client
    /\ k.pc \in {"await", "unwind"} => k.loop = App
    /\ k.pc = "await" => k.op \in {"connect", "request", "aclose"}
    /\ k.pc = "unwind" => k.op = "connect"

\* close() of the client is about to end loop `l'.
Ends(k, l) ==
    /\ k.handle = Client /\ k.loop = l
    /\ k.pc \in {"closing", "stop", "join"}

Joins(k, l) == k.pc = "join" /\ k.loop = l

LoopFits(l, p, s, L, K) ==
    /\ l = App => p = "running"
    /\ L[Client] = l => p = "running"
    /\ l # App => \/ p = "closed" \/ L[Client] = l
                  \/ \E a \in Callers : Ends(K[a], l)
    /\ (p \notin {"running", "closed"} \/ Does(s, "stop")) =>
           \E a \in Callers : Joins(K[a], l)
    /\ p = "closed" => ~Does(s, "stop")

TurnsOK ==
    /\ \A a, b \in Callers : ~At(a, "idle") /\ ~At(b, "idle") => a = b
    /\ \A a \in Callers : CallerFits(call[a], loopThread, live)
    /\ \A l \in 1..Len(phase) :
           LoopFits(l, phase[l], queue[l], loopThread, call)

\* The call of `a' becomes `k'.
Becomes(a, k) == call' = [call EXCEPT ![a] = k]

SameCall(k, c) ==
    k.op = c.op /\ k.handle = c.handle /\ k.task = c.task /\ k.loop = c.loop

Alone(a) == \A b \in Callers : b # a => At(b, "idle")

LEMMA BecomesIs ==
    ASSUME Kept, NEW a \in Callers, NEW k, Becomes(a, k)
    PROVE  call'[a] = k /\ \A b \in Callers : b # a => call'[b] = call[b]
BY DEF Becomes, Kept, CallsOK

LEMMA GoToIs ==
    ASSUME Kept, NEW a \in Callers, NEW pc, GoTo(a, pc)
    PROVE  \E k : Becomes(a, k) /\ k.pc = pc /\ SameCall(k, call[a])
<1>1. PICK c : c = call[a]
    OBVIOUS
<1>2. PICK k : k = [c EXCEPT !.pc = pc]
    OBVIOUS
<1>3. c \in CallRecords
    BY <1>1, CallShape
<1>4. k.pc = pc /\ SameCall(k, c)
    BY <1>2, <1>3 DEF CallRecords, SameCall
<1> QED
    BY <1>1, <1>2, <1>4 DEF GoTo, Becomes

LEMMA ReturnIs ==
    ASSUME NEW a, Return(a)
    PROVE  \E k : Becomes(a, k) /\ k.pc = "idle" /\ k.loop = None
<1>1. PICK k : k = NoCall
    OBVIOUS
<1>2. k.pc = "idle" /\ k.loop = None
    BY <1>1 DEF NoCall
<1> QED
    BY <1>1, <1>2 DEF Return, Becomes

LEMMA FailIs ==
    ASSUME Kept, NEW a \in Callers, Fail(a)
    PROVE  \E k : /\ Becomes(a, k)
                  /\ \/ k.pc = "idle" /\ k.loop = None
                     \/ /\ k.pc = "read" /\ SameCall(k, call[a])
                        /\ k.op = "connect"
<1>1. CASE call[a].op = "connect" /\ GoTo(a, "read")
    <2>1. PICK k : Becomes(a, k) /\ k.pc = "read" /\ SameCall(k, call[a])
        BY <1>1, GoToIs
    <2> QED
        BY <1>1, <2>1 DEF SameCall
<1>2. CASE Return(a)
    BY <1>2, ReturnIs
<1> QED
    BY <1>1, <1>2 DEF Fail

LEMMA AfterCloseIs ==
    ASSUME Kept, NEW a \in Callers, AfterClose(a)
    PROVE  \E k : /\ Becomes(a, k)
                  /\ \/ /\ k.pc = "idle" /\ k.loop = None
                        /\ call[a].handle # Client
                     \/ /\ k.pc = "stop" /\ SameCall(k, call[a])
                        /\ k.handle = Client
<1>1. CASE call[a].handle = Client /\ GoTo(a, "stop")
    BY <1>1, GoToIs DEF SameCall
<1>2. CASE call[a].handle # Client /\ Return(a)
    BY <1>2, ReturnIs
<1> QED
    BY <1>1, <1>2 DEF AfterClose

LEMMA HandOverIs ==
    ASSUME Kept, NEW a \in Callers, NEW op, NEW h, NEW l, NEW pc,
           HandOver(a, op, h, l, pc)
    PROVE  \E k : /\ Becomes(a, k) /\ k.pc = pc /\ k.task = Len(tasks) + 1
                  /\ k.loop = l /\ k.op = call[a].op
                  /\ k.handle = call[a].handle
<1>1. PICK c : c = call[a]
    OBVIOUS
<1>2. PICK n : n = Len(tasks) + 1
    OBVIOUS
<1>3. PICK k : k = [c EXCEPT !.pc = pc, !.task = n, !.loop = l]
    OBVIOUS
<1>4. c \in CallRecords
    BY <1>1, CallShape
<1>5. /\ k.pc = pc /\ k.task = n /\ k.loop = l /\ k.op = c.op
      /\ k.handle = c.handle
    BY <1>3, <1>4 DEF CallRecords
<1> QED
    BY <1>1, <1>2, <1>3, <1>5 DEF HandOver, Becomes

LEMMA CarefulStays ==
    ASSUME [Next]_vars
    PROVE  mishaps' = mishaps /\ (Careful' <=> Careful)
<1>1. CASE UNCHANGED vars
    BY <1>1 DEF vars, Careful, May
<1>2. ASSUME NEW a \in Callers, Proceed(a) \/ UserStep(a)
      PROVE  mishaps' = mishaps
    BY <1>2
       DEF Proceed, UserStep, Enter, CreateLoop, Submit, Finish, ReadLoop,
           SubmitClose, FinishClose, StopLoop, Join, Resume, Call,
           Interrupt, InterruptClose
<1>3. ASSUME NEW a \in Cells, CellStep(a)
      PROVE  mishaps' = mishaps
    BY <1>3 DEF CellStep, Await, CancelCell, callVars
<1>4. ASSUME NEW l, LoopStep(l)
      PROVE  mishaps' = mishaps
    BY <1>4
       DEF LoopStep, Start, Step, SkipStep, Cancel, ForwardedRequest,
           ForwardedClose, Stop, Drain, CloseLoop, callVars
<1>5. ASSUME NEW c, Network(c)
      PROVE  mishaps' = mishaps
    BY <1>5
       DEF Network, Authenticate, FindResource, Serve, Refuse,
           FinishClosing, callVars
<1>6. mishaps' = mishaps
    BY <1>1, <1>2, <1>3, <1>4, <1>5 DEF Next, vars
<1> QED
    BY <1>6 DEF Careful, May

LEMMA LoopsShape ==
    ASSUME Kept
    PROVE  /\ Len(phase) \in Nat /\ None \notin Nat /\ App = 1
           /\ App \in 1..Len(phase)
           /\ queue \in Seq(Seq(Callbacks)) /\ Len(queue) = Len(phase)
           /\ \A h \in Handles :
                  /\ loopThread[h] \in (2..Len(phase)) \cup {None}
                  /\ loopThread[h] # App
           /\ Client \in Handles /\ Client \notin Views
           /\ \A l \in 1..Len(phase) : phase[l] \in Phases
           /\ \A a \in Callers :
                  /\ call[a] \in CallRecords /\ call[a].handle \in Handles
                  /\ call[a].loop \in (1..Len(phase)) \cup {None}
<1>1. /\ Len(phase) \in Nat /\ None \notin Nat /\ App = 1
      /\ phase \in Seq(Phases) /\ App \in 1..Len(phase)
    BY KeptShape DEF App
<1>2. queue \in Seq(Seq(Callbacks)) /\ Len(queue) = Len(phase)
    BY DEF Kept, LoopsOK, QueueFits
<1>3. \A h \in Handles : /\ loopThread[h] \in (2..Len(phase)) \cup {None}
                         /\ loopThread[h] # App
    BY <1>1 DEF Kept, FieldsOK
<1>4. Client \in Handles /\ Client \notin Views
    BY SessionAssumption DEF Handles
<1>5. \A a \in Callers : /\ call[a] \in CallRecords
                         /\ call[a].handle \in Handles
                         /\ call[a].loop \in (1..Len(phase)) \cup {None}
    BY CallShape DEF CallFits
<1> QED
    BY <1>1, <1>2, <1>3, <1>4, <1>5

\* A step that leaves the calls and the loops alone.
LEMMA TurnsStay ==
    ASSUME TurnsOK, UNCHANGED <<call, phase, loopThread, live>>,
           \A l \in 1..Len(phase) :
               Does(queue'[l], "stop") => Does(queue[l], "stop")
    PROVE  TurnsOK'
<1>1. \A a, b \in Callers : ~At(a, "idle")' /\ ~At(b, "idle")' => a = b
    BY DEF TurnsOK, At
<1>2. \A a \in Callers : CallerFits(call[a], loopThread, live)'
    BY DEF TurnsOK
<1>3. \A l \in 1..Len(phase) :
          LoopFits(l, phase[l], queue[l], loopThread, call)'
    BY DEF TurnsOK, LoopFits
<1> QED
    BY <1>1, <1>2, <1>3 DEF TurnsOK

LEMMA TurnsGoOn ==
    ASSUME Kept, TurnsOK, NEW l, GoesOnBy(l)
    PROVE  TurnsOK'
<1>1. \A m \in 1..Len(phase) :
          Does(queue'[m], "stop") => Does(queue[m], "stop")
    <2> SUFFICES ASSUME NEW m \in 1..Len(phase)
                 PROVE  Does(queue'[m], "stop") => Does(queue[m], "stop")
        OBVIOUS
    <2>1. PICK q : q = queue
        OBVIOUS
    <2>2. PICK p : p = queue'
        OBVIOUS
    <2>3. PICK d \in Scheduled : d = "stop"
        BY DEF Scheduled
    <2>4. q \in Seq(Seq(Callbacks)) /\ Passed(q, l, p) /\ m \in 1..Len(q)
        BY <2>1, <2>2, LoopsShape DEF GoesOnBy
    <2>5. /\ Has(p[m], d, 0) => Has(q[m], d, 0)
          /\ Does(p[m], d) => Does(q[m], d)
        BY <2>3, <2>4, PassedKeeps
    <2> QED
        BY <2>1, <2>2, <2>3, <2>5
<1> QED
    BY <1>1, TurnsStay DEF GoesOnBy

\* A step of the call under way, or of a new one.
LEMMA CallTurns ==
    ASSUME Kept, TurnsOK, NEW a \in Callers, Alone(a),
           NEW k, Becomes(a, k), phase' = phase,
           CallerFits(k, loopThread', live'),
           loopThread'[Client] \in {loopThread[Client], None},
           \A l \in 1..Len(phase) :
               /\ (loopThread[Client] = l \/ Ends(call[a], l)) =>
                      \/ Closed(l) \/ loopThread'[Client] = l \/ Ends(k, l)
               /\ Does(queue'[l], "stop") =>
                      \/ Does(queue[l], "stop")
                      \/ Joins(k, l) /\ ~Closed(l)
               /\ Joins(call[a], l) => Closed(l) \/ Joins(k, l)
    PROVE  TurnsOK'
<1>1. call'[a] = k /\ \A b \in Callers : b # a => call'[b] = call[b]
    BY BecomesIs
<1>2. \A b \in Callers : b # a => call[b].pc = "idle"
    BY DEF Alone, At
<1>3. \A b, c \in Callers : ~At(b, "idle")' /\ ~At(c, "idle")' => b = c
    BY <1>1, <1>2 DEF At
<1>4. \A b \in Callers : CallerFits(call[b], loopThread, live)'
    <2>1. ASSUME NEW b \in Callers, b # a
          PROVE  CallerFits(call'[b], loopThread', live')
        <3>1. PICK i : i = call'[b]
            OBVIOUS
        <3>2. i.pc = "idle"
            BY <1>1, <1>2, <2>1, <3>1
        <3>3. CallerFits(i, loopThread', live')
            <4>1. PICK L : L = loopThread'
                OBVIOUS
            <4>2. PICK V : V = live'
                OBVIOUS
            <4>3. CallerFits(i, L, V)
                <5>1. i.loop = None \/ i.loop # None
                    OBVIOUS
                <5> QED
                    BY <3>2 DEF CallerFits
            <4> QED
                BY <4>1, <4>2, <4>3
        <3> QED
            BY <3>1, <3>3
    <2> QED
        BY <1>1, <2>1
<1>5. ASSUME NEW l \in 1..Len(phase)
      PROVE  LoopFits(l, phase'[l], queue'[l], loopThread', call')
    <2>1. LoopFits(l, phase[l], queue[l], loopThread, call)
        BY DEF TurnsOK
    <2>2. \A b \in Callers : b # a => ~Ends(call[b], l) /\ ~Joins(call[b], l)
        BY <1>2 DEF Ends, Joins
    <2>3. l = App => phase[l] = "running"
        BY <2>1 DEF LoopFits
    <2>4. loopThread'[Client] = l => phase[l] = "running"
        BY <2>1, LoopsShape DEF LoopFits
    <2>5. l # App => \/ Closed(l) \/ loopThread'[Client] = l
                     \/ Ends(call'[a], l)
        BY <1>1, <2>1, <2>2 DEF LoopFits, Closed
    <2>6. \/ phase[l] \notin {"running", "closed"}
          \/ Does(queue'[l], "stop")
          => Joins(call'[a], l)
        BY <1>1, <2>1, <2>2 DEF LoopFits, Closed
    <2>7. Closed(l) => ~Does(queue'[l], "stop")
        BY <2>1 DEF LoopFits, Closed
    <2> QED
        BY <2>3, <2>4, <2>5, <2>6, <2>7 DEF LoopFits, Closed
<1> QED
    BY <1>3, <1>4, <1>5 DEF TurnsOK

\* A step of the call under way that changes it and, maybe, adds callbacks.
LEMMA CallOnlyTurns ==
    ASSUME Kept, TurnsOK, NEW a \in Callers, Alone(a),
           NEW k, Becomes(a, k), UNCHANGED <<phase, loopThread, live>>,
           CallerFits(k, loopThread, live),
           \A l \in 1..Len(phase) :
               /\ Ends(call[a], l) => Closed(l) \/ Ends(k, l)
               /\ Does(queue'[l], "stop") => Does(queue[l], "stop")
               /\ Joins(call[a], l) => Closed(l) \/ Joins(k, l)
    PROVE  TurnsOK'
<1>1. CallerFits(k, loopThread', live')
    <2>1. loopThread' = loopThread /\ live' = live
        OBVIOUS
    <2> QED
        BY <2>1
<1>2. loopThread'[Client] \in {loopThread[Client], None} /\ phase' = phase
    OBVIOUS
<1>3. \A l \in 1..Len(phase) :
          /\ (loopThread[Client] = l \/ Ends(call[a], l)) =>
                 \/ Closed(l) \/ loopThread'[Client] = l \/ Ends(k, l)
          /\ Does(queue'[l], "stop") =>
                 \/ Does(queue[l], "stop")
                 \/ Joins(k, l) /\ ~Closed(l)
          /\ Joins(call[a], l) => Closed(l) \/ Joins(k, l)
    OBVIOUS
<1> QED
    BY <1>1, <1>2, <1>3, CallTurns

LEMMA UnderWay ==
    ASSUME TurnsOK, NEW a \in Callers, ~At(a, "idle")
    PROVE  Alone(a) /\ CallerFits(call[a], loopThread, live)
BY DEF TurnsOK, Alone

\* The call is one that does not end a loop, before or after.
LEMMA PlainTurns ==
    ASSUME Kept, TurnsOK, NEW a \in Callers, Alone(a),
           NEW k, Becomes(a, k), UNCHANGED <<phase, loopThread, live>>,
           CallerFits(k, loopThread, live),
           call[a].pc \notin {"closing", "stop", "join"},
           \A l \in 1..Len(phase) :
               Does(queue'[l], "stop") => Does(queue[l], "stop")
    PROVE  TurnsOK'
<1>1. \A l \in 1..Len(phase) : ~Ends(call[a], l) /\ ~Joins(call[a], l)
    BY DEF Ends, Joins
<1> QED
    BY <1>1, CallOnlyTurns

\* One callback more, that does not stop a loop.
LEMMA NoStopMore ==
    ASSUME Kept, NEW l \in 1..Len(phase), NEW x \in Callbacks,
           x.do # "stop", queue' = [queue EXCEPT ![l] = Append(@, x)]
    PROVE  \A m \in 1..Len(phase) :
               Does(queue'[m], "stop") => Does(queue[m], "stop")
<1>1. queue \in Seq(Seq(Callbacks)) /\ Len(queue) = Len(phase)
    BY LoopsShape
<1>2. PICK s : s = queue[l]
    OBVIOUS
<1>3. PICK r : r = Append(s, x)
    OBVIOUS
<1>4. s \in Seq(Callbacks) /\ r \in Seq(Callbacks)
    <2>1. s \in Seq(Callbacks)
        BY <1>1, <1>2
    <2> QED
        BY <1>3, <2>1, OneMore
<1>5. queue'[l] = r /\ \A m \in 1..Len(phase) : m # l => queue'[m] = queue[m]
    <2>1. queue' = [queue EXCEPT ![l] = r]
        BY <1>2, <1>3
    <2> QED
        BY <1>1, <1>4, <2>1, OneChanged
<1>6. Does(r, "stop") => Does(s, "stop")
    <2>1. PICK d : d = "stop"
        OBVIOUS
    <2>2. /\ Has(Append(s, x), d, 0) <=> Has(s, d, 0) \/ Is(x, d, 0)
          /\ Does(Append(s, x), d) => Does(s, d) \/ x.do = d
        BY <1>4, AppendHas
    <2> QED
        BY <1>3, <2>1, <2>2
<1> QED
    BY <1>2, <1>5, <1>6

LEMMA IdleFits ==
    ASSUME NEW k, k.pc = "idle", k.loop = None, NEW L, NEW V
    PROVE  CallerFits(k, L, V)
BY DEF CallerFits

LEMMA CallsTurn ==
    ASSUME Kept, TurnsOK, Careful, NEW a \in Callers,
           NEW op \in {"connect", "request", "bind", "close"},
           NEW h \in Handles, Call(a, op, h)
    PROVE  TurnsOK'
<1>1. Alone(a) /\ At(a, "idle") /\ h \in live \cup {Client}
    BY DEF Call, Called, MayCall, Careful, Alone
<1>2. PICK k : k = [pc |-> IF op = "close" THEN "read" ELSE "enter",
                    op |-> op, handle |-> h, task |-> 0, loop |-> None]
    OBVIOUS
<1>3. Becomes(a, k)
    BY <1>2 DEF Call, Called, Becomes
<1>4. /\ k.pc = IF op = "close" THEN "read" ELSE "enter"
      /\ k.op = op /\ k.handle = h /\ k.loop = None
    BY <1>2
<1>5. CallerFits(k, loopThread, live)
    BY <1>1, <1>4 DEF CallerFits
<1>6. UNCHANGED <<phase, queue, loopThread, live>>
    BY DEF Call, loopVars, fields
<1>7. call[a].pc \notin {"closing", "stop", "join"}
    BY <1>1 DEF At
<1> QED
    BY <1>1, <1>3, <1>5, <1>6, <1>7, PlainTurns

\* Back to idle, or, if connect() failed, on to close().
LEMMA FailsTurn ==
    ASSUME Kept, TurnsOK, NEW a \in Callers, Alone(a),
           call[a].pc \in {"enter", "submit", "wait"}, Fail(a),
           UNCHANGED <<phase, loopThread, live>>,
           \A l \in 1..Len(phase) :
               Does(queue'[l], "stop") => Does(queue[l], "stop")
    PROVE  TurnsOK'
<1>1. PICK k : /\ Becomes(a, k)
               /\ \/ k.pc = "idle" /\ k.loop = None
                  \/ /\ k.pc = "read" /\ SameCall(k, call[a])
                     /\ k.op = "connect"
    BY FailIs
<1>2. CallerFits(call[a], loopThread, live)
    BY DEF TurnsOK
<1>3. CallerFits(k, loopThread, live)
    BY <1>1, <1>2, IdleFits DEF CallerFits, SameCall
<1> QED
    BY <1>1, <1>3, PlainTurns

LEMMA EnterTurns ==
    ASSUME Kept, TurnsOK, NEW a \in Callers, Enter(a)
    PROVE  TurnsOK'
<1>1. PICK c : c = call[a]
    OBVIOUS
<1>2. /\ c.pc = "enter" /\ ~At(a, "idle")
      /\ UNCHANGED <<phase, queue, loopThread, live>>
    BY <1>1 DEF Enter, At, loopVars, fields
<1>3. Alone(a) /\ CallerFits(c, loopThread, live)
    BY <1>1, <1>2, UnderWay
<1>4. ASSUME NEW pc \in {"submit", "create"}, GoTo(a, pc),
             pc = "submit" => loopThread[c.handle] # None,
             pc = "create" => c.handle = Client /\ loopThread[Client] = None
      PROVE  TurnsOK'
    <2>1. PICK k : Becomes(a, k) /\ k.pc = pc /\ SameCall(k, c)
        BY <1>1, <1>4, GoToIs
    <2>2. CallerFits(k, loopThread, live)
        BY <1>2, <1>3, <1>4, <2>1 DEF CallerFits, SameCall
    <2> QED
        BY <1>1, <1>2, <1>3, <2>1, <2>2, PlainTurns
<1>5. CASE Fail(a)
    BY <1>1, <1>2, <1>3, <1>5, FailsTurn
<1>6. CASE GoTo(a, "submit") /\ loopThread[c.handle] # None
    BY <1>4, <1>6
<1>7. CASE /\ GoTo(a, "create") /\ c.handle = Client
           /\ loopThread[c.handle] = None
    BY <1>4, <1>7
<1> QED
    BY <1>1, <1>5, <1>6, <1>7 DEF Enter

LEMMA SubmitTurns ==
    ASSUME Kept, TurnsOK, NEW a \in Callers, Submit(a)
    PROVE  TurnsOK'
<1>1. PICK c : c = call[a]
    OBVIOUS
<1>2. /\ c.pc = "submit" /\ ~At(a, "idle")
      /\ UNCHANGED <<phase, loopThread, live>>
    BY <1>1 DEF Submit, At, fields
<1>3. Alone(a) /\ CallerFits(c, loopThread, live)
    BY <1>1, <1>2, UnderWay
<1>4. PICK l : l = loopThread[c.handle]
    OBVIOUS
<1>5. CASE Fail(a) /\ UNCHANGED <<queue, tasks>>
    BY <1>1, <1>2, <1>3, <1>5, FailsTurn
<1>6. CASE Alive(l) /\ HandOver(a, Coroutine(c.op), c.handle, l, "wait")
    <2>1. l \in 1..Len(phase) /\ l # None
        BY <1>1, <1>4, <1>6, LoopsShape DEF Alive
    <2>2. PICK k : /\ Becomes(a, k) /\ k.pc = "wait" /\ k.loop = l
                   /\ k.op = c.op /\ k.handle = c.handle
        BY <1>1, <1>6, HandOverIs
    <2>3. CallerFits(k, loopThread, live)
        BY <1>2, <1>3, <1>4, <2>1, <2>2 DEF CallerFits
    <2>4. PICK x : x = Callback("start", Len(tasks) + 1)
        OBVIOUS
    <2>5. x \in Callbacks /\ x.do # "stop"
        BY <2>4, KeptShape DEF Callback, Callbacks
    <2>6. queue' = [queue EXCEPT ![l] = Append(@, x)]
        BY <1>6, <2>4 DEF HandOver
    <2>7. \A m \in 1..Len(phase) :
              Does(queue'[m], "stop") => Does(queue[m], "stop")
        BY <2>1, <2>5, <2>6, NoStopMore
    <2> QED
        BY <1>1, <1>2, <1>3, <2>2, <2>3, <2>7, PlainTurns
<1> QED
    BY <1>1, <1>4, <1>5, <1>6 DEF Submit

LEMMA FinishTurns ==
    ASSUME Kept, TurnsOK, NEW a \in Callers, Finish(a)
    PROVE  TurnsOK'
<1>1. /\ call[a].pc = "wait" /\ ~At(a, "idle")
      /\ UNCHANGED <<phase, queue>>
    BY DEF Finish, At, loopVars
<1>2. Alone(a)
    BY <1>1, UnderWay
<1>3. CASE Return(a) /\ UNCHANGED fields
    <2>1. PICK k : Becomes(a, k) /\ k.pc = "idle" /\ k.loop = None
        BY <1>3, ReturnIs
    <2> QED
        BY <1>1, <1>2, <1>3, <2>1, IdleFits, PlainTurns DEF fields
<1>4. CASE Fail(a) /\ UNCHANGED fields
    BY <1>1, <1>2, <1>4, FailsTurn DEF fields
<1>5. CASE Return(a) /\ \E v \in Views \ live : Copy(call[a].handle, v)
    <2>1. PICK v \in Views \ live : Copy(call[a].handle, v)
        BY <1>5
    <2>2. loopThread'[Client] = loopThread[Client]
        <3>1. v # Client /\ Client \in Handles
            BY LoopsShape
        <3> QED
            BY <2>1, <3>1 DEF Copy, Kept, FieldsOK
    <2>3. PICK k : Becomes(a, k) /\ k.pc = "idle" /\ k.loop = None
        BY <1>5, ReturnIs
    <2>4. CallerFits(k, loopThread', live')
        BY <2>3, IdleFits
    <2>5. \A l \in 1..Len(phase) : ~Ends(call[a], l) /\ ~Joins(call[a], l)
        BY <1>1 DEF Ends, Joins
    <2> QED
        BY <1>1, <1>2, <2>2, <2>3, <2>4, <2>5, CallTurns
<1> QED
    BY <1>3, <1>4, <1>5 DEF Finish

LEMMA InterruptTurns ==
    ASSUME Kept, TurnsOK, NEW a \in Callers, Interrupt(a)
    PROVE  TurnsOK'
<1>1. PICK c : c = call[a].task
    OBVIOUS
<1>2. /\ call[a].pc = "wait" /\ ~At(a, "idle") /\ GiveUp(c) /\ Fail(a)
      /\ UNCHANGED <<phase, loopThread, live>>
    BY <1>1 DEF Interrupt, At, fields
<1>3. c \in 1..Len(tasks) /\ tasks[c] \in Tasks
      /\ tasks[c].loop \in 1..Len(phase)
    <2>1. c \in 0..Len(tasks) /\ c # 0
        BY <1>1, <1>2, CallShape DEF CallFits
    <2>2. c \in 1..Len(tasks)
        BY <2>1, KeptShape
    <2> QED
        BY <2>2 DEF Kept, TasksOK, TaskFits
<1>4. \A l \in 1..Len(phase) :
          Does(queue'[l], "stop") => Does(queue[l], "stop")
    <2>1. CASE queue' = queue
        BY <2>1
    <2>2. CASE queue' = [queue EXCEPT ![tasks[c].loop] =
                            Append(@, Callback("cancel", c))]
        <3>1. PICK x : x = Callback("cancel", c)
            OBVIOUS
        <3>2. x \in Callbacks /\ x.do # "stop"
            BY <1>3, <3>1 DEF Callback, Callbacks
        <3>3. PICK l : l = tasks[c].loop
            OBVIOUS
        <3>4. l \in 1..Len(phase)
              /\ queue' = [queue EXCEPT ![l] = Append(@, x)]
            BY <1>3, <2>2, <3>1, <3>3
        <3> QED
            BY <3>2, <3>4, NoStopMore
    <2> QED
        BY <1>2, <2>1, <2>2 DEF GiveUp
<1>5. Alone(a)
    BY <1>2, UnderWay
<1> QED
    BY <1>2, <1>4, <1>5, FailsTurn

LEMMA ReadLoopTurns ==
    ASSUME Kept, TurnsOK, NEW a \in Callers, ReadLoop(a)
    PROVE  TurnsOK'
<1>1. PICK c : c = call[a]
    OBVIOUS
<1>2. /\ c.pc = "read" /\ ~At(a, "idle")
      /\ UNCHANGED <<phase, queue, loopThread, live>>
    BY <1>1 DEF ReadLoop, At, loopVars, fields
<1>3. Alone(a) /\ CallerFits(c, loopThread, live)
    BY <1>1, <1>2, UnderWay
<1>4. CASE Return(a)
    <2>1. PICK k : Becomes(a, k) /\ k.pc = "idle" /\ k.loop = None
        BY <1>4, ReturnIs
    <2> QED
        BY <1>1, <1>2, <1>3, <2>1, IdleFits, PlainTurns
<1>5. CASE /\ loopThread[c.handle] # None
           /\ call' = [call EXCEPT ![a].pc = "close",
                                   ![a].loop = loopThread[c.handle]]
    <2>1. PICK l : l = loopThread[c.handle]
        OBVIOUS
    <2>2. PICK k : k = [c EXCEPT !.pc = "close", !.loop = l]
        OBVIOUS
    <2>3. c \in CallRecords
        BY <1>1, CallShape
    <2>4. k.pc = "close" /\ k.loop = l /\ k.op = c.op /\ k.handle = c.handle
        BY <2>2, <2>3 DEF CallRecords
    <2>5. Becomes(a, k)
        BY <1>1, <1>5, <2>1, <2>2 DEF Becomes
    <2>6. CallerFits(k, loopThread, live)
        BY <1>2, <1>3, <1>5, <2>1, <2>4 DEF CallerFits
    <2> QED
        BY <1>1, <1>2, <1>3, <2>5, <2>6, PlainTurns
<1> QED
    BY <1>1, <1>4, <1>5 DEF ReadLoop

LEMMA SubmitCloseTurns ==
    ASSUME Kept, TurnsOK, NEW a \in Callers, SubmitClose(a)
    PROVE  TurnsOK'
<1>1. PICK c : c = call[a]
    OBVIOUS
<1>2. PICK l : l = c.loop
    OBVIOUS
<1>3. /\ c.pc = "close" /\ ~At(a, "idle") /\ UNCHANGED <<phase, live>>
      /\ loopThread' = [loopThread EXCEPT ![c.handle] = None]
    BY <1>1 DEF SubmitClose, At
<1>4. Alone(a) /\ CallerFits(c, loopThread, live)
    BY <1>1, <1>3, UnderWay
<1>5. /\ l # None /\ loopThread[c.handle] = l /\ c.handle \in Handles
      /\ l \in 1..Len(phase) /\ l # App /\ Client \in Handles
      /\ c.handle \in live \cup {Client}
    BY <1>1, <1>2, <1>3, <1>4, LoopsShape DEF CallerFits
<1>6. /\ loopThread'[c.handle] = None
      /\ c.handle # Client => loopThread'[Client] = loopThread[Client]
    BY <1>3, <1>5 DEF Kept, FieldsOK
<1>7. \A m \in 1..Len(phase) : ~Ends(c, m) /\ ~Joins(c, m)
    BY <1>3 DEF Ends, Joins
<1>8. loopThread'[Client] \in {loopThread[Client], None}
    BY <1>6
<1>9. CASE ~Closed(l) /\ HandOver(a, "aclose", c.handle, l, "closing")
    <2>1. PICK k : /\ Becomes(a, k) /\ k.pc = "closing" /\ k.loop = l
                   /\ k.op = c.op /\ k.handle = c.handle
        BY <1>1, <1>9, HandOverIs
    <2>2. CallerFits(k, loopThread', live')
        BY <1>3, <1>5, <1>6, <2>1 DEF CallerFits
    <2>3. PICK x : x = Callback("start", Len(tasks) + 1)
        OBVIOUS
    <2>4. x \in Callbacks /\ x.do # "stop"
        BY <2>3, KeptShape DEF Callback, Callbacks
    <2>5. queue' = [queue EXCEPT ![l] = Append(@, x)]
        BY <1>9, <2>3 DEF HandOver
    <2>6. \A m \in 1..Len(phase) :
              Does(queue'[m], "stop") => Does(queue[m], "stop")
        BY <1>5, <2>4, <2>5, NoStopMore
    <2>7. \A m \in 1..Len(phase) :
              loopThread[Client] = m =>
                  loopThread'[Client] = m \/ Ends(k, m)
        BY <1>5, <1>6, <2>1 DEF Ends
    <2> QED
        BY <1>1, <1>3, <1>4, <1>7, <1>8, <2>1, <2>2, <2>6, <2>7, CallTurns
<1>10. CASE Closed(l) /\ AfterClose(a) /\ UNCHANGED <<queue, tasks>>
    <2>1. c.handle # Client
        <3>1. LoopFits(l, phase[l], queue[l], loopThread, call)
            BY <1>5 DEF TurnsOK
        <3> QED
            BY <1>5, <1>10, <3>1 DEF LoopFits, Closed
    <2>2. PICK k : Becomes(a, k) /\ k.pc = "idle" /\ k.loop = None
        BY <1>1, <1>10, <2>1, AfterCloseIs DEF SameCall
    <2>3. CallerFits(k, loopThread', live')
        BY <2>2, IdleFits
    <2> QED
        BY <1>1, <1>3, <1>4, <1>6, <1>7, <1>8, <1>10, <2>1, <2>2, <2>3,
           CallTurns
<1> QED
    BY <1>1, <1>2, <1>9, <1>10 DEF SubmitClose

LEMMA FinishCloseTurns ==
    ASSUME Kept, TurnsOK, NEW a \in Callers, FinishClose(a)
    PROVE  TurnsOK'
<1>1. PICK c : c = call[a]
    OBVIOUS
<1>2. /\ c.pc = "closing" /\ ~At(a, "idle") /\ AfterClose(a)
      /\ UNCHANGED <<phase, queue, loopThread, live>>
    BY <1>1 DEF FinishClose, At, loopVars, fields
<1>3. Alone(a) /\ CallerFits(c, loopThread, live)
    BY <1>1, <1>2, UnderWay
<1>4. PICK k : /\ Becomes(a, k)
               /\ \/ /\ k.pc = "idle" /\ k.loop = None
                     /\ c.handle # Client
                  \/ /\ k.pc = "stop" /\ SameCall(k, c)
                     /\ k.handle = Client
    BY <1>1, <1>2, AfterCloseIs
<1>5. CallerFits(k, loopThread, live)
    <2>1. CASE k.pc = "idle"
        BY <1>4, <2>1, IdleFits
    <2>2. CASE k.pc = "stop"
        BY <1>2, <1>3, <1>4, <2>2 DEF CallerFits, SameCall
    <2> QED
        BY <1>4, <2>1, <2>2
<1>6. \A l \in 1..Len(phase) :
          /\ Ends(c, l) => Ends(k, l)
          /\ ~Joins(c, l)
    BY <1>2, <1>4 DEF Ends, Joins, SameCall
<1> QED
    BY <1>1, <1>2, <1>3, <1>4, <1>5, <1>6, CallOnlyTurns

LEMMA JoinTurns ==
    ASSUME Kept, TurnsOK, NEW a \in Callers, Join(a)
    PROVE  TurnsOK'
<1>1. /\ ~At(a, "idle") /\ Closed(call[a].loop) /\ Return(a)
      /\ UNCHANGED <<phase, queue, loopThread, live>>
    BY DEF Join, At, loopVars, fields
<1>2. Alone(a)
    BY <1>1, UnderWay
<1>3. PICK k : Becomes(a, k) /\ k.pc = "idle" /\ k.loop = None
    BY <1>1, ReturnIs
<1>4. \A l \in 1..Len(phase) :
          (Ends(call[a], l) \/ Joins(call[a], l)) => Closed(l)
    BY <1>1 DEF Ends, Joins
<1> QED
    BY <1>1, <1>2, <1>3, <1>4, IdleFits, CallOnlyTurns

LEMMA StopLoopTurns ==
    ASSUME Kept, TurnsOK, NEW a \in Callers, StopLoop(a)
    PROVE  TurnsOK'
<1>1. PICK c : c = call[a]
    OBVIOUS
<1>2. PICK l : l = c.loop
    OBVIOUS
<1>3. /\ c.pc = "stop" /\ ~At(a, "idle") /\ GoTo(a, "join")
      /\ UNCHANGED <<phase, loopThread, live>>
      /\ queue' = IF Closed(l) THEN queue
                  ELSE [queue EXCEPT ![l] = Append(@, Callback("stop", 0))]
    BY <1>1, <1>2 DEF StopLoop, At, fields
<1>4. Alone(a) /\ CallerFits(c, loopThread, live)
    BY <1>1, <1>3, UnderWay
<1>5. /\ l \in 1..Len(phase) /\ l \notin {App, None} /\ c.handle = Client
      /\ loopThread[Client] = None
    BY <1>1, <1>2, <1>3, <1>4, LoopsShape DEF CallerFits
<1>6. PICK k : Becomes(a, k) /\ k.pc = "join" /\ SameCall(k, c)
    BY <1>1, <1>3, GoToIs
<1>7. CallerFits(k, loopThread', live')
    <2>1. CallerFits(k, loopThread, live)
        BY <1>3, <1>4, <1>6 DEF CallerFits, SameCall
    <2> QED
        BY <1>3, <2>1
<1>8. \A m \in 1..Len(phase) :
          /\ (loopThread[Client] = m \/ Ends(c, m)) =>
                 loopThread'[Client] = m \/ Ends(k, m)
          /\ ~Joins(c, m)
          /\ Joins(k, l)
    BY <1>2, <1>3, <1>6 DEF Ends, Joins, SameCall
<1>9. \A m \in 1..Len(phase) :
          Does(queue'[m], "stop") =>
              Does(queue[m], "stop") \/ (m = l /\ ~Closed(l))
    <2>1. CASE Closed(l)
        BY <1>3, <2>1
    <2>2. CASE ~Closed(l)
        <3>1. queue \in Seq(Seq(Callbacks)) /\ Len(queue) = Len(phase)
            BY LoopsShape
        <3>2. PICK x : x = Callback("stop", 0)
            OBVIOUS
        <3>3. x \in Callbacks
            BY <3>2 DEF Callback, Callbacks
        <3>4. PICK r : r = Append(queue[l], x)
            OBVIOUS
        <3>5. r \in Seq(Callbacks)
            <4>1. queue[l] \in Seq(Callbacks)
                BY <1>5, <3>1
            <4> QED
                BY <3>3, <3>4, <4>1, OneMore
        <3>6. queue' = [queue EXCEPT ![l] = r]
            BY <1>3, <2>2, <3>2, <3>4
        <3>7. \A m \in 1..Len(phase) : m # l => queue'[m] = queue[m]
            BY <1>5, <3>1, <3>5, <3>6, OneChanged
        <3> QED
            BY <2>2, <3>7
    <2> QED
        BY <2>1, <2>2
<1>10. \A m \in 1..Len(phase) :
           /\ (loopThread[Client] = m \/ Ends(call[a], m)) =>
                  \/ Closed(m) \/ loopThread'[Client] = m \/ Ends(k, m)
           /\ Does(queue'[m], "stop") =>
                  \/ Does(queue[m], "stop")
                  \/ Joins(k, m) /\ ~Closed(m)
           /\ Joins(call[a], m) => Closed(m) \/ Joins(k, m)
    BY <1>1, <1>8, <1>9
<1>11. phase' = phase /\ loopThread'[Client] \in {loopThread[Client], None}
    BY <1>3
<1> QED
    BY <1>4, <1>6, <1>7, <1>10, <1>11, CallTurns

LEMMA CreateLoopTurns ==
    ASSUME Kept, TurnsOK, NEW a \in Callers, CreateLoop(a)
    PROVE  TurnsOK'
<1>1. PICK n \in Nat : n = Len(phase)
    BY LoopsShape
<1>2. PICK c : c = call[a]
    OBVIOUS
<1>3. /\ c.pc = "create" /\ ~At(a, "idle") /\ GoTo(a, "submit")
      /\ phase' = Append(phase, "running") /\ queue' = Append(queue, <<>>)
      /\ loopThread' = [loopThread EXCEPT ![Client] = n + 1]
      /\ live' = live
    BY <1>1, <1>2 DEF CreateLoop, At
<1>4. Alone(a) /\ CallerFits(c, loopThread, live)
    BY <1>2, <1>3, UnderWay
<1>5. c.handle = Client /\ loopThread[Client] = None /\ c.loop = None
      /\ c.op \in {"connect", "request", "bind"}
    BY <1>3, <1>4 DEF CallerFits
<1>6. /\ phase \in Seq(Phases) /\ Len(phase') = n + 1
      /\ phase'[n + 1] = "running"
      /\ \A l \in 1..n : phase'[l] = phase[l]
    BY <1>1, <1>3, OneMore DEF Phases, Kept, LoopsOK
<1>7. /\ queue'[n + 1] = <<>> /\ \A l \in 1..n : queue'[l] = queue[l]
    <2>1. PICK s : s = <<>>
        OBVIOUS
    <2>2. /\ queue \in Seq(Seq(Callbacks)) /\ Len(queue) = n
          /\ s \in Seq(Callbacks)
        BY <1>1, <2>1, LoopsShape
    <2>3. queue' = Append(queue, s)
        BY <1>3, <2>1
    <2> QED
        BY <2>1, <2>2, <2>3, OneMore
<1>8. loopThread'[Client] = n + 1
    BY <1>3, LoopsShape DEF Kept, FieldsOK
<1>9. PICK k : Becomes(a, k) /\ k.pc = "submit" /\ SameCall(k, c)
    BY <1>2, <1>3, GoToIs
<1>10. CallerFits(k, loopThread', live')
    <2>1. n + 1 # None
        BY KeptShape
    <2> QED
        BY <1>3, <1>5, <1>8, <1>9, <2>1 DEF CallerFits, SameCall
<1>11. call'[a] = k /\ \A b \in Callers : b # a => call'[b] = call[b]
    BY <1>9, BecomesIs
<1>12. \A b \in Callers : b # a => call[b].pc = "idle"
    BY <1>4 DEF Alone, At
<1>13. \A b, d \in Callers : ~At(b, "idle")' /\ ~At(d, "idle")' => b = d
    BY <1>11, <1>12 DEF At
<1>14. ASSUME NEW b \in Callers
       PROVE  CallerFits(call'[b], loopThread', live')
    <2>1. CASE b # a
        <3>1. PICK i : i = call'[b]
            OBVIOUS
        <3>2. i.pc = "idle" 
            BY <1>11, <1>12, <2>1, <3>1
        <3>3. PICK L : L = loopThread'
            OBVIOUS
        <3>4. PICK V : V = live'
            OBVIOUS
        <3>5. CallerFits(i, L, V)
            BY <3>2 DEF CallerFits
        <3> QED
            BY <3>1, <3>3, <3>4, <3>5
    <2> QED
        BY <1>10, <1>11, <2>1
<1>15. \A b \in Callers : \A l \in 1..n :
           ~Ends(call[b], l) /\ ~Joins(call[b], l)
    <2>1. \A b \in Callers : call[b].pc \in {"idle", "create"}
        BY <1>2, <1>3, <1>12
    <2> QED
        BY <2>1 DEF Ends, Joins
<1>16. ASSUME NEW l \in 1..n
       PROVE  LoopFits(l, phase'[l], queue'[l], loopThread', call')
    <2>1. LoopFits(l, phase[l], queue[l], loopThread, call)
        BY <1>1 DEF TurnsOK
    <2>2. /\ loopThread[Client] # l /\ loopThread'[Client] # l
        BY <1>1, <1>5, <1>8, LoopsShape
    <2>3. /\ l = App => phase[l] = "running"
          /\ l # App => phase[l] = "closed"
          /\ phase[l] \in {"running", "closed"}
          /\ ~Does(queue[l], "stop")
        BY <1>15, <2>1, <2>2 DEF LoopFits
    <2> QED
        BY <1>6, <1>7, <2>2, <2>3 DEF LoopFits
<1>17. LoopFits(n + 1, phase'[n + 1], queue'[n + 1], loopThread', call')
    <2>1. PICK s : s = <<>>
        OBVIOUS
    <2>2. ~Does(s, "stop")
        BY <2>1 DEF Does
    <2> QED
        BY <1>6, <1>7, <1>8, <2>1, <2>2 DEF LoopFits
<1>18. \A l \in 1..Len(phase') :
           LoopFits(l, phase'[l], queue'[l], loopThread', call')
    <2>1. \A l \in 1..(n + 1) : l \in 1..n \/ l = n + 1
        OBVIOUS
    <2> QED
        BY <1>6, <1>16, <1>17, <2>1
<1> QED
    BY <1>13, <1>14, <1>18 DEF TurnsOK

LEMMA BeginAddsNoStop ==
    ASSUME Kept, NEW a, NEW op, NEW h, Begin(a, op, h)
    PROVE  \A l \in 1..Len(phase) :
               Does(queue'[l], "stop") => Does(queue[l], "stop")
<1>1. PICK x : x = Callback("step", Len(tasks) + 1)
    OBVIOUS
<1>2. x \in Callbacks /\ x.do # "stop"
    BY <1>1, KeptShape DEF Callback, Callbacks
<1>3. PICK m : m = App
    OBVIOUS
<1>4. m \in 1..Len(phase) /\ queue' = [queue EXCEPT ![m] = Append(@, x)]
    BY <1>1, <1>3, LoopsShape DEF Begin
<1> QED
    BY <1>2, <1>4, NoStopMore

LEMMA AwaitTurns ==
    ASSUME Kept, TurnsOK, Careful, NEW a \in Callers,
           NEW op \in {"connect", "request", "aclose"},
           NEW h \in Handles, Await(a, op, h)
    PROVE  TurnsOK'
<1>1. Alone(a) /\ At(a, "idle") /\ h \in live \cup {Client}
    BY DEF Await, MayCall, Careful, Alone
<1>2. PICK n : n = Len(tasks) + 1
    OBVIOUS
<1>3. PICK k : k = [pc |-> "await", op |-> op, handle |-> h,
                    task |-> n, loop |-> App]
    OBVIOUS
<1>4. Becomes(a, k)
    BY <1>2, <1>3 DEF Await, Becomes
<1>5. k.pc = "await" /\ k.op = op /\ k.handle = h /\ k.loop = App
    BY <1>3
<1>6. CallerFits(k, loopThread, live)
    BY <1>1, <1>5 DEF CallerFits
<1>7. \A l \in 1..Len(phase) :
          Does(queue'[l], "stop") => Does(queue[l], "stop")
    BY BeginAddsNoStop DEF Await
<1>8. UNCHANGED <<phase, loopThread, live>>
    BY DEF Await, fields
<1>9. call[a].pc \notin {"closing", "stop", "join"}
    BY <1>1 DEF At
<1> QED
    BY <1>1, <1>4, <1>6, <1>7, <1>8, <1>9, PlainTurns

LEMMA ResumeTurns ==
    ASSUME Kept, TurnsOK, NEW a \in Callers, Resume(a)
    PROVE  TurnsOK'
<1>1. PICK c : c = call[a]
    OBVIOUS
<1>2. /\ c.pc \in {"await", "unwind"} /\ ~At(a, "idle")
      /\ UNCHANGED <<phase, loopThread, live>>
    BY <1>1 DEF Resume, At, fields
<1>3. Alone(a) /\ CallerFits(c, loopThread, live)
    BY <1>1, <1>2, UnderWay
<1>4. CASE Return(a) /\ UNCHANGED <<queue, tasks>>
    <2>1. PICK k : Becomes(a, k) /\ k.pc = "idle" /\ k.loop = None
        BY <1>4, ReturnIs
    <2> QED
        BY <1>1, <1>2, <1>3, <1>4, <2>1, IdleFits, PlainTurns
<1>5. CASE /\ c.op = "connect" /\ Begin(a, "aclose", c.handle)
           /\ call' = [call EXCEPT ![a].pc = "unwind",
                                   ![a].task = Len(tasks) + 1]
    <2>1. PICK n : n = Len(tasks) + 1
        OBVIOUS
    <2>2. PICK k : k = [c EXCEPT !.pc = "unwind", !.task = n]
        OBVIOUS
    <2>3. c \in CallRecords
        BY <1>1, CallShape
    <2>4. /\ k.pc = "unwind" /\ k.op = c.op /\ k.handle = c.handle
          /\ k.loop = c.loop
        BY <2>2, <2>3 DEF CallRecords
    <2>5. Becomes(a, k)
        BY <1>1, <1>5, <2>1, <2>2 DEF Becomes
    <2>6. CallerFits(k, loopThread, live)
        BY <1>2, <1>3, <1>5, <2>4 DEF CallerFits
    <2>7. \A l \in 1..Len(phase) :
              Does(queue'[l], "stop") => Does(queue[l], "stop")
        BY <1>5, BeginAddsNoStop
    <2> QED
        BY <1>1, <1>2, <1>3, <2>5, <2>6, <2>7, PlainTurns
<1> QED
    BY <1>1, <1>4, <1>5 DEF Resume

\* A coroutine becomes one with a first step to take.
LEMMA StartTurns ==
    ASSUME Kept, TurnsOK, NEW l \in 1..Len(phase), Start(l)
    PROVE  TurnsOK'
<1>1. /\ queue \in Seq(Seq(Callbacks)) /\ Len(queue) = Len(phase)
      /\ queue[l] \in Seq(Callbacks)
    BY LoopsShape
<1>2. PICK c : c = Head(queue[l]).task
    OBVIOUS
<1>3. PICK r : r = Tail(queue[l]) \o
          (IF tasks[c].stage = "dropped"
           THEN <<Callback("step", c), Callback("cancel", c)>>
           ELSE <<Callback("step", c)>>)
    OBVIOUS
<1>4. /\ queue[l] # <<>> /\ Head(queue[l]).do = "start"
      /\ queue' = [queue EXCEPT ![l] = r]
      /\ UNCHANGED <<phase, loopThread, live, call>>
    BY <1>2, <1>3 DEF Start, Holds, fields, callVars
<1>5. c \in Nat
    BY <1>1, <1>2, <1>4, HeadFits DEF Callbacks
<1>6. r \in Seq(Callbacks) /\ (Does(r, "stop") => Does(queue[l], "stop"))
    <2>1. PICK s : s = Tail(queue[l])
        OBVIOUS
    <2>2. PICK x : x = Callback("step", c)
        OBVIOUS
    <2>3. PICK y : y = Callback("cancel", c)
        OBVIOUS
    <2>4. x \in Callbacks /\ y \in Callbacks /\ x.do = "step"
          /\ y.do = "cancel"
        BY <1>5, <2>2, <2>3 DEF Callback, Callbacks
    <2>5. PICK d : d = "stop"
        OBVIOUS
    <2>6. s \in Seq(Callbacks)
        BY <1>1, <1>4, <2>1, OneLess
    <2>7. Does(s, d) => Does(queue[l], d)
        <3>1. PICK z : z = queue[l]
            OBVIOUS
        <3>2. /\ Has(Tail(z), d, 0) => Has(z, d, 0)
              /\ Does(Tail(z), d) => Does(z, d)
            BY <1>1, <1>4, <3>1, TailHas
        <3> QED
            BY <2>1, <3>1, <3>2
    <2>8. PICK t : t = Append(s, x)
        OBVIOUS
    <2>9. t \in Seq(Callbacks) /\ (Does(t, d) => Does(s, d))
        <3>1. /\ Has(Append(s, x), d, 0) <=> Has(s, d, 0) \/ Is(x, d, 0)
              /\ Does(Append(s, x), d) => Does(s, d) \/ x.do = d
            BY <2>4, <2>6, AppendHas
        <3> QED
            BY <2>4, <2>5, <2>6, <2>8, <3>1, OneMore
    <2>10. PICK u : u = Append(t, y)
        OBVIOUS
    <2>11. u \in Seq(Callbacks) /\ (Does(u, d) => Does(t, d))
        <3>1. /\ Has(Append(t, y), d, 0) <=> Has(t, d, 0) \/ Is(y, d, 0)
              /\ Does(Append(t, y), d) => Does(t, d) \/ y.do = d
            BY <2>4, <2>9, AppendHas
        <3> QED
            BY <2>4, <2>5, <2>9, <2>10, <3>1, OneMore
    <2>12. r = t \/ r = u
        <3>1. s \o <<x>> = t
            BY <2>4, <2>6, <2>8
        <3>2. s \o <<x, y>> = u
            BY <2>4, <2>6, <2>8, <2>10
        <3> QED
            BY <1>3, <2>1, <2>2, <2>3, <3>1, <3>2
    <2> QED
        BY <2>5, <2>7, <2>9, <2>11, <2>12
<1>7. queue'[l] = r /\ \A m \in 1..Len(phase) : m # l => queue'[m] = queue[m]
    BY <1>1, <1>4, <1>6, OneChanged
<1>8. \A m \in 1..Len(phase) :
          Does(queue'[m], "stop") => Does(queue[m], "stop")
    BY <1>6, <1>7
<1> QED
    BY <1>4, <1>8, TurnsStay

\* A loop winds down or is closed, while its thread is joined.
LEMMA WindsDown ==
    ASSUME Kept, TurnsOK, NEW l \in 1..Len(phase),
           phase[l] \notin {"running", "closed"} \/ Does(queue[l], "stop"),
           NEW p, phase' = [phase EXCEPT ![l] = p],
           p \in {"stopping", "draining"} \/ ~Does(queue'[l], "stop"),
           \A m \in 1..Len(phase) : m # l => queue'[m] = queue[m],
           UNCHANGED <<loopThread, live, call>>
    PROVE  TurnsOK'
<1>1. /\ phase'[l] = p /\ Len(phase') = Len(phase)
      /\ \A m \in 1..Len(phase) : m # l => phase'[m] = phase[m]
    BY KeptShape
<1>2. LoopFits(l, phase[l], queue[l], loopThread, call)
    BY DEF TurnsOK
<1>3. PICK a \in Callers : Joins(call[a], l)
    BY <1>2 DEF LoopFits
<1>4. call[a].pc = "join" /\ call[a].loop = l
    BY <1>3 DEF Joins
<1>5. CallerFits(call[a], loopThread, live)
    BY DEF TurnsOK
<1>6. /\ call[a].handle = Client /\ l # App /\ loopThread[Client] = None
      /\ l # None
    BY <1>4, <1>5 DEF CallerFits
<1>7. Ends(call[a], l)
    BY <1>4, <1>6 DEF Ends
<1>8. LoopFits(l, phase'[l], queue'[l], loopThread', call')
    BY <1>1, <1>3, <1>6, <1>7 DEF LoopFits
<1>9. \A m \in 1..Len(phase') :
          LoopFits(m, phase'[m], queue'[m], loopThread', call')
    <2>1. \A m \in 1..Len(phase) :
              LoopFits(m, phase[m], queue[m], loopThread, call)
        BY DEF TurnsOK
    <2> QED
        BY <1>1, <1>8, <2>1
<1>10. \A b, d \in Callers : ~At(b, "idle")' /\ ~At(d, "idle")' => b = d
    BY DEF TurnsOK, At
<1>11. \A b \in Callers : CallerFits(call'[b], loopThread', live')
    BY DEF TurnsOK
<1> QED
    BY <1>9, <1>10, <1>11 DEF TurnsOK

LEMMA ShutTurns ==
    ASSUME Kept, TurnsOK, NEW l \in 1..Len(phase), Shut(l),
           phase[l] \notin {"running", "closed"} \/ Does(queue[l], "stop"),
           UNCHANGED <<loopThread, live, call>>
    PROVE  TurnsOK'
<1>1. PICK s : s = <<>>
    OBVIOUS
<1>2. ~Does(s, "stop") /\ s \in Seq(Callbacks)
    BY <1>1 DEF Does
<1>3. /\ queue' = [queue EXCEPT ![l] = s]
      /\ phase' = [phase EXCEPT ![l] = "closed"]
    BY <1>1 DEF Shut
<1>4. /\ queue'[l] = s
      /\ \A m \in 1..Len(phase) : m # l => queue'[m] = queue[m]
    BY <1>2, <1>3, LoopsShape, OneChanged
<1> QED
    BY <1>2, <1>3, <1>4, WindsDown

LEMMA StopTurns ==
    ASSUME Kept, TurnsOK, NEW l \in 1..Len(phase), Stop(l)
    PROVE  TurnsOK'
<1>1. /\ queue[l] # <<>> /\ Head(queue[l]).do = "stop"
      /\ UNCHANGED <<loopThread, live, call>>
    BY DEF Stop, Holds, fields, callVars
<1>2. queue \in Seq(Seq(Callbacks)) /\ Len(queue) = Len(phase)
    BY LoopsShape
<1>3. Does(queue[l], "stop")
    <2>1. PICK s : s = queue[l]
        OBVIOUS
    <2>2. s \in Seq(Callbacks) /\ s # <<>> /\ Head(s).do = "stop"
        BY <1>1, <1>2, <2>1
    <2>3. Does(s, Head(s).do)
        BY <2>2, HeadHas
    <2> QED
        BY <2>1, <2>2, <2>3
<1>4. CASE Shut(l)
    BY <1>1, <1>3, <1>4, ShutTurns
<1>5. CASE phase' = [phase EXCEPT ![l] = "stopping"] /\ queue' = Rest(l)
    <2>1. \A m \in 1..Len(phase) : m # l => queue'[m] = queue[m]
        BY <1>1, <1>2, <1>5, RestLeft DEF Left
    <2> QED
        BY <1>1, <1>3, <1>5, <2>1, WindsDown
<1> QED
    BY <1>4, <1>5 DEF Stop

LEMMA DrainTurns ==
    ASSUME Kept, TurnsOK, NEW l \in 1..Len(phase), Drain(l) \/ CloseLoop(l)
    PROVE  TurnsOK'
<1>1. UNCHANGED <<loopThread, live, call>>
    BY DEF Drain, CloseLoop, fields, callVars
<1>2. CASE Drain(l)
    BY <1>1, <1>2, WindsDown DEF Drain
<1>3. CASE CloseLoop(l)
    BY <1>1, <1>3, ShutTurns DEF CloseLoop
<1> QED
    BY <1>2, <1>3

LEMMA InitTurns ==
    ASSUME Init
    PROVE  TurnsOK
<1>1. /\ phase = <<"running">> /\ queue[1] = <<>> /\ Len(phase) = 1
      /\ loopThread[Client] = None
    BY DEF Init, Handles
<1>2. PICK k : k = NoCall
    OBVIOUS
<1>3. k.pc = "idle" /\ k.loop = None
    BY <1>2 DEF NoCall
<1>4. \A a \in Callers : call[a] = k
    BY <1>2 DEF Init
<1>5. PICK s : s = <<>>
    OBVIOUS
<1>6. ~Does(s, "stop")
    BY <1>5 DEF Does
<1>7. LoopFits(1, phase[1], queue[1], loopThread, call)
    <2>1. None # 1 /\ App = 1 /\ phase[1] = "running" /\ queue[1] = s
        BY <1>1, <1>5, SessionAssumption DEF App
    <2> QED
        BY <1>1, <1>6, <2>1 DEF LoopFits
<1>8. \A l \in 1..1 : l = 1
    OBVIOUS
<1>9. \A a \in Callers : CallerFits(call[a], loopThread, live)
    BY <1>3, <1>4, IdleFits
<1> QED
    BY <1>1, <1>3, <1>4, <1>7, <1>8, <1>9 DEF TurnsOK, At

LEMMA TurnsKeep ==
    ASSUME Kept, Careful, TurnsOK, [Next]_vars
    PROVE  TurnsOK'
<1>1. CASE UNCHANGED vars
    BY <1>1, TurnsStay DEF vars
<1>2. ASSUME NEW a \in Callers, Proceed(a)
      PROVE  TurnsOK'
    BY <1>2, EnterTurns, CreateLoopTurns, SubmitTurns, FinishTurns,
       ReadLoopTurns, SubmitCloseTurns, FinishCloseTurns, StopLoopTurns,
       JoinTurns, ResumeTurns
       DEF Proceed
<1>3. ASSUME NEW a \in Callers, UserStep(a)
      PROVE  TurnsOK'
    <2>1. ~InterruptClose(a)
        BY DEF Careful, InterruptClose
    <2> QED
        BY <1>3, <2>1, CallsTurn, InterruptTurns DEF UserStep
<1>4. ASSUME GoOnStep
      PROVE  TurnsOK'
    BY <1>4, GoingOn, TurnsGoOn
<1>5. ASSUME NEW a \in Cells, CellStep(a)
      PROVE  TurnsOK'
    <2>1. a \in Callers
        BY DEF Callers
    <2> QED
        BY <1>4, <1>5, <2>1, AwaitTurns DEF CellStep, GoOnStep
<1>6. ASSUME NEW l \in DOMAIN phase, LoopStep(l)
      PROVE  TurnsOK'
    <2>1. l \in 1..Len(phase)
        BY KeptShape
    <2>2. LoopTurn(l) => GoOnStep
        BY DEF GoOnStep
    <2> QED
        BY <1>4, <1>6, <2>1, <2>2, StartTurns, StopTurns, DrainTurns
           DEF LoopStep, LoopTurn
<1> QED
    BY <1>1, <1>2, <1>3, <1>4, <1>5, <1>6 DEF Next, GoOnStep

\* Callers that take turns: one call at most is under way, the loop it works
\* with is the one its handle or the end of close() has it work with, and a
\* loop thread that is not the client's is closed or about to be, by the
\* close() that took it from the client (qclient.py, close and _run).
THEOREM CarefulCallersTakeTurns == Spec => [](Careful => TurnsOK)
<1>1. Init => (Careful => TurnsOK)
    BY InitTurns
<1>2. Kept /\ (Careful => TurnsOK) /\ [Next]_vars => (Careful => TurnsOK)'
    BY TurnsKeep, CarefulStays
<1> QED
    BY <1>1, <1>2, KeptAlways, PTL DEF Spec

-----------------------------------------------------------------------------
(* Callers that take turns, second part: the coroutine the call under way  *)
(* waits for, and where the others came from.                              *)

Under(t) == t.stage \notin Ended

Waits == {"wait", "closing", "await", "unwind"}

Mine(k, c) == k.pc \in Waits /\ k.task = c

NoneDo(q, d, c) == \A l \in 1..Len(q) : ~Has(q[l], d, c)

\* The coroutine a caller waits for.
Runs(k) ==
    CASE k.pc = "wait" -> Coroutine(k.op)
      [] k.pc \in {"closing", "unwind"} -> "aclose"
      [] OTHER -> k.op

OwnTask(k, T, q) ==
    k.pc \in Waits =>
        /\ k.task = Len(T)
        /\ Under(T[k.task]) =>
            /\ T[k.task].handle = k.handle /\ T[k.task].loop = k.loop
            /\ T[k.task].op = Runs(k) /\ T[k.task].stage # "dropped"
            /\ NoneDo(q, "cancel", k.task)

Reached(t, V) == Kind(t) /\ (Under(t) => t.handle \in V \cup {Client})

OnApp(c, t, K) ==
    (Under(t) /\ t.loop = App) =>
        /\ t.stage \notin Handed
        /\ \E a \in Callers :
              Mine(K[a], c) /\ K[a].pc \in {"await", "unwind"}

Awaited(c, t, p, q) ==
    t.stage \in Handed =>
        /\ p[t.loop] = "closed" \/ Has(q[t.loop], "start", c)
        /\ NoneDo(q, "step", c) /\ NoneDo(q, "cancel", c)

RunsOK ==
    /\ \A c \in 1..Len(tasks) :
           /\ Reached(tasks[c], live) /\ OnApp(c, tasks[c], call)
           /\ Awaited(c, tasks[c], phase, queue)
    /\ \A a \in Callers : OwnTask(call[a], tasks, queue)

\* A coroutine goes on, ends or is given up.
Follows(t, u) ==
    \/ u.stage \in Ended
    \/ /\ t.stage \notin Ended
       /\ u.op = t.op /\ u.handle = t.handle /\ u.loop = t.loop
       /\ Kind(t) => Kind(u)
       /\ u.stage \in Handed => t.stage \in Handed

LEMMA RunsFollow ==
    ASSUME Kept, RunsOK, Len(tasks') = Len(tasks), live \subseteq live',
           \A c \in 1..Len(tasks) : Follows(tasks[c], tasks'[c]),
           \A a \in Callers :
               \/ /\ call'[a] = call[a]
                  /\ (call[a].pc \in Waits /\ Under(tasks'[call[a].task])) =>
                      /\ tasks'[call[a].task].stage = "dropped" =>
                             tasks[call[a].task].stage = "dropped"
                      /\ NoneDo(queue, "cancel", call[a].task) =>
                             NoneDo(queue', "cancel", call[a].task)
               \/ /\ call'[a].pc \notin Waits
                  /\ call[a].pc \in {"await", "unwind"} =>
                         ~Under(tasks'[call[a].task]),
           \A c \in 1..Len(tasks) : tasks'[c].stage \in Handed =>
               /\ NoneDo(queue, "step", c) => NoneDo(queue', "step", c)
               /\ NoneDo(queue, "cancel", c) => NoneDo(queue', "cancel", c)
               /\ phase[tasks[c].loop] = "closed" =>
                      phase'[tasks[c].loop] = "closed"
               /\ Has(queue[tasks[c].loop], "start", c) =>
                      \/ phase'[tasks[c].loop] = "closed"
                      \/ Has(queue'[tasks[c].loop], "start", c)
    PROVE  RunsOK'
<1>1. ASSUME NEW c \in 1..Len(tasks)
      PROVE  /\ Reached(tasks'[c], live') /\ OnApp(c, tasks'[c], call')
             /\ Awaited(c, tasks'[c], phase', queue')
    <2>1. PICK t : t = tasks[c]
        OBVIOUS
    <2>2. PICK u : u = tasks'[c]
        OBVIOUS
    <2>3. /\ Reached(t, live) /\ OnApp(c, t, call)
          /\ Awaited(c, t, phase, queue)
        BY <2>1 DEF RunsOK
    <2>4. Follows(t, u)
        BY <2>1, <2>2
    <2>5. CASE u.stage \in Ended
        <3>1. u.stage \notin Handed
            BY <2>5 DEF Ended, Handed
        <3> QED
            BY <2>2, <2>5, <3>1 DEF Reached, Kind, OnApp, Awaited, Under
    <2>6. CASE u.stage \notin Ended
        <3>1. /\ t.stage \notin Ended /\ u.loop = t.loop
              /\ u.handle = t.handle /\ u.op = t.op
              /\ Kind(u) /\ (u.stage \in Handed => t.stage \in Handed)
            BY <2>3, <2>4, <2>6 DEF Follows, Reached
        <3>2. Reached(u, live')
            BY <2>3, <3>1 DEF Reached, Under
        <3>3. OnApp(c, u, call')
            <4> SUFFICES ASSUME u.loop = App
                         PROVE  /\ u.stage \notin Handed
                                /\ \E a \in Callers :
                                      /\ Mine(call'[a], c)
                                      /\ call'[a].pc \in {"await", "unwind"}
                BY DEF OnApp
            <4>1. u.stage \notin Handed
                BY <2>3, <3>1 DEF OnApp, Under
            <4>2. PICK a \in Callers : /\ Mine(call[a], c)
                                       /\ call[a].pc \in {"await", "unwind"}
                BY <2>3, <3>1 DEF OnApp, Under
            <4>3. call'[a] = call[a]
                BY <2>2, <2>6, <4>2 DEF Mine, Under
            <4> QED
                BY <4>1, <4>2, <4>3
        <3>4. Awaited(c, u, phase', queue')
            <4> SUFFICES ASSUME u.stage \in Handed
                         PROVE  /\ \/ phase'[u.loop] = "closed"
                                   \/ Has(queue'[u.loop], "start", c)
                                /\ NoneDo(queue', "step", c)
                                /\ NoneDo(queue', "cancel", c)
                BY DEF Awaited
            <4>1. /\ \/ phase[t.loop] = "closed"
                     \/ Has(queue[t.loop], "start", c)
                  /\ NoneDo(queue, "step", c) /\ NoneDo(queue, "cancel", c)
                BY <2>3, <3>1 DEF Awaited
            <4> QED
                BY <2>1, <2>2, <3>1, <4>1
        <3> QED
            BY <2>2, <3>2, <3>3, <3>4
    <2> QED
        BY <2>5, <2>6
<1>2. ASSUME NEW a \in Callers
      PROVE  OwnTask(call'[a], tasks', queue')
    <2>1. PICK k : k = call[a]
        OBVIOUS
    <2>2. CASE call'[a].pc \notin Waits
        BY <2>2 DEF OwnTask
    <2>3. CASE call'[a] = k /\ k.pc \in Waits
        <3>1. PICK c : c = k.task
            OBVIOUS
        <3>2. c \in 1..Len(tasks)
            BY <2>1, <2>3, <3>1, CallShape DEF CallFits, Waits
        <3>3. /\ c = Len(tasks)
              /\ Under(tasks[c]) =>
                    /\ tasks[c].handle = k.handle /\ tasks[c].loop = k.loop
                    /\ tasks[c].op = Runs(k) /\ tasks[c].stage # "dropped"
                    /\ NoneDo(queue, "cancel", c)
            BY <2>1, <2>3, <3>1 DEF RunsOK, OwnTask
        <3>4. Under(tasks'[c]) =>
                /\ Under(tasks[c])
                /\ tasks'[c].handle = tasks[c].handle
                /\ tasks'[c].loop = tasks[c].loop
                /\ tasks'[c].op = tasks[c].op
            BY <3>2 DEF Follows, Under
        <3>5. Under(tasks'[c]) =>
                /\ tasks'[c].stage = "dropped" => tasks[c].stage = "dropped"
                /\ NoneDo(queue, "cancel", c) => NoneDo(queue', "cancel", c)
            BY <2>1, <2>3, <3>1
        <3> QED
            BY <2>3, <3>1, <3>3, <3>4, <3>5 DEF OwnTask
    <2> QED
        BY <2>1, <2>2, <2>3
<1> QED
    BY <1>1, <1>2 DEF RunsOK

\* A queue with a callback more.
Gained(q, l, x, p) == p = [q EXCEPT ![l] = Append(@, x)]

LEMMA Gains ==
    ASSUME NEW q \in Seq(Seq(Callbacks)), NEW l \in 1..Len(q),
           NEW x \in Callbacks, NEW p, Gained(q, l, x, p),
           NEW d, NEW c
    PROVE  /\ Len(p) = Len(q)
           /\ \A m \in 1..Len(q) :
                  Has(p[m], d, c) <=> Has(q[m], d, c) \/ (m = l /\ Is(x, d, c))
           /\ (NoneDo(q, d, c) /\ ~Is(x, d, c)) => NoneDo(p, d, c)
<1>1. PICK s : s = q[l]
    OBVIOUS
<1>2. PICK r : r = Append(s, x)
    OBVIOUS
<1>3. s \in Seq(Callbacks) /\ r \in Seq(Callbacks)
    BY <1>1, <1>2
<1>4. /\ Len(p) = Len(q) /\ p[l] = r
      /\ \A m \in 1..Len(q) : m # l => p[m] = q[m]
    BY <1>1, <1>2, <1>3, OneChanged DEF Gained
<1>5. Has(r, d, c) <=> Has(s, d, c) \/ Is(x, d, c)
    <2>1. Has(Append(s, x), d, c) <=> Has(s, d, c) \/ Is(x, d, c)
        BY <1>3, AppendHas
    <2> QED
        BY <1>2, <2>1
<1>6. \A m \in 1..Len(q) :
          Has(p[m], d, c) <=> Has(q[m], d, c) \/ (m = l /\ Is(x, d, c))
    BY <1>1, <1>4, <1>5
<1> QED
    BY <1>4, <1>6 DEF NoneDo

LEMMA NoneDoPassed ==
    ASSUME NEW q \in Seq(Seq(Callbacks)), NEW l, NEW p, Passed(q, l, p),
           NEW d \in Scheduled, NEW c,
           NoneDo(q, d, c)
    PROVE  NoneDo(p, d, c)
<1>1. Len(p) = Len(q)
    BY DEF Passed
<1>2. ASSUME NEW m \in 1..Len(q)
      PROVE  ~Has(p[m], d, c)
    <2>1. /\ Has(p[m], d, c) => Has(q[m], d, c)
          /\ Does(p[m], d) => Does(q[m], d)
        BY PassedKeeps
    <2> QED
        BY <2>1 DEF NoneDo
<1> QED
    BY <1>1, <1>2 DEF NoneDo

\* No callback is about a coroutine yet to come.
LEMMA NoneNew ==
    ASSUME Kept, NEW m \in 1..Len(queue), NEW d
    PROVE  ~Has(queue[m], d, Len(tasks) + 1)
<1>1. /\ QueueFits(queue, Len(phase), tasks, home) /\ Len(tasks) \in Nat
      /\ m \in 1..Len(phase)
    BY KeptShape, LoopsShape DEF Kept, LoopsOK
<1>2. \A i \in 1..Len(queue[m]) : queue[m][i].task \in 0..Len(tasks)
    BY <1>1 DEF QueueFits, CallbackFits
<1> QED
    BY <1>1, <1>2 DEF Has, Is

LEMMA StillHas ==
    ASSUME NEW q \in Seq(Seq(Callbacks)), NEW l, NEW p, Passed(q, l, p),
           NEW m \in 1..Len(q), NEW d \in Scheduled, NEW c,
           Has(q[m], d, c), ~(m = l /\ Is(Head(q[m]), d, c))
    PROVE  Has(p[m], d, c)
BY PassedKeeps

LEMMA TaskShape ==
    ASSUME Kept, NEW c \in 1..Len(tasks)
    PROVE  /\ tasks[c] \in Tasks /\ tasks[c].loop \in 1..Len(phase)
           /\ tasks[c].handle \in Handles
           /\ TaskFits(tasks[c], Len(phase), home)
<1>1. tasks \in Seq(Tasks) /\ TaskFits(tasks[c], Len(phase), home)
    BY DEF Kept, TasksOK
<1>2. tasks[c] \in Tasks
    BY <1>1
<1> QED
    BY <1>1, <1>2 DEF TaskFits, Tasks

LEMMA GoesOnFollows ==
    ASSUME NEW t, NEW u, GoesOn(t, u)
    PROVE  /\ Follows(t, u)
           /\ u.stage \in Handed => u = t
BY DEF GoesOn, Follows, Handed, Ended, Asking

LEMMA RunsGoOn ==
    ASSUME Kept, RunsOK, NEW l \in 0..Len(phase), GoesOnBy(l)
    PROVE  RunsOK'
<1>1. /\ queue \in Seq(Seq(Callbacks)) /\ Len(queue) = Len(phase)
      /\ Passed(queue, l, queue') /\ Len(tasks') = Len(tasks)
      /\ l # 0 => Head(queue[l]).do # "start"
      /\ UNCHANGED <<phase, live, call>>
      /\ \A c \in 1..Len(tasks) : GoesOn(tasks[c], tasks'[c])
    BY LoopsShape DEF GoesOnBy, Advanced
<1>2. \A c \in 1..Len(tasks) :
          /\ Follows(tasks[c], tasks'[c])
          /\ tasks'[c].stage \in Handed => tasks'[c] = tasks[c]
    BY <1>1, GoesOnFollows
<1>3. "step" \in Scheduled /\ "cancel" \in Scheduled
      /\ "start" \in Scheduled
    BY DEF Scheduled
<1>4. ASSUME NEW d \in Scheduled, NEW c, NoneDo(queue, d, c)
      PROVE  NoneDo(queue', d, c)
    <2>1. PICK p : p = queue'
        OBVIOUS
    <2> QED
        BY <1>1, <1>4, <2>1, NoneDoPassed
<1>5. ASSUME NEW c \in 1..Len(tasks), Has(queue[tasks[c].loop], "start", c)
      PROVE  Has(queue'[tasks[c].loop], "start", c)
    <2>1. PICK m \in 1..Len(queue) : m = tasks[c].loop
        BY <1>1, TaskShape
    <2>2. PICK d : d = "start"
        OBVIOUS
    <2>3. PICK p : p = queue'
        OBVIOUS
    <2>4. PICK q : q = queue
        OBVIOUS
    <2>5. m = l => ~Is(Head(q[m]), d, c)
        <3>1. Len(phase) \in Nat
            BY LoopsShape
        <3> QED
            BY <1>1, <2>1, <2>2, <2>4, <3>1 DEF Is
    <2>6. /\ q \in Seq(Seq(Callbacks)) /\ Passed(q, l, p) /\ m \in 1..Len(q)
          /\ d \in Scheduled /\ Has(q[m], d, c)
        BY <1>1, <1>3, <1>5, <2>1, <2>2, <2>3, <2>4
    <2>7. Has(p[m], d, c)
        BY <2>5, <2>6, StillHas
    <2> QED
        BY <2>1, <2>2, <2>3, <2>7
<1>6. \A a \in Callers :
          /\ call'[a] = call[a]
          /\ (call[a].pc \in Waits /\ Under(tasks'[call[a].task])) =>
              /\ tasks'[call[a].task].stage = "dropped" =>
                     tasks[call[a].task].stage = "dropped"
              /\ NoneDo(queue, "cancel", call[a].task) =>
                     NoneDo(queue', "cancel", call[a].task)
    <2> SUFFICES ASSUME NEW a \in Callers, call[a].pc \in Waits,
                        tasks'[call[a].task].stage = "dropped"
                 PROVE  tasks[call[a].task].stage = "dropped"
        BY <1>1, <1>3, <1>4
    <2>1. call[a].task \in 1..Len(tasks)
        BY CallShape DEF CallFits, Waits
    <2> QED
        BY <1>2, <2>1 DEF Handed
<1> QED
    BY <1>1, <1>2, <1>3, <1>4, <1>5, <1>6, RunsFollow

\* Nothing is handed over or cancelled, and what is to be started still is.
Keeps ==
    \A c : /\ NoneDo(queue, "step", c) => NoneDo(queue', "step", c)
           /\ NoneDo(queue, "cancel", c) => NoneDo(queue', "cancel", c)
           /\ \A m \in 1..Len(phase) :
                  Has(queue[m], "start", c) =>
                      phase'[m] = "closed" \/ Has(queue'[m], "start", c)

\* A step of a call, or of none, that hands nothing over.
LEMMA RunsStay ==
    ASSUME Kept, RunsOK, tasks' = tasks, live \subseteq live', Keeps,
           \A m \in 1..Len(phase) :
               phase[m] = "closed" => phase'[m] = "closed",
           \A a \in Callers :
               \/ call'[a] = call[a]
               \/ /\ call'[a].pc \notin Waits
                  /\ call[a].pc \in {"await", "unwind"} =>
                         ~Under(tasks[call[a].task])
    PROVE  RunsOK'
<1>1. ASSUME NEW c \in 1..Len(tasks)
      PROVE  Follows(tasks[c], tasks'[c]) /\ tasks[c].loop \in 1..Len(phase)
    BY TaskShape DEF Follows
<1> QED
    BY <1>1, RunsFollow DEF Keeps

LEMMA NothingKeeps ==
    ASSUME queue' = queue
    PROVE  Keeps
BY DEF Keeps

\* A callback more that is neither of these.
LEMMA OneMoreKeeps ==
    ASSUME Kept, NEW l \in 1..Len(phase), NEW x \in Callbacks,
           queue' = [queue EXCEPT ![l] = Append(@, x)],
           x.do \notin {"step", "cancel"}
    PROVE  Keeps
<1>1. queue \in Seq(Seq(Callbacks)) /\ l \in 1..Len(queue)
      /\ Len(queue) = Len(phase)
    BY LoopsShape
<1>2. PICK q : q = queue
    OBVIOUS
<1>3. PICK p : p = queue'
    OBVIOUS
<1>4. /\ q \in Seq(Seq(Callbacks)) /\ l \in 1..Len(q)
      /\ Gained(q, l, x, p)
    BY <1>1, <1>2, <1>3 DEF Gained
<1>5. \A d, c : ~(d \in {"step", "cancel"} /\ Is(x, d, c))
    BY DEF Is
<1>6. ASSUME NEW d, NEW c
      PROVE  /\ Len(p) = Len(q)
             /\ \A m \in 1..Len(q) :
                    Has(p[m], d, c) <=>
                        Has(q[m], d, c) \/ (m = l /\ Is(x, d, c))
             /\ (NoneDo(q, d, c) /\ ~Is(x, d, c)) => NoneDo(p, d, c)
    BY <1>4, Gains
<1>7. ASSUME NEW d \in {"step", "cancel"}, NEW c, NoneDo(q, d, c)
      PROVE  NoneDo(p, d, c)
    BY <1>5, <1>6, <1>7
<1>8. ASSUME NEW m \in 1..Len(phase), NEW c, Has(q[m], "start", c)
      PROVE  Has(p[m], "start", c)
    BY <1>1, <1>2, <1>6, <1>8
<1> QED
    BY <1>2, <1>3, <1>7, <1>8 DEF Keeps

\* A loop loses callbacks, but no start unless it is closed.
LEMMA LessKeeps ==
    ASSUME Kept, NEW l \in 1..Len(phase), NEW r \in Seq(Callbacks),
           queue' = [queue EXCEPT ![l] = r],
           \A c : /\ Has(r, "step", c) => Has(queue[l], "step", c)
                  /\ Has(r, "cancel", c) => Has(queue[l], "cancel", c)
                  /\ Has(queue[l], "start", c) =>
                         phase'[l] = "closed" \/ Has(r, "start", c)
    PROVE  Keeps
<1>1. /\ queue \in Seq(Seq(Callbacks)) /\ Len(queue) = Len(phase)
      /\ l \in 1..Len(queue)
    BY LoopsShape
<1>2. /\ Len(queue') = Len(queue) /\ queue'[l] = r
      /\ \A m \in 1..Len(queue) : m # l => queue'[m] = queue[m]
    BY <1>1, OneChanged
<1> QED
    BY <1>1, <1>2 DEF Keeps, NoneDo

\* The queue of a loop that starts a coroutine.
\* The turn of loop `l' that starts coroutine `c': its callbacks were `s' and
\* are `z', that is `r', with the first step `x', and maybe a cancellation `y'.
Rescheduled(s, x, y, r, z) ==
    s # <<>> /\ r = Append(Tail(s), x) /\ z \in {r, Append(r, y)}

Starts(l, c, x, y, s, r, z) ==
    /\ s = queue[l] /\ z = queue'[l] /\ Rescheduled(s, x, y, r, z)
    /\ Is(Head(s), "start", c) /\ Is(x, "step", c) /\ Is(y, "cancel", c)
    /\ tasks[c].stage \in Handed /\ tasks[c].loop = l
    /\ tasks[c].stage # "dropped" => z = r
    /\ Len(queue') = Len(queue)
    /\ \A m \in 1..Len(queue) : m # l => queue'[m] = queue[m]
    /\ Len(tasks') = Len(tasks)
    /\ \A d \in 1..Len(tasks) : d # c => tasks'[d] = tasks[d]
    /\ tasks'[c].stage = "ready" /\ tasks'[c].op = tasks[c].op
    /\ tasks'[c].handle = tasks[c].handle /\ tasks'[c].loop = tasks[c].loop
    /\ tasks'[c].at = tasks[c].at /\ tasks'[c].sent = tasks[c].sent
    /\ tasks'[c].via = tasks[c].via
    /\ tasks[c].stage = "dropped" => Has(z, "cancel", c)

LEMMA StartQueue ==
    ASSUME Kept, NEW l \in 1..Len(phase), Start(l)
    PROVE  \E c \in 1..Len(tasks), x \in Callbacks, y \in Callbacks,
              s \in Seq(Callbacks), r \in Seq(Callbacks),
              z \in Seq(Callbacks) :
               Starts(l, c, x, y, s, r, z)
<1>1. /\ queue \in Seq(Seq(Callbacks)) /\ Len(queue) = Len(phase)
      /\ queue[l] \in Seq(Callbacks) /\ tasks \in Seq(Tasks)
    BY LoopsShape, KeptShape
<1>2. PICK c : c = Head(queue[l]).task
    OBVIOUS
<1>3. PICK s \in Seq(Callbacks) : s = queue[l]
    BY <1>1
<1>4. PICK x : x = Callback("step", c)
    OBVIOUS
<1>5. PICK y : y = Callback("cancel", c)
    OBVIOUS
<1>6. PICK r : r = Append(Tail(s), x)
    OBVIOUS
<1>7. s # <<>> /\ Head(s).do = "start"
    BY <1>3 DEF Start, Holds
<1>8. /\ c \in 1..Len(tasks) /\ tasks[c] \in Tasks /\ c \in Nat
      /\ CallbackFits(l, Head(s), tasks, home)
    BY <1>2, <1>3, <1>7, HeadStage, KeptShape
<1>9. tasks[c].stage \in Handed /\ tasks[c].loop = l
      /\ Is(Head(s), "start", c)
    BY <1>2, <1>3, <1>7, <1>8 DEF CallbackFits, Is
<1>10. /\ x \in Callbacks /\ y \in Callbacks
       /\ Is(x, "step", c) /\ Is(y, "cancel", c)
    BY <1>4, <1>5, <1>8 DEF Callback, Callbacks, Is
<1>11. PICK t \in Seq(Callbacks) : t = Tail(s)
    BY <1>3, <1>7, OneLess
<1>12. r \in Seq(Callbacks)
    BY <1>6, <1>10, <1>11, OneMore
<1>13. PICK z \in Seq(Callbacks) :
           z = IF tasks[c].stage = "dropped" THEN Append(r, y) ELSE r
    BY <1>10, <1>12, OneMore
<1>14. queue' = [queue EXCEPT ![l] = z]
    <2>1. t \o <<x>> = r
        BY <1>6, <1>10, <1>11
    <2>2. t \o <<x, y>> = Append(r, y)
        BY <1>6, <1>10, <1>11, <1>12
    <2>3. queue' = [queue EXCEPT ![l] =
              t \o (IF tasks[c].stage = "dropped" THEN <<x, y>> ELSE <<x>>)]
        BY <1>2, <1>3, <1>4, <1>5, <1>11 DEF Start
    <2> QED
        BY <1>13, <2>1, <2>2, <2>3
<1>15. /\ queue'[l] = z /\ Len(queue') = Len(queue)
       /\ \A m \in 1..Len(queue) : m # l => queue'[m] = queue[m]
    BY <1>1, <1>13, <1>14, OneChanged
<1>16. PICK u : u = [tasks[c] EXCEPT !.stage = "ready"]
    OBVIOUS
<1>17. /\ u \in Tasks /\ u.stage = "ready" /\ u.op = tasks[c].op
       /\ u.handle = tasks[c].handle /\ u.loop = tasks[c].loop
       /\ u.at = tasks[c].at /\ u.sent = tasks[c].sent
       /\ u.via = tasks[c].via
    BY <1>8, <1>16 DEF Tasks
<1>18. tasks' = [tasks EXCEPT ![c] = u]
    BY <1>2, <1>16 DEF Start
<1>19. /\ tasks'[c] = u /\ Len(tasks') = Len(tasks)
       /\ \A d \in 1..Len(tasks) : d # c => tasks'[d] = tasks[d]
    BY <1>1, <1>8, <1>17, <1>18, OneChanged
<1>20. tasks[c].stage = "dropped" => Has(z, "cancel", c)
    <2>1. Has(Append(r, y), "cancel", c) <=>
              Has(r, "cancel", c) \/ Is(y, "cancel", c)
        BY <1>10, <1>12, AppendHas
    <2> QED
        BY <1>10, <1>13, <2>1
<1>21. Rescheduled(s, x, y, r, z)
    BY <1>6, <1>7, <1>13 DEF Rescheduled
<1>22. Starts(l, c, x, y, s, r, z)
    BY <1>3, <1>9, <1>10, <1>13, <1>15, <1>17, <1>19, <1>20, <1>21
       DEF Starts
<1> QED
    BY <1>3, <1>8, <1>10, <1>12, <1>13, <1>22

LEMMA StartHas ==
    ASSUME NEW s \in Seq(Callbacks), NEW x \in Callbacks,
           NEW y \in Callbacks, NEW r \in Seq(Callbacks), NEW z,
           Rescheduled(s, x, y, r, z), NEW d, NEW c
    PROVE  /\ Has(z, d, c) => \/ Has(s, d, c) \/ Is(x, d, c)
                              \/ (z # r /\ Is(y, d, c))
           /\ Has(s, d, c) => Has(z, d, c) \/ Is(Head(s), d, c)
           /\ Is(x, d, c) => Has(z, d, c)
<1>0. /\ s # <<>> /\ r = Append(Tail(s), x)
      /\ z = r \/ z = Append(r, y)
    BY DEF Rescheduled
<1>1. PICK t \in Seq(Callbacks) : t = Tail(s)
    BY <1>0, OneLess
<1>2. /\ Has(t, d, c) => Has(s, d, c)
      /\ Has(s, d, c) => Has(t, d, c) \/ Is(Head(s), d, c)
      /\ Does(t, d) => Does(s, d)
    BY <1>0, <1>1, TailHas
<1>3. Has(r, d, c) <=> Has(t, d, c) \/ Is(x, d, c)
    <2>1. Has(Append(t, x), d, c) <=> Has(t, d, c) \/ Is(x, d, c)
        BY AppendHas
    <2> QED
        BY <1>0, <1>1, <2>1
<1>4. Has(Append(r, y), d, c) <=> Has(r, d, c) \/ Is(y, d, c)
    BY AppendHas
<1> QED
    BY <1>0, <1>2, <1>3, <1>4

LEMMA RunsStart ==
    ASSUME Kept, RunsOK, NEW l \in 1..Len(phase), Start(l)
    PROVE  RunsOK'
<1>0. PICK c \in 1..Len(tasks), x \in Callbacks, y \in Callbacks,
           s \in Seq(Callbacks), r \in Seq(Callbacks),
           z \in Seq(Callbacks) : Starts(l, c, x, y, s, r, z)
    BY StartQueue
<1>1. /\ s = queue[l] /\ z = queue'[l] /\ Rescheduled(s, x, y, r, z)
      /\ Is(Head(s), "start", c) /\ Is(x, "step", c) /\ Is(y, "cancel", c)
      /\ tasks[c].stage \in Handed /\ tasks[c].loop = l
      /\ tasks[c].stage # "dropped" => z = r
      /\ Len(queue') = Len(queue)
      /\ \A m \in 1..Len(queue) : m # l => queue'[m] = queue[m]
      /\ Len(tasks') = Len(tasks)
      /\ \A d \in 1..Len(tasks) : d # c => tasks'[d] = tasks[d]
      /\ tasks'[c].stage = "ready" /\ tasks'[c].op = tasks[c].op
      /\ tasks'[c].handle = tasks[c].handle
      /\ tasks'[c].loop = tasks[c].loop /\ c \in 1..Len(tasks)
    BY <1>0 DEF Starts
<1>2. UNCHANGED <<phase, live, call>> /\ Len(queue) = Len(phase)
      /\ Len(tasks) \in Nat
    BY LoopsShape, KeptShape DEF Start, fields, callVars
<1>4. ASSUME NEW d, NEW e
      PROVE  /\ Has(z, d, e) => \/ Has(s, d, e) \/ Is(x, d, e)
                                \/ (z # r /\ Is(y, d, e))
             /\ Has(s, d, e) => Has(z, d, e) \/ Is(Head(s), d, e)
             /\ Is(x, d, e) => Has(z, d, e)
    BY <1>0, <1>1, StartHas
<1>5. \A e : /\ Is(x, "step", e) => e = c
             /\ ~Is(y, "step", e) /\ ~Is(x, "cancel", e)
             /\ Is(y, "cancel", e) => e = c
             /\ Is(Head(s), "start", e) => e = c
    BY <1>1 DEF Is
<1>6. ASSUME NEW e, e # c, NEW d \in {"step", "cancel"},
             NoneDo(queue, d, e)
      PROVE  NoneDo(queue', d, e)
    <2>1. ~Has(z, d, e)
        BY <1>1, <1>2, <1>4, <1>5, <1>6 DEF NoneDo
    <2> QED
        BY <1>1, <1>6, <2>1 DEF NoneDo
<1>7. \A e \in 1..Len(tasks) : Follows(tasks[e], tasks'[e])
    <2>1. Follows(tasks[c], tasks'[c])
        BY <1>1 DEF Follows, Kind, Handed, Ended
    <2> QED
        BY <1>1, <2>1 DEF Follows
<1>8. tasks'[c].stage \notin Handed
    BY <1>1 DEF Handed
<1>9. ASSUME NEW a \in Callers, call[a].pc \in Waits,
             Under(tasks'[call[a].task])
      PROVE  /\ tasks'[call[a].task].stage = "dropped" =>
                    tasks[call[a].task].stage = "dropped"
             /\ NoneDo(queue, "cancel", call[a].task) =>
                    NoneDo(queue', "cancel", call[a].task)
    <2>1. PICK e : e = call[a].task
        OBVIOUS
    <2>2. e \in 1..Len(tasks)
        BY <1>9, <2>1, CallShape DEF CallFits, Waits
    <2>3. CASE e # c
        BY <1>1, <1>6, <2>1, <2>2, <2>3
    <2>4. CASE e = c
        <3>1. Under(tasks[c])
            BY <1>1 DEF Under, Handed, Ended
        <3>2. tasks[c].stage # "dropped"
            BY <1>9, <2>1, <2>4, <3>1 DEF RunsOK, OwnTask
        <3>3. z = r
            BY <1>1, <3>2
        <3>4. ~Has(s, "cancel", c) => ~Has(z, "cancel", c)
            BY <1>4, <1>5, <3>3
        <3>5. NoneDo(queue, "cancel", c) => NoneDo(queue', "cancel", c)
            BY <1>1, <1>2, <3>4 DEF NoneDo
        <3> QED
            BY <1>1, <2>1, <2>4, <3>5
    <2> QED
        BY <2>3, <2>4
<1>10. \A e \in 1..Len(tasks) : tasks'[e].stage \in Handed =>
          /\ NoneDo(queue, "step", e) => NoneDo(queue', "step", e)
          /\ NoneDo(queue, "cancel", e) => NoneDo(queue', "cancel", e)
          /\ Has(queue[tasks[e].loop], "start", e) =>
                 Has(queue'[tasks[e].loop], "start", e)
    <2> SUFFICES ASSUME NEW e \in 1..Len(tasks), e # c
                 PROVE  /\ NoneDo(queue, "step", e) =>
                               NoneDo(queue', "step", e)
                        /\ NoneDo(queue, "cancel", e) =>
                               NoneDo(queue', "cancel", e)
                        /\ Has(queue[tasks[e].loop], "start", e) =>
                               Has(queue'[tasks[e].loop], "start", e)
        BY <1>8
    <2>1. tasks[e].loop \in 1..Len(queue)
        BY <1>2, TaskShape
    <2>2. Has(queue[tasks[e].loop], "start", e) =>
              Has(queue'[tasks[e].loop], "start", e)
        BY <1>1, <1>4, <1>5, <2>1
    <2> QED
        BY <1>6, <2>2
<1> QED
    BY <1>1, <1>2, <1>7, <1>9, <1>10, RunsFollow

LEMMA ShutKeeps ==
    ASSUME Kept, NEW l \in 1..Len(phase), Shut(l)
    PROVE  /\ Keeps /\ phase'[l] = "closed"
           /\ \A m \in 1..Len(phase) : m # l => phase'[m] = phase[m]
<1>1. phase'[l] = "closed"
      /\ \A m \in 1..Len(phase) : m # l => phase'[m] = phase[m]
    BY KeptShape DEF Shut
<1>2. PICK r : r = <<>>
    OBVIOUS
<1>3. r \in Seq(Callbacks) /\ \A d, c : ~Has(r, d, c)
    BY <1>2 DEF Has
<1>4. queue' = [queue EXCEPT ![l] = r]
    BY <1>2 DEF Shut
<1> QED
    BY <1>1, <1>3, <1>4, LessKeeps

LEMMA RunsStop ==
    ASSUME Kept, RunsOK, NEW l \in 1..Len(phase), Stop(l) \/ CloseLoop(l)
    PROVE  RunsOK'
<1>1. UNCHANGED <<tasks, live, call>>
    BY DEF Stop, CloseLoop, fields, callVars
<1>2. CASE Shut(l)
    <2>1. \A m \in 1..Len(phase) :
              phase[m] = "closed" => phase'[m] = "closed"
        BY <1>2, ShutKeeps
    <2> QED
        BY <1>1, <1>2, <2>1, ShutKeeps, RunsStay
<1>3. CASE /\ Holds(l, "stop") /\ queue' = Rest(l)
           /\ phase' = [phase EXCEPT ![l] = "stopping"]
    <2>1. PICK s \in Seq(Callbacks) : s = queue[l]
        BY LoopsShape
    <2>2. PICK r : r = Tail(s)
        OBVIOUS
    <2>3. /\ s # <<>> /\ Head(s).do = "stop" /\ phase[l] # "closed"
          /\ queue' = [queue EXCEPT ![l] = r]
        BY <1>3, <2>1, <2>2 DEF Holds, Turning, Rest
    <2>4. r \in Seq(Callbacks)
        BY <2>1, <2>2, <2>3, OneLess
    <2>5. ASSUME NEW d, NEW c
          PROVE  /\ Has(r, d, c) => Has(s, d, c)
                 /\ Has(s, d, c) => Has(r, d, c) \/ Is(Head(s), d, c)
        <3>1. /\ Has(Tail(s), d, c) => Has(s, d, c)
              /\ Has(s, d, c) => Has(Tail(s), d, c) \/ Is(Head(s), d, c)
              /\ Does(Tail(s), d) => Does(s, d)
            BY <2>1, <2>3, TailHas
        <3> QED
            BY <2>2, <3>1
    <2>6. \A c : ~Is(Head(s), "start", c)
        BY <2>3 DEF Is
    <2>7. Keeps
        BY <2>1, <2>3, <2>4, <2>5, <2>6, LessKeeps
    <2>8. \A m \in 1..Len(phase) :
              phase[m] = "closed" => phase'[m] = "closed"
        BY <1>3, <2>3, KeptShape
    <2> QED
        BY <1>1, <2>7, <2>8, RunsStay
<1> QED
    BY <1>2, <1>3 DEF Stop, CloseLoop

LEMMA DrainTasks ==
    ASSUME Kept, NEW l \in 1..Len(phase), Drain(l)
    PROVE  /\ Len(tasks') = Len(tasks)
           /\ \A c \in 1..Len(tasks) :
                  \/ tasks'[c] = tasks[c]
                  \/ tasks'[c] = Over("cancelled") /\ Pending(c)
           /\ \A c \in 1..Len(tasks) :
                  tasks[c].loop = l => tasks'[c].stage \in Ended \cup Handed
           /\ phase'[l] = "draining"
           /\ \A m \in 1..Len(phase) : m # l => phase'[m] = phase[m]
           /\ UNCHANGED <<queue, live, call>>
<1>1. PICK o : o = Over("cancelled")
    OBVIOUS
<1>2. o.stage \in Ended
    BY <1>1 DEF Over, Task, Ended
<1>3. DOMAIN tasks = 1..Len(tasks) /\ Len(tasks) \in Nat
    BY KeptShape
<1>4. tasks' = [c \in 1..Len(tasks) |->
          IF /\ Pending(c)
             /\ tasks[c].loop = l \/ (tasks[c].sent /\ tasks[c].at = l)
          THEN o ELSE tasks[c]]
    BY <1>1, <1>3 DEF Drain
<1>5. Len(tasks') = Len(tasks)
    BY <1>3, <1>4
<1>6. \A c \in 1..Len(tasks) :
          \/ tasks'[c] = tasks[c]
          \/ tasks'[c] = o /\ Pending(c)
    BY <1>4
<1>7. \A c \in 1..Len(tasks) :
          tasks[c].loop = l => tasks'[c].stage \in Ended \cup Handed
    <2> SUFFICES ASSUME NEW c \in 1..Len(tasks), tasks[c].loop = l,
                        ~Pending(c)
                 PROVE  tasks[c].stage \in Ended \cup Handed
        BY <1>2, <1>4
    <2>1. tasks[c] \in Tasks
        BY TaskShape
    <2> QED
        BY <2>1 DEF Tasks, Pending, Asking, Ended, Handed
<1>8. /\ phase'[l] = "draining"
      /\ \A m \in 1..Len(phase) : m # l => phase'[m] = phase[m]
      /\ UNCHANGED <<queue, live, call>>
    BY KeptShape DEF Drain, fields, callVars
<1> QED
    BY <1>1, <1>5, <1>6, <1>7, <1>8

LEMMA RunsDrain ==
    ASSUME Kept, RunsOK, NEW l \in 1..Len(phase), Drain(l)
    PROVE  RunsOK'
<1>1. PICK o : o = Over("cancelled")
    OBVIOUS
<1>2. o.stage \in Ended
    BY <1>1 DEF Over, Task, Ended
<1>3. /\ Len(tasks') = Len(tasks)
      /\ \A c \in 1..Len(tasks) : tasks'[c] = tasks[c] \/ tasks'[c] = o
      /\ \A m \in 1..Len(phase) : m # l => phase'[m] = phase[m]
      /\ UNCHANGED <<queue, live, call>> /\ phase[l] # "closed"
    BY <1>1, DrainTasks DEF Drain
<1>4. \A c \in 1..Len(tasks) : Follows(tasks[c], tasks'[c])
    BY <1>2, <1>3 DEF Follows
<1>5. \A c \in 1..Len(tasks) : tasks'[c] = tasks[c] \/ ~Under(tasks'[c])
    BY <1>2, <1>3 DEF Under
<1>6. \A m \in 1..Len(phase) :
          phase[m] = "closed" => phase'[m] = "closed"
    BY <1>3
<1>7. \A c \in 1..Len(tasks) : tasks[c].loop \in 1..Len(phase)
    BY TaskShape
<1>8. \A a \in Callers : call[a].pc \in Waits =>
          call[a].task \in 1..Len(tasks)
    BY CallShape DEF CallFits, Waits
<1> QED
    BY <1>3, <1>4, <1>5, <1>6, <1>7, <1>8, RunsFollow

LEMMA RunsCreate ==
    ASSUME Kept, RunsOK, NEW a \in Callers, CreateLoop(a)
    PROVE  RunsOK'
<1>1. PICK n \in Nat : n = Len(phase)
    BY LoopsShape
<1>2. /\ At(a, "create") /\ GoTo(a, "submit")
      /\ phase' = Append(phase, "running") /\ queue' = Append(queue, <<>>)
      /\ live' = live /\ tasks' = tasks
    BY DEF CreateLoop
<1>3. PICK k : Becomes(a, k) /\ k.pc = "submit"
    BY <1>2, GoToIs
<1>4. /\ call'[a].pc \notin Waits
      /\ call[a].pc \notin {"await", "unwind"}
      /\ \A b \in Callers : b # a => call'[b] = call[b]
    BY <1>2, <1>3, BecomesIs DEF Waits, At
<1>5. \A m \in 1..Len(phase) : phase'[m] = phase[m]
    BY <1>1, <1>2, KeptShape, OneMore DEF Phases
<1>6. PICK s : s = <<>>
    OBVIOUS
<1>7. s \in Seq(Callbacks) /\ \A d, c : ~Has(s, d, c)
    BY <1>6 DEF Has
<1>8. /\ Len(queue') = n + 1 /\ queue'[n + 1] = s /\ Len(queue) = n
      /\ \A m \in 1..n : queue'[m] = queue[m]
    <2>1. queue \in Seq(Seq(Callbacks)) /\ Len(queue) = n
        BY <1>1, LoopsShape
    <2>2. queue' = Append(queue, s)
        BY <1>2, <1>6
    <2> QED
        BY <1>7, <2>1, <2>2, OneMore
<1>9. Keeps
    <2>1. \A m \in 1..(n + 1) : m \in 1..n \/ m = n + 1
        OBVIOUS
    <2> QED
        BY <1>1, <1>7, <1>8, <2>1 DEF Keeps, NoneDo
<1> QED
    BY <1>2, <1>4, <1>5, <1>9, RunsStay

\* A step of one call that hands nothing over.
LEMMA RunsCall ==
    ASSUME Kept, RunsOK, NEW a \in Callers, NEW k, Becomes(a, k),
           UNCHANGED <<phase, tasks>>, live \subseteq live', Keeps,
           k.pc \notin Waits,
           call[a].pc \in {"await", "unwind"} => Done(a)
    PROVE  RunsOK'
<1>1. call'[a] = k /\ \A b \in Callers : b # a => call'[b] = call[b]
    BY BecomesIs
<1>2. Done(a) => ~Under(tasks[call[a].task])
    BY DEF Done, Under
<1> QED
    BY <1>1, <1>2, RunsStay

LEMMA RunsFail ==
    ASSUME Kept, RunsOK, NEW a \in Callers, Fail(a),
           UNCHANGED <<phase, tasks, live>>, Keeps,
           call[a].pc \notin {"await", "unwind"}
    PROVE  RunsOK'
<1>1. PICK k : Becomes(a, k) /\ k.pc \in {"idle", "read"}
    BY FailIs
<1> QED
    BY <1>1, RunsCall DEF Waits

LEMMA RunsReturn ==
    ASSUME Kept, RunsOK, NEW a \in Callers, Return(a),
           UNCHANGED <<phase, tasks>>, live \subseteq live', Keeps,
           call[a].pc \in {"await", "unwind"} => Done(a)
    PROVE  RunsOK'
<1>1. PICK k : Becomes(a, k) /\ k.pc = "idle"
    BY ReturnIs
<1> QED
    BY <1>1, RunsCall DEF Waits

LEMMA RunsGoTo ==
    ASSUME Kept, RunsOK, NEW a \in Callers, NEW pc, GoTo(a, pc),
           pc \notin Waits, UNCHANGED <<phase, tasks, live>>, Keeps,
           call[a].pc \notin {"await", "unwind"}
    PROVE  RunsOK'
<1>1. PICK k : Becomes(a, k) /\ k.pc = pc
    BY GoToIs
<1> QED
    BY <1>1, RunsCall

\* The steps of calls that do so.
LEMMA RunsPlain ==
    ASSUME Kept, RunsOK, NEW a \in Callers,
           \/ \E op \in {"connect", "request", "bind", "close"} :
                 \E h \in Handles : Call(a, op, h)
           \/ Enter(a) \/ Finish(a) \/ ReadLoop(a) \/ FinishClose(a)
           \/ StopLoop(a) \/ Join(a)
    PROVE  RunsOK'
<1>1. ASSUME NEW op \in {"connect", "request", "bind", "close"},
             NEW h \in Handles, Call(a, op, h)
      PROVE  RunsOK'
    <2>1. PICK k : k = [pc |-> IF op = "close" THEN "read" ELSE "enter",
                        op |-> op, handle |-> h, task |-> 0, loop |-> None]
        OBVIOUS
    <2>2. k.pc \notin Waits /\ Becomes(a, k)
        BY <1>1, <2>1 DEF Call, Called, Becomes, Waits
    <2>3. UNCHANGED <<phase, queue, tasks, live>> /\ call[a].pc = "idle"
        BY <1>1 DEF Call, Called, MayCall, At, loopVars, fields
    <2> QED
        BY <2>2, <2>3, NothingKeeps, RunsCall
<1>2. CASE Enter(a)
    <2>1. /\ UNCHANGED <<phase, queue, tasks, live>> /\ call[a].pc = "enter"
          /\ Fail(a) \/ GoTo(a, "submit") \/ GoTo(a, "create")
        BY <1>2 DEF Enter, At, loopVars, fields
    <2>2. "submit" \notin Waits /\ "create" \notin Waits
        BY DEF Waits
    <2> QED
        BY <2>1, <2>2, NothingKeeps, RunsFail, RunsGoTo
<1>3. CASE Finish(a)
    <2>1. /\ UNCHANGED <<phase, queue, tasks>> /\ call[a].pc = "wait"
          /\ \/ Fail(a) /\ live' = live
             \/ Return(a) /\ live \subseteq live'
        BY <1>3 DEF Finish, At, loopVars, fields, Copy
    <2> QED
        BY <2>1, NothingKeeps, RunsFail, RunsReturn
<1>4. CASE ReadLoop(a)
    <2>1. UNCHANGED <<phase, queue, tasks, live>> /\ call[a].pc = "read"
        BY <1>4 DEF ReadLoop, At, loopVars, fields
    <2>2. CASE Return(a)
        BY <2>1, <2>2, NothingKeeps, RunsReturn
    <2>3. CASE call' = [call EXCEPT ![a].pc = "close",
                                    ![a].loop = loopThread[call[a].handle]]
        <3>1. PICK c : c = call[a]
            OBVIOUS
        <3>2. PICK l : l = loopThread[c.handle]
            OBVIOUS
        <3>3. PICK k : k = [c EXCEPT !.pc = "close", !.loop = l]
            OBVIOUS
        <3>4. c \in CallRecords
            BY <3>1, CallShape
        <3>5. k.pc = "close"
            BY <3>3, <3>4 DEF CallRecords
        <3>6. Becomes(a, k)
            BY <2>3, <3>1, <3>2, <3>3 DEF Becomes
        <3> QED
            BY <2>1, <3>5, <3>6, NothingKeeps, RunsCall DEF Waits
    <2> QED
        BY <1>4, <2>2, <2>3 DEF ReadLoop
<1>5. CASE FinishClose(a)
    <2>1. /\ UNCHANGED <<phase, queue, tasks, live>>
          /\ call[a].pc = "closing" /\ AfterClose(a)
        BY <1>5 DEF FinishClose, At, loopVars, fields
    <2>2. PICK k : Becomes(a, k) /\ k.pc \in {"idle", "stop"}
        BY <2>1, AfterCloseIs
    <2> QED
        BY <2>1, <2>2, NothingKeeps, RunsCall DEF Waits
<1>6. CASE StopLoop(a)
    <2>1. PICK l : l = call[a].loop
        OBVIOUS
    <2>2. PICK x : x = Callback("stop", 0)
        OBVIOUS
    <2>3. /\ UNCHANGED <<phase, tasks, live>> /\ call[a].pc = "stop"
          /\ GoTo(a, "join")
          /\ \/ queue' = queue
             \/ queue' = [queue EXCEPT ![l] = Append(@, x)]
        BY <1>6, <2>1, <2>2 DEF StopLoop, At, fields
    <2>4. x \in Callbacks /\ x.do \notin {"step", "cancel"}
        BY <2>2 DEF Callback, Callbacks
    <2>5. l \in 1..Len(phase)
        BY <2>1, <2>3, CallShape DEF CallFits
    <2>6. Keeps
        BY <2>3, <2>4, <2>5, NothingKeeps, OneMoreKeeps
    <2> QED
        BY <2>3, <2>6, RunsGoTo DEF Waits
<1>7. CASE Join(a)
    <2>1. /\ UNCHANGED <<phase, queue, tasks, live>> /\ call[a].pc = "join"
          /\ Return(a)
        BY <1>7 DEF Join, At, loopVars, fields
    <2> QED
        BY <2>1, NothingKeeps, RunsReturn
<1> QED
    BY <1>1, <1>2, <1>3, <1>4, <1>5, <1>6, <1>7

\* The call of `a' becomes `k', which waits for a new coroutine `t' on loop
\* `l', that callback `x' is to start or to step.
Hands(a, k, t, l, x) ==
    /\ Becomes(a, k) /\ Adds(tasks, t, tasks') /\ Gained(queue, l, x, queue')
    /\ UNCHANGED <<phase, home, open, authenticated, session, resource, live>>
    /\ Alone(a) /\ phase[l] = "running"
    /\ k.task = Len(tasks) + 1 /\ k.loop = l /\ k.handle \in live \cup {Client}
    /\ call[a].pc # "idle" => k.op = call[a].op /\ k.handle = call[a].handle
    /\ t.loop = l /\ t.at = l /\ ~t.sent
    /\ t.handle = k.handle /\ t.op = Runs(k) /\ t.op # "none"
    /\ \/ /\ l # App /\ t.stage = "queued" /\ Is(x, "start", k.task)
          /\ loopThread[Client] = l
          /\ \/ /\ call[a].pc = "submit" /\ k.pc = "wait"
                /\ UNCHANGED loopThread
             \/ /\ call[a].pc = "close" /\ k.pc = "closing"
                /\ call[a].loop = l
                /\ loopThread' = [loopThread EXCEPT ![k.handle] = None]
       \/ /\ l = App /\ t.stage = "ready" /\ Is(x, "step", k.task)
          /\ UNCHANGED loopThread
          /\ \/ call[a].pc = "idle" /\ k.pc = "await"
             \/ /\ call[a].pc = "await" /\ k.pc = "unwind"
                /\ k.op = "connect" /\ Done(a) /\ ~Succeeded(a)

HandsOver(a) ==
    \E k : \E l \in 1..Len(phase), t \in Tasks, x \in Callbacks :
        Hands(a, k, t, l, x)

LEMMA CallbackIs ==
    ASSUME NEW do \in {"start", "step", "cancel"}, NEW c \in Nat,
           NEW x, x = Callback(do, c)
    PROVE  x \in Callbacks /\ Is(x, do, c) /\ x.via = None
BY DEF Callback, Callbacks, Is

LEMMA TaskIs ==
    ASSUME NEW op \in {"connect", "request", "aclose"}, NEW h \in Handles,
           NEW l \in Nat, NEW stage \in {"queued", "ready"},
           NEW t, t = Task(op, h, l, stage)
    PROVE  /\ t \in Tasks /\ t.op = op /\ t.handle = h /\ t.loop = l
           /\ t.at = l /\ ~t.sent /\ t.via = None /\ t.stage = stage
BY DEF Task, Tasks, Handed

\* The loop a call hands its coroutine to is the client's and runs.
LEMMA LoopRuns ==
    ASSUME Kept, TurnsOK, NEW a \in Callers,
           call[a].pc \in {"submit", "close"}, NEW l \in 2..Len(phase),
           ~Closed(l)
    PROVE  loopThread[Client] = l /\ phase[l] = "running"
<1>1. Alone(a)
    BY UnderWay DEF At
<1>2. \A b \in Callers : ~Ends(call[b], l)
    BY <1>1 DEF Ends, Alone, At
<1>3. LoopFits(l, phase[l], queue[l], loopThread, call)
    BY LoopsShape DEF TurnsOK
<1>4. l # App
    BY DEF App
<1> QED
    BY <1>2, <1>3, <1>4 DEF LoopFits, Closed

LEMMA HandOverHands ==
    ASSUME Kept, TurnsOK, NEW a \in Callers, NEW l \in 2..Len(phase),
           ~Closed(l), NEW pc, NEW op \in {"connect", "request", "aclose"},
           HandOver(a, op, call[a].handle, l, pc),
           UNCHANGED <<phase, home, open, authenticated, session, resource,
                       live>>,
           \/ /\ call[a].pc = "submit" /\ pc = "wait"
              /\ UNCHANGED loopThread /\ op = Coroutine(call[a].op)
           \/ /\ call[a].pc = "close" /\ pc = "closing" /\ op = "aclose"
              /\ call[a].loop = l
              /\ loopThread' = [loopThread EXCEPT ![call[a].handle] = None]
    PROVE  HandsOver(a)
<1>1. PICK c : c = call[a]
    OBVIOUS
<1>2. PICK k : /\ Becomes(a, k) /\ k.pc = pc /\ k.task = Len(tasks) + 1
               /\ k.loop = l /\ k.op = c.op /\ k.handle = c.handle
    BY <1>1, HandOverIs
<1>3. PICK t : t = Task(op, c.handle, l, "queued")
    OBVIOUS
<1>4. PICK x : x = Callback("start", Len(tasks) + 1)
    OBVIOUS
<1>5. c.handle \in Handles /\ l \in Nat /\ l # App /\ Len(tasks) + 1 \in Nat
      /\ l \in 1..Len(phase)
    BY <1>1, LoopsShape, KeptShape
<1>6. /\ t \in Tasks /\ t.op = op /\ t.handle = c.handle /\ t.loop = l
      /\ t.at = l /\ ~t.sent /\ t.via = None /\ t.stage = "queued"
    BY <1>3, <1>5, TaskIs
<1>7. x \in Callbacks /\ Is(x, "start", Len(tasks) + 1)
    BY <1>4, <1>5, CallbackIs
<1>8. Adds(tasks, t, tasks') /\ Gained(queue, l, x, queue')
    BY <1>1, <1>3, <1>4 DEF HandOver, Adds, Gained
<1>9. /\ Alone(a) /\ CallerFits(c, loopThread, live) /\ c.pc # "idle"
    BY <1>1, UnderWay DEF At
<1>10. c.handle \in live \cup {Client}
    BY <1>9 DEF CallerFits
<1>11. loopThread[Client] = l /\ phase[l] = "running"
    BY LoopRuns
<1>12. op = Runs(k)
    BY <1>1, <1>2 DEF Runs
<1>13. Hands(a, k, t, l, x)
    BY <1>1, <1>2, <1>5, <1>6, <1>7, <1>8, <1>9, <1>10, <1>11, <1>12
       DEF Hands
<1> QED
    BY <1>5, <1>6, <1>7, <1>13 DEF HandsOver

LEMMA SubmitHands ==
    ASSUME Kept, TurnsOK, NEW a \in Callers, Submit(a)
    PROVE  \/ Fail(a) /\ UNCHANGED <<queue, tasks>>
           \/ HandsOver(a)
<1>1. PICK h : h = call[a].handle
    OBVIOUS
<1>2. PICK l : l = loopThread[h]
    OBVIOUS
<1>3. SUFFICES ASSUME Alive(l),
                      HandOver(a, Coroutine(call[a].op), h, l, "wait")
               PROVE  HandsOver(a)
    <2>1. Alive(l) => l \in 1..Len(phase)
        BY <1>1, <1>2, LoopsShape DEF Alive
    <2> QED
        BY <1>1, <1>2, <2>1 DEF Submit
<1>4. l \in 2..Len(phase) /\ ~Closed(l) /\ call[a].pc = "submit"
    BY <1>1, <1>2, <1>3, LoopsShape DEF Alive, Submit, At
<1>5. PICK op \in {"connect", "request", "aclose"} :
          op = Coroutine(call[a].op)
    BY DEF Coroutine
<1>6. UNCHANGED <<phase, home, open, authenticated, session, resource, live,
                  loopThread>>
    BY DEF Submit, sessionVars, fields
<1>7. HandOver(a, op, call[a].handle, l, "wait")
    BY <1>1, <1>3, <1>5
<1> QED
    BY <1>4, <1>5, <1>6, <1>7, HandOverHands

LEMMA SubmitCloseHands ==
    ASSUME Kept, TurnsOK, NEW a \in Callers, SubmitClose(a)
    PROVE  \/ /\ Closed(call[a].loop) /\ AfterClose(a)
              /\ UNCHANGED <<queue, tasks>>
           \/ HandsOver(a)
<1>1. PICK h : h = call[a].handle
    OBVIOUS
<1>2. PICK l : l = call[a].loop
    OBVIOUS
<1>3. call[a].pc = "close" /\ ~At(a, "idle")
    BY DEF SubmitClose, At
<1>4. CallerFits(call[a], loopThread, live)
    BY <1>3, UnderWay
<1>5. l # None /\ loopThread[h] = l
    BY <1>1, <1>2, <1>3, <1>4 DEF CallerFits
<1>6. l \in 2..Len(phase) /\ l \in 1..Len(phase)
    BY <1>1, <1>5, LoopsShape
<1>7. SUFFICES ASSUME ~Closed(l), HandOver(a, "aclose", h, l, "closing")
               PROVE  HandsOver(a)
    BY <1>1, <1>2, <1>6 DEF SubmitClose
<1>8. PICK op \in {"connect", "request", "aclose"} : op = "aclose"
    OBVIOUS
<1>9. /\ UNCHANGED <<phase, home, open, authenticated, session, resource,
                     live>>
      /\ loopThread' = [loopThread EXCEPT ![call[a].handle] = None]
    BY DEF SubmitClose, sessionVars
<1>10. HandOver(a, op, call[a].handle, l, "closing")
    BY <1>1, <1>7, <1>8
<1> QED
    BY <1>2, <1>3, <1>6, <1>7, <1>8, <1>9, <1>10, HandOverHands

LEMMA BeginHands ==
    ASSUME Kept, TurnsOK, NEW a \in Callers, NEW k, Becomes(a, k),
           NEW op \in {"connect", "request", "aclose"}, op = Runs(k),
           Begin(a, op, k.handle), Alone(a),
           k.task = Len(tasks) + 1, k.loop = App,
           k.handle \in live \cup {Client},
           UNCHANGED <<phase, home, open, authenticated, session, resource,
                       live, loopThread>>,
           call[a].pc # "idle" =>
               k.op = call[a].op /\ k.handle = call[a].handle,
           \/ call[a].pc = "idle" /\ k.pc = "await"
           \/ /\ call[a].pc = "await" /\ k.pc = "unwind"
              /\ k.op = "connect" /\ Done(a) /\ ~Succeeded(a)
    PROVE  HandsOver(a)
<1>1. PICK t : t = Task(op, k.handle, App, "ready")
    OBVIOUS
<1>2. PICK x : x = Callback("step", Len(tasks) + 1)
    OBVIOUS
<1>3. PICK l : l = App
    OBVIOUS
<1>4. k.handle \in Handles /\ l \in Nat /\ Len(tasks) + 1 \in Nat
      /\ l \in 1..Len(phase)
    BY <1>3, LoopsShape, KeptShape DEF Kept, FieldsOK, Handles
<1>5. /\ t \in Tasks /\ t.op = op /\ t.handle = k.handle /\ t.loop = l
      /\ t.at = l /\ ~t.sent /\ t.via = None /\ t.stage = "ready"
    BY <1>1, <1>3, <1>4, TaskIs
<1>6. x \in Callbacks /\ Is(x, "step", Len(tasks) + 1)
    BY <1>2, <1>4, CallbackIs
<1>7. Adds(tasks, t, tasks') /\ Gained(queue, l, x, queue')
    BY <1>1, <1>2, <1>3 DEF Begin, Adds, Gained
<1>8. phase[l] = "running"
    <2>1. LoopFits(l, phase[l], queue[l], loopThread, call)
        BY <1>4 DEF TurnsOK
    <2> QED
        BY <1>3, <2>1 DEF LoopFits
<1>9. Hands(a, k, t, l, x)
    BY <1>3, <1>5, <1>6, <1>7, <1>8 DEF Hands
<1> QED
    BY <1>4, <1>5, <1>6, <1>9 DEF HandsOver

LEMMA AwaitHands ==
    ASSUME Kept, TurnsOK, Careful, NEW a \in Callers,
           NEW op \in {"connect", "request", "aclose"},
           NEW h \in Handles, Await(a, op, h)
    PROVE  HandsOver(a)
<1>1. Alone(a) /\ At(a, "idle") /\ h \in live \cup {Client}
    BY DEF Await, MayCall, Careful, Alone
<1>2. PICK n : n = Len(tasks) + 1
    OBVIOUS
<1>3. PICK k : k = [pc |-> "await", op |-> op, handle |-> h,
                    task |-> n, loop |-> App]
    OBVIOUS
<1>4. Becomes(a, k)
    BY <1>2, <1>3 DEF Await, Becomes
<1>5. /\ k.pc = "await" /\ k.op = op /\ k.handle = h /\ k.loop = App
      /\ k.task = n
    BY <1>3
<1>6. op = Runs(k)
    BY <1>5 DEF Runs
<1>7. UNCHANGED <<phase, home, open, authenticated, session, resource,
                  live, loopThread>>
    BY DEF Await, sessionVars, fields
<1>8. Begin(a, op, k.handle) /\ call[a].pc = "idle"
    BY <1>1, <1>5 DEF Await, At
<1> QED
    BY <1>1, <1>2, <1>4, <1>5, <1>6, <1>7, <1>8, BeginHands

LEMMA ResumeHands ==
    ASSUME Kept, TurnsOK, NEW a \in Callers, Resume(a)
    PROVE  \/ Return(a) /\ UNCHANGED <<queue, tasks>>
           \/ HandsOver(a)
<1>1. PICK c : c = call[a]
    OBVIOUS
<1>2. SUFFICES ASSUME c.pc = "await", c.op = "connect", ~Succeeded(a),
                      Begin(a, "aclose", c.handle),
                      call' = [call EXCEPT ![a].pc = "unwind",
                                           ![a].task = Len(tasks) + 1]
               PROVE  HandsOver(a)
    BY <1>1 DEF Resume, At
<1>3. PICK n : n = Len(tasks) + 1
    OBVIOUS
<1>4. PICK k : k = [c EXCEPT !.pc = "unwind", !.task = n]
    OBVIOUS
<1>5. c \in CallRecords
    BY <1>1, CallShape
<1>6. /\ k.pc = "unwind" /\ k.op = c.op /\ k.handle = c.handle
      /\ k.loop = c.loop /\ k.task = n
    BY <1>4, <1>5 DEF CallRecords
<1>7. Becomes(a, k)
    BY <1>1, <1>2, <1>3, <1>4 DEF Becomes
<1>8. Alone(a) /\ CallerFits(c, loopThread, live)
    BY <1>1, <1>2, UnderWay DEF At
<1>9. c.loop = App /\ c.handle \in live \cup {Client}
    BY <1>2, <1>8 DEF CallerFits
<1>10. PICK op \in {"connect", "request", "aclose"} : op = "aclose"
    OBVIOUS
<1>11. op = Runs(k) /\ Begin(a, op, k.handle)
    BY <1>2, <1>6, <1>10 DEF Runs
<1>12. /\ UNCHANGED <<phase, home, open, authenticated, session, resource,
                      live, loopThread>>
       /\ Done(a)
    BY DEF Resume, sessionVars, fields
<1> QED
    BY <1>1, <1>2, <1>3, <1>6, <1>7, <1>8, <1>9, <1>10, <1>11, <1>12,
       BeginHands

LEMMA RunsHand ==
    ASSUME Kept, RunsOK, NEW a \in Callers, HandsOver(a)
    PROVE  RunsOK'
<1>1. PICK k : \E l \in 1..Len(phase), t \in Tasks, x \in Callbacks :
                   Hands(a, k, t, l, x)
    BY DEF HandsOver
<1>2. PICK l \in 1..Len(phase), t \in Tasks, x \in Callbacks :
          Hands(a, k, t, l, x)
    BY <1>1
<1>3. PICK n \in Nat : n = Len(tasks)
    BY KeptShape
<1>4. /\ Becomes(a, k) /\ Adds(tasks, t, tasks') /\ Gained(queue, l, x, queue')
      /\ UNCHANGED <<phase, live>> /\ Alone(a)
      /\ k.task = n + 1 /\ k.loop = l /\ k.handle \in live \cup {Client}
      /\ t.loop = l /\ t.handle = k.handle /\ t.op = Runs(k)
      /\ t.op # "none" /\ k.pc \in Waits
      /\ call[a].pc \in {"await", "unwind"} => Done(a)
      /\ \/ l # App /\ t.stage = "queued" /\ Is(x, "start", n + 1)
         \/ /\ l = App /\ t.stage = "ready" /\ Is(x, "step", n + 1)
            /\ k.pc \in {"await", "unwind"}
    BY <1>2, <1>3 DEF Hands, Waits
<1>5. /\ Len(tasks') = n + 1 /\ tasks'[n + 1] = t
      /\ \A c \in 1..n : tasks'[c] = tasks[c]
    BY <1>2, <1>3, <1>4, KeptShape, OneMoreTask
<1>6. call'[a] = k /\ \A b \in Callers : b # a => call'[b] = call[b]
    BY <1>4, BecomesIs
<1>7. \A b \in Callers : b # a => call[b].pc = "idle"
    BY <1>4 DEF Alone, At
<1>8. ASSUME NEW d, NEW c
      PROVE  /\ Len(queue') = Len(queue)
             /\ \A m \in 1..Len(queue) :
                    Has(queue'[m], d, c) <=>
                        Has(queue[m], d, c) \/ (m = l /\ Is(x, d, c))
             /\ (NoneDo(queue, d, c) /\ ~Is(x, d, c)) => NoneDo(queue', d, c)
    <2>1. PICK p : p = queue'
        OBVIOUS
    <2>2. /\ queue \in Seq(Seq(Callbacks)) /\ l \in 1..Len(queue)
          /\ Gained(queue, l, x, p)
        BY <1>4, <2>1, LoopsShape
    <2>3. /\ Len(p) = Len(queue)
          /\ \A m \in 1..Len(queue) :
                 Has(p[m], d, c) <=>
                     Has(queue[m], d, c) \/ (m = l /\ Is(x, d, c))
          /\ (NoneDo(queue, d, c) /\ ~Is(x, d, c)) => NoneDo(p, d, c)
        BY <2>2, Gains
    <2> QED
        BY <2>1, <2>3
<1>9. Len(queue) = Len(phase)
    BY LoopsShape
<1>10. ASSUME NEW c \in 1..n
       PROVE  /\ Reached(tasks'[c], live') /\ OnApp(c, tasks'[c], call')
              /\ Awaited(c, tasks'[c], phase', queue')
    <2>1. /\ Reached(tasks[c], live) /\ OnApp(c, tasks[c], call)
          /\ Awaited(c, tasks[c], phase, queue) /\ c \in 1..Len(tasks)
        BY <1>3 DEF RunsOK
    <2>2. PICK u : u = tasks[c]
        OBVIOUS
    <2>3. tasks'[c] = u /\ u.loop \in 1..Len(queue)
        BY <1>5, <1>9, <2>1, <2>2, TaskShape
    <2>4. \A d : ~Is(x, d, c)
        <3>1. c # n + 1
            OBVIOUS
        <3> QED
            BY <1>4, <3>1 DEF Is
    <2>5. OnApp(c, u, call')
        <3>1. ASSUME NEW b \in Callers, Mine(call[b], c), Under(u),
                     call[b].pc \in {"await", "unwind"}
              PROVE  FALSE
            <4>1. b = a
                BY <1>7, <3>1
            <4>2. tasks[call[a].task].stage \in Ended
                BY <1>4, <3>1, <4>1 DEF Done
            <4> QED
                BY <2>2, <3>1, <4>1, <4>2 DEF Mine, Under
        <3> QED
            BY <2>1, <2>2, <3>1 DEF OnApp
    <2>6. Awaited(c, u, phase', queue')
        <3>1. /\ NoneDo(queue, "step", c) => NoneDo(queue', "step", c)
              /\ NoneDo(queue, "cancel", c) => NoneDo(queue', "cancel", c)
            BY <1>8, <2>4
        <3>2. Has(queue[u.loop], "start", c) => Has(queue'[u.loop], "start", c)
            BY <1>8, <2>3
        <3> QED
            BY <1>4, <2>1, <2>2, <3>1, <3>2 DEF Awaited
    <2> QED
        BY <1>4, <2>1, <2>2, <2>3, <2>5, <2>6
<1>11. NoneDo(queue', "cancel", n + 1)
       /\ (t.stage = "queued" => /\ NoneDo(queue', "step", n + 1)
                                 /\ Has(queue'[l], "start", n + 1))
    <2>1. \A d : NoneDo(queue, d, n + 1)
        BY <1>3, NoneNew DEF NoneDo
    <2>2. ~Is(x, "cancel", n + 1)
          /\ (t.stage = "queued" =>
                ~Is(x, "step", n + 1) /\ Is(x, "start", n + 1))
        BY <1>4 DEF Is
    <2> QED
        BY <1>8, <1>9, <2>1, <2>2
<1>12. /\ Reached(t, live') /\ OnApp(n + 1, t, call')
       /\ Awaited(n + 1, t, phase', queue')
    <2>1. Reached(t, live')
        BY <1>4 DEF Reached, Kind
    <2>2. OnApp(n + 1, t, call')
        BY <1>4, <1>6 DEF OnApp, Mine, Handed
    <2>3. Awaited(n + 1, t, phase', queue')
        BY <1>4, <1>11 DEF Awaited, Handed
    <2> QED
        BY <2>1, <2>2, <2>3
<1>13. ASSUME NEW b \in Callers
       PROVE  OwnTask(call'[b], tasks', queue')
    <2>1. CASE b # a
        BY <1>6, <1>7, <2>1 DEF OwnTask, Waits
    <2>2. OwnTask(k, tasks', queue')
        BY <1>4, <1>5, <1>11 DEF OwnTask
    <2> QED
        BY <1>6, <2>1, <2>2
<1>14. \A c \in 1..(n + 1) : c \in 1..n \/ c = n + 1
    OBVIOUS
<1> QED
    BY <1>5, <1>10, <1>12, <1>13, <1>14 DEF RunsOK

\* The coroutine is given up: started later and cancelled then, or cancelled.
LEMMA GivesUp ==
    ASSUME Kept, TurnsOK, RunsOK, NEW a \in Callers, Interrupt(a)
    PROVE  LET c == call[a].task
           IN  /\ c \in 1..Len(tasks) /\ call[a].pc = "wait" /\ Alone(a)
               /\ Fail(a) /\ UNCHANGED <<phase, live>>
               /\ c = Len(tasks) /\ Under(tasks[c])
               /\ tasks[c].loop = call[a].loop
               /\ tasks[c].loop \in 1..Len(phase)
               /\ tasks[c].handle = call[a].handle
               /\ tasks[c].op = Coroutine(call[a].op)
               /\ tasks[c].stage # "dropped"
               /\ \/ /\ tasks[c].stage = "queued" /\ queue' = queue
                     /\ \E u \in Tasks :
                           /\ Puts(tasks, c, u, tasks')
                           /\ u.stage = "dropped"
                           /\ u.op = tasks[c].op
                           /\ u.handle = tasks[c].handle
                           /\ u.loop = tasks[c].loop /\ u.at = tasks[c].at
                           /\ u.sent = tasks[c].sent /\ u.via = tasks[c].via
                  \/ /\ tasks[c].stage \notin Handed /\ tasks' = tasks
                     /\ \/ Closed(tasks[c].loop) /\ queue' = queue
                        \/ \E x \in Callbacks :
                             /\ ~Closed(tasks[c].loop)
                             /\ Is(x, "cancel", c) /\ x.via = None
                             /\ Gained(queue, tasks[c].loop, x, queue')
<1>1. PICK c : c = call[a].task
    OBVIOUS
<1>2. /\ call[a].pc = "wait" /\ ~Done(a) /\ GiveUp(c) /\ Fail(a)
      /\ UNCHANGED <<phase, live>>
    BY <1>1 DEF Interrupt, At, fields
<1>3. Alone(a)
    BY <1>2, UnderWay DEF At
<1>4. c \in 1..Len(tasks)
    BY <1>1, <1>2, CallShape DEF CallFits
<1>5. Under(tasks[c])
    BY <1>1, <1>2 DEF Done, Under
<1>6. /\ c = Len(tasks) /\ tasks[c].loop = call[a].loop
      /\ tasks[c].handle = call[a].handle
      /\ tasks[c].op = Coroutine(call[a].op)
      /\ tasks[c].stage # "dropped"
    BY <1>1, <1>2, <1>5 DEF RunsOK, OwnTask, Waits, Runs
<1>7. tasks[c] \in Tasks /\ tasks[c].loop \in 1..Len(phase) /\ c \in Nat
    BY <1>4, TaskShape, KeptShape
<1>8. CASE /\ tasks[c].stage = "queued" /\ queue' = queue
           /\ tasks' = [tasks EXCEPT ![c].stage = "dropped"]
    <2>1. PICK u : u = [tasks[c] EXCEPT !.stage = "dropped"]
        OBVIOUS
    <2>2. /\ u \in Tasks /\ u.stage = "dropped" /\ u.op = tasks[c].op
          /\ u.handle = tasks[c].handle /\ u.loop = tasks[c].loop
          /\ u.at = tasks[c].at /\ u.sent = tasks[c].sent
          /\ u.via = tasks[c].via
        BY <1>7, <2>1 DEF Tasks, Handed
    <2>3. Puts(tasks, c, u, tasks')
        BY <1>8, <2>1 DEF Puts
    <2> QED
        BY <1>1, <1>2, <1>3, <1>4, <1>5, <1>6, <1>7, <1>8, <2>2, <2>3
<1>9. CASE tasks[c].stage # "queued" /\ tasks' = tasks
    <2>1. tasks[c].stage \notin Handed
        BY <1>6, <1>9 DEF Handed
    <2>2. CASE Closed(tasks[c].loop)
        <3>1. queue' = queue
            BY <1>2, <1>9, <2>2 DEF GiveUp
        <3> QED
            BY <1>1, <1>2, <1>3, <1>4, <1>5, <1>6, <1>7, <1>9, <2>1, <2>2, <3>1
    <2>3. CASE ~Closed(tasks[c].loop)
        <3>1. PICK x : x = Callback("cancel", c)
            OBVIOUS
        <3>2. x \in Callbacks /\ Is(x, "cancel", c) /\ x.via = None
            BY <1>7, <3>1, CallbackIs
        <3>3. Gained(queue, tasks[c].loop, x, queue')
            BY <1>2, <1>9, <2>3, <3>1 DEF GiveUp, Gained
        <3> QED
            BY <1>1, <1>2, <1>3, <1>4, <1>5, <1>6, <1>7, <1>9, <2>1, <2>3,
               <3>2, <3>3
    <2> QED
        BY <2>2, <2>3
<1> QED
    BY <1>2, <1>8, <1>9 DEF GiveUp

LEMMA RunsInterrupt ==
    ASSUME Kept, TurnsOK, RunsOK, NEW a \in Callers, Interrupt(a)
    PROVE  RunsOK'
<1>1. PICK c : c = call[a].task
    OBVIOUS
<1>2. /\ c \in 1..Len(tasks) /\ call[a].pc = "wait" /\ Alone(a)
      /\ Fail(a) /\ UNCHANGED <<phase, live>> /\ tasks[c].stage # "dropped"
      /\ tasks[c].loop \in 1..Len(phase)
      /\ \/ /\ tasks[c].stage = "queued" /\ queue' = queue
            /\ \E u \in Tasks :
                  /\ Puts(tasks, c, u, tasks') /\ u.stage = "dropped"
                  /\ u.op = tasks[c].op /\ u.handle = tasks[c].handle
                  /\ u.loop = tasks[c].loop
         \/ /\ tasks[c].stage \notin Handed /\ tasks' = tasks
            /\ \/ queue' = queue
               \/ \E x \in Callbacks :
                    /\ Is(x, "cancel", c)
                    /\ Gained(queue, tasks[c].loop, x, queue')
    BY <1>1, GivesUp
<1>3. PICK k : Becomes(a, k) /\ k.pc \in {"idle", "read"}
    BY <1>2, FailIs
<1>4. /\ call'[a] = k /\ k.pc \notin Waits
      /\ \A b \in Callers : b # a =>
             call'[b] = call[b] /\ call[b].pc \notin Waits
    BY <1>2, <1>3, BecomesIs DEF Alone, At, Waits
<1>5. CASE /\ tasks[c].stage = "queued" /\ queue' = queue
           /\ \E u \in Tasks :
                 /\ Puts(tasks, c, u, tasks') /\ u.stage = "dropped"
                 /\ u.op = tasks[c].op /\ u.handle = tasks[c].handle
                 /\ u.loop = tasks[c].loop
    <2>1. PICK u \in Tasks :
              /\ Puts(tasks, c, u, tasks') /\ u.stage = "dropped"
              /\ u.op = tasks[c].op /\ u.handle = tasks[c].handle
              /\ u.loop = tasks[c].loop
        BY <1>5
    <2>2. /\ Len(tasks') = Len(tasks) /\ tasks'[c] = u
          /\ \A d \in 1..Len(tasks) : d # c => tasks'[d] = tasks[d]
        BY <1>2, <2>1, KeptShape, OneChanged DEF Puts
    <2>3. \A d \in 1..Len(tasks) : Follows(tasks[d], tasks'[d])
        <3>1. Follows(tasks[c], tasks'[c])
            BY <1>5, <2>1, <2>2 DEF Follows, Kind, Handed, Ended
        <3> QED
            BY <2>2, <3>1 DEF Follows
    <2> QED
        BY <1>2, <1>4, <1>5, <2>2, <2>3, RunsFollow
<1>6. CASE tasks[c].stage \notin Handed /\ tasks' = tasks
           /\ \E x \in Callbacks :
                /\ Is(x, "cancel", c)
                /\ Gained(queue, tasks[c].loop, x, queue')
    <2>1. PICK x \in Callbacks :
              /\ Is(x, "cancel", c)
              /\ Gained(queue, tasks[c].loop, x, queue')
        BY <1>6
    <2>2. PICK p : p = queue'
        OBVIOUS
    <2>3. PICK l : l = tasks[c].loop
        OBVIOUS
    <2>4. /\ queue \in Seq(Seq(Callbacks)) /\ l \in 1..Len(queue)
          /\ Gained(queue, l, x, p) /\ Len(queue) = Len(phase)
        BY <1>2, <2>1, <2>2, <2>3, LoopsShape
    <2>5. ASSUME NEW d, NEW e
          PROVE  /\ Len(p) = Len(queue)
                 /\ \A m \in 1..Len(queue) :
                        Has(p[m], d, e) <=>
                            Has(queue[m], d, e) \/ (m = l /\ Is(x, d, e))
                 /\ (NoneDo(queue, d, e) /\ ~Is(x, d, e)) => NoneDo(p, d, e)
        BY <2>1, <2>4, Gains
    <2>6. \A e : ~Is(x, "step", e) /\ (Is(x, "cancel", e) => e = c)
        BY <2>1 DEF Is
    <2>7. \A e \in 1..Len(tasks) : tasks'[e].stage \in Handed =>
              /\ NoneDo(queue, "step", e) => NoneDo(queue', "step", e)
              /\ NoneDo(queue, "cancel", e) => NoneDo(queue', "cancel", e)
              /\ Has(queue[tasks[e].loop], "start", e) =>
                     Has(queue'[tasks[e].loop], "start", e)
        <3> SUFFICES ASSUME NEW e \in 1..Len(tasks), e # c
                     PROVE  /\ NoneDo(queue, "step", e) =>
                                   NoneDo(queue', "step", e)
                            /\ NoneDo(queue, "cancel", e) =>
                                   NoneDo(queue', "cancel", e)
                            /\ Has(queue[tasks[e].loop], "start", e) =>
                                   Has(queue'[tasks[e].loop], "start", e)
            BY <1>6
        <3>1. tasks[e].loop \in 1..Len(queue)
            BY <2>4, TaskShape
        <3> QED
            BY <2>2, <2>5, <2>6, <3>1
    <2>8. \A e \in 1..Len(tasks) : Follows(tasks[e], tasks'[e])
        BY <1>6 DEF Follows
    <2> QED
        BY <1>2, <1>4, <1>6, <2>7, <2>8, RunsFollow
<1>7. CASE tasks' = tasks /\ queue' = queue
    BY <1>2, <1>3, <1>7, NothingKeeps, RunsFail
<1> QED
    BY <1>2, <1>5, <1>6, <1>7

LEMMA InitRuns ==
    ASSUME Init
    PROVE  RunsOK
<1>1. Len(tasks) = 0
    BY DEF Init
<1>2. PICK k : k = NoCall
    OBVIOUS
<1>3. k.pc = "idle" /\ \A a \in Callers : call[a] = k
    BY <1>2 DEF NoCall, Init
<1> QED
    BY <1>1, <1>3 DEF RunsOK, OwnTask, Waits

\* The steps of calls and of loops that change what is handed over, and those
\* that do not.
LEMMA RunsKeep ==
    ASSUME Kept, Careful, TurnsOK, RunsOK, [Next]_vars
    PROVE  RunsOK'
<1>1. CASE UNCHANGED vars
    BY <1>1, NothingKeeps, RunsStay DEF vars
<1>2. ASSUME NEW a \in Callers, HandsOver(a)
      PROVE  RunsOK'
    BY <1>2, RunsHand
<1>3. ASSUME NEW a \in Callers, Submit(a)
      PROVE  RunsOK'
    <2>1. /\ UNCHANGED <<phase, live>>
          /\ call[a].pc \notin {"await", "unwind"}
        BY <1>3 DEF Submit, At, fields
    <2> QED
        BY <1>2, <1>3, <2>1, SubmitHands, NothingKeeps, RunsFail
<1>4. ASSUME NEW a \in Callers, SubmitClose(a)
      PROVE  RunsOK'
    <2>1. /\ UNCHANGED <<phase, live>>
          /\ call[a].pc \notin {"await", "unwind"}
        BY <1>4 DEF SubmitClose, At
    <2>2. CASE AfterClose(a) /\ UNCHANGED <<queue, tasks>>
        <3>1. PICK k : Becomes(a, k) /\ k.pc \in {"idle", "stop"}
            BY <2>2, AfterCloseIs
        <3> QED
            BY <2>1, <2>2, <3>1, NothingKeeps, RunsCall DEF Waits
    <2> QED
        BY <1>2, <1>4, <2>2, SubmitCloseHands
<1>5. ASSUME NEW a \in Callers, Resume(a)
      PROVE  RunsOK'
    <2>1. Done(a) /\ UNCHANGED <<phase, live>>
        BY <1>5 DEF Resume, fields
    <2> QED
        BY <1>2, <1>5, <2>1, ResumeHands, NothingKeeps, RunsReturn
<1>6. ASSUME NEW a \in Callers, Proceed(a)
      PROVE  RunsOK'
    BY <1>3, <1>4, <1>5, <1>6, RunsCreate, RunsPlain DEF Proceed
<1>7. ASSUME NEW a \in Callers, UserStep(a)
      PROVE  RunsOK'
    <2>1. ~InterruptClose(a)
        BY DEF Careful, InterruptClose
    <2> QED
        BY <1>7, <2>1, RunsInterrupt, RunsPlain DEF UserStep
<1>8. ASSUME GoOnStep
      PROVE  RunsOK'
    BY <1>8, GoingOn, RunsGoOn
<1>9. ASSUME NEW a \in Cells, CellStep(a)
      PROVE  RunsOK'
    <2>1. a \in Callers
        BY DEF Callers
    <2> QED
        BY <1>2, <1>8, <1>9, <2>1, AwaitHands DEF CellStep, GoOnStep
<1>10. ASSUME NEW l \in DOMAIN phase, LoopStep(l)
       PROVE  RunsOK'
    <2>1. l \in 1..Len(phase)
        BY KeptShape
    <2>2. LoopTurn(l) => GoOnStep
        BY DEF GoOnStep
    <2> QED
        BY <1>8, <1>10, <2>1, <2>2, RunsStart, RunsStop, RunsDrain
           DEF LoopStep, LoopTurn
<1> QED
    BY <1>1, <1>6, <1>7, <1>8, <1>9, <1>10 DEF Next, GoOnStep

\* Callers that take turns wait for the last coroutine handed over, on the
\* loop it was handed to, and nobody cancels it for them; only an awaited
\* coroutine runs on the application's loop (qclient.py, _run and run).
THEOREM CarefulCallersWaitForTheirOwn == Spec => [](Careful => RunsOK)
<1>1. Init => (Careful => RunsOK)
    BY InitRuns
<1>2. /\ Kept /\ (Careful => TurnsOK) /\ (Careful => RunsOK)
      /\ [Next]_vars
      => (Careful => RunsOK)'
    BY RunsKeep, CarefulStays
<1> QED
    BY <1>1, <1>2, KeptAlways, CarefulCallersTakeTurns, PTL DEF Spec

-----------------------------------------------------------------------------
(* Callers that take turns, third part: a synchronous call under way in a  *)
(* cell is not for a session of the application's loop.                    *)

Syncs(k) ==
    \/ k.pc \in {"create", "submit", "wait"}
    \/ k.pc = "read" /\ k.loop # None

SyncOK ==
    \A a \in Cells : \A h \in Handles :
        (Syncs(call[a]) /\ call[a].handle = h) => Owner(h) # App

\* Coroutine `c' takes its first step on loop `l'.
Steps(c, l) == Step(l) /\ c = Head(queue[l]).task

LEMMA StepsReady ==
    ASSUME Kept, NEW l \in 1..Len(phase), Step(l)
    PROVE  \E c \in 1..Len(tasks) :
               /\ Steps(c, l) /\ Ready(c, l) /\ Is(Head(queue[l]), "step", c)
               /\ queue[l] # <<>>
               /\ Connect(c, l) \/ Close(c, l) \/ Use(c, l)
<1>1. PICK c : c = Head(queue[l]).task
    OBVIOUS
<1>2. /\ Holds(l, "step") /\ tasks[c].stage = "ready"
      /\ Connect(c, l) \/ Close(c, l) \/ Use(c, l)
    BY <1>1 DEF Step
<1>3. Ready(c, l)
    BY <1>1, <1>2, StepReady
<1>4. Is(Head(queue[l]), "step", c) /\ queue[l] # <<>>
    BY <1>1, <1>2 DEF Holds, Is
<1>5. c \in 1..Len(tasks)
    BY <1>3 DEF Ready
<1> QED
    BY <1>1, <1>2, <1>3, <1>4, <1>5 DEF Steps

\* A handle gets another session by connecting anew.
OwnerMoves(h) ==
    \/ Owner(h)' = Owner(h)
    \/ Owner(h)' = None
    \/ \E l \in 1..Len(phase) : \E c \in 1..Len(tasks) :
           /\ Steps(c, l) /\ Ready(c, l) /\ tasks[c].op = "connect"
           /\ ConnectAnew(c, l)
           /\ tasks[c].handle = h /\ Owner(h)' = l

LEMMA SameOwner ==
    ASSUME UNCHANGED <<home, session>>, NEW h
    PROVE  OwnerMoves(h)
BY DEF OwnerMoves, Owner

LEMMA NoOwner ==
    ASSUME Kept, home' = home, NEW h \in Handles,
           session' = [session EXCEPT ![Client] = None]
    PROVE  OwnerMoves(h)
<1>1. session'[h] \in {session[h], None}
    BY DEF Kept, FieldsOK
<1> QED
    BY <1>1 DEF OwnerMoves, Owner

LEMMA StepOwner ==
    ASSUME Kept, NEW l \in 1..Len(phase), Step(l), NEW h \in Handles
    PROVE  OwnerMoves(h)
<1>1. PICK c \in 1..Len(tasks) :
          /\ Steps(c, l) /\ Ready(c, l)
          /\ Connect(c, l) \/ Close(c, l) \/ Use(c, l)
    BY StepsReady
<1>2. CASE Connect(c, l)
    <2>1. CASE ConnectAgain(c, l)
        BY <2>1, SameOwner DEF ConnectAgain
    <2>2. CASE ConnectReusing(c, l)
        BY <2>2, SameOwner DEF ConnectReusing
    <2>3. CASE ConnectAnew(c, l)
        <3>1. PICK i : i = tasks[c].handle
            OBVIOUS
        <3>2. PICK s : s = Len(home) + 1
            OBVIOUS
        <3>3. /\ session' = [session EXCEPT ![i] = s]
              /\ home' = Append(home, l) /\ tasks[c].op = "connect"
            BY <1>2, <2>3, <3>1, <3>2 DEF ConnectAnew, Connect
        <3>4. /\ home \in Seq(Nat) /\ Len(home) \in Nat /\ l \in Nat
              /\ s # None /\ None \notin Nat
              /\ session \in [Handles -> (1..Len(home)) \cup {None}]
            BY <3>2, KeptShape DEF Kept, FieldsOK
        <3>5. /\ home'[s] = l
              /\ \A r \in 1..Len(home) : home'[r] = home[r]
            BY <3>2, <3>3, <3>4, OneMore
        <3>6. CASE h = i
            <4>1. Owner(h)' = l
                BY <3>3, <3>4, <3>5, <3>6 DEF Owner
            <4> QED
                BY <1>1, <2>3, <3>1, <3>3, <3>6, <4>1 DEF OwnerMoves
        <3>7. CASE h # i
            <4>1. session'[h] = session[h]
                BY <3>3, <3>4, <3>7
            <4>2. Owner(h)' = Owner(h)
                BY <3>4, <3>5, <4>1 DEF Owner
            <4> QED
                BY <4>2 DEF OwnerMoves
        <3> QED
            BY <3>6, <3>7
    <2> QED
        BY <1>2, <2>1, <2>2, <2>3 DEF Connect
<1>3. CASE Close(c, l)
    <2>1. home' = home
        BY <1>3 DEF Close
    <2>2. \/ session' = session
          \/ session' = [session EXCEPT ![Client] = None]
        BY <1>3
           DEF Close, CloseView, CloseNothing, CloseHere, CloseElsewhere
    <2> QED
        BY <2>1, <2>2, SameOwner, NoOwner
<1>4. CASE Use(c, l)
    BY <1>4, SameOwner DEF Use
<1> QED
    BY <1>1, <1>2, <1>3, <1>4

LEMMA GoOnOwner ==
    ASSUME Kept, GoOnStep, NEW h \in Handles
    PROVE  OwnerMoves(h)
<1>1. ASSUME NEW l \in DOMAIN phase, LoopTurn(l)
      PROVE  OwnerMoves(h)
    <2>1. l \in 1..Len(phase)
        BY KeptShape
    <2>2. CASE SkipStep(l) \/ Cancel(l) \/ ForwardedRequest(l)
               \/ ForwardedClose(l)
        <3>1. UNCHANGED <<home, session>>
            BY <2>2 DEF SkipStep, Cancel, ForwardedRequest, ForwardedClose,
                        sessionVars, fields
        <3> QED
            BY <3>1, SameOwner
    <2> QED
        BY <1>1, <2>1, <2>2, StepOwner DEF LoopTurn
<1>2. ASSUME NEW c \in DOMAIN tasks, Network(c)
      PROVE  OwnerMoves(h)
    <2>1. /\ home' = home
          /\ \/ session' = session
             \/ session' = [session EXCEPT ![Client] = None]
        BY <1>2 DEF Network, Authenticate, FindResource, Serve, Refuse,
                    FinishClosing, sessionVars, fields
    <2> QED
        BY <2>1, SameOwner, NoOwner
<1>3. ASSUME NEW a \in Cells, CancelCell(a)
      PROVE  OwnerMoves(h)
    BY <1>3, SameOwner DEF CancelCell, sessionVars, fields
<1> QED
    BY <1>1, <1>2, <1>3 DEF GoOnStep

LEMMA SyncGoesOn ==
    ASSUME Kept, TurnsOK, RunsOK, SyncOK, GoOnStep
    PROVE  SyncOK'
<1>1. call' = call
    BY GoingOn DEF GoesOnBy
<1>2. None # App
    BY LoopsShape
<1>3. ASSUME NEW a \in Cells, Syncs(call[a]), NEW h, h = call[a].handle
      PROVE  Owner(h)' # App
    <2>1. a \in Callers
        BY DEF Callers
    <2>2. h \in Handles
        BY <1>3, <2>1, LoopsShape
    <2>3. Owner(h) # App
        BY <1>3, <2>2 DEF SyncOK
    <2>4. OwnerMoves(h)
        BY <2>2, GoOnOwner
    <2>5. ASSUME NEW c \in 1..Len(tasks), Ready(c, App)
          PROVE  FALSE
        <3>1. tasks[c].loop = App /\ Under(tasks[c])
            BY <2>5 DEF Ready, Under, Ended
        <3>2. PICK b \in Callers : call[b].pc \in {"await", "unwind"}
            BY <3>1 DEF RunsOK, OnApp
        <3>3. a = b
            BY <1>3, <2>1, <3>2 DEF TurnsOK, At, Syncs
        <3> QED
            BY <1>3, <3>2, <3>3 DEF Syncs
    <2> QED
        BY <1>2, <2>3, <2>4, <2>5 DEF OwnerMoves
<1> QED
    BY <1>1, <1>3 DEF SyncOK

\* A step of no call that leaves the sessions alone, and one of a call.
LEMMA SyncStay ==
    ASSUME SyncOK, UNCHANGED <<home, session, call>>
    PROVE  SyncOK'
BY DEF SyncOK, Owner

LEMMA SyncCall ==
    ASSUME Kept, SyncOK, NEW a \in Callers, NEW k, Becomes(a, k),
           UNCHANGED <<home, session>>,
           (a \in Cells /\ Syncs(k)) =>
               \/ Syncs(call[a]) /\ k.handle = call[a].handle
               \/ Owner(k.handle) # App
    PROVE  SyncOK'
<1>1. call'[a] = k /\ \A b \in Callers : b # a => call'[b] = call[b]
    BY BecomesIs
<1>2. \A b \in Cells : b \in Callers
    BY DEF Callers
<1>3. \A h : Owner(h)' = Owner(h)
    BY DEF Owner
<1>4. ASSUME NEW b \in Cells, NEW h \in Handles,
             Syncs(call'[b]), call'[b].handle = h
      PROVE  Owner(h)' # App
    BY <1>1, <1>2, <1>3, <1>4 DEF SyncOK
<1> QED
    BY <1>4 DEF SyncOK

LEMMA SyncFail ==
    ASSUME Kept, TurnsOK, SyncOK, NEW a \in Callers, Fail(a),
           call[a].pc \in {"enter", "submit", "wait"},
           UNCHANGED <<home, session>>
    PROVE  SyncOK'
<1>1. PICK k : /\ Becomes(a, k)
               /\ \/ k.pc = "idle"
                  \/ k.pc = "read" /\ SameCall(k, call[a])
    BY FailIs
<1>2. PICK L, V : CallerFits(call[a], L, V)
    BY UnderWay DEF At
<1>3. Syncs(k) => Syncs(call[a]) /\ k.handle = call[a].handle
    BY <1>1, <1>2 DEF Syncs, CallerFits, SameCall
<1> QED
    BY <1>1, <1>3, SyncCall

LEMMA SyncHand ==
    ASSUME Kept, SyncOK, NEW a \in Callers, HandsOver(a)
    PROVE  SyncOK'
<1>1. PICK k : \E l \in 1..Len(phase), t \in Tasks, x \in Callbacks :
                   Hands(a, k, t, l, x)
    BY DEF HandsOver
<1>2. PICK l \in 1..Len(phase), t \in Tasks, x \in Callbacks :
          Hands(a, k, t, l, x)
    BY <1>1
<1>3. /\ Becomes(a, k) /\ UNCHANGED <<home, session>>
      /\ Syncs(k) => Syncs(call[a]) /\ k.handle = call[a].handle
    BY <1>2 DEF Hands, Syncs
<1> QED
    BY <1>3, SyncCall

\* A call that is, in the end, no longer a synchronous one under way.
LEMMA SyncEnds ==
    ASSUME Kept, SyncOK, NEW a \in Callers, NEW k, Becomes(a, k),
           k.pc \notin {"create", "submit", "wait", "read"},
           UNCHANGED <<home, session>>
    PROVE  SyncOK'
<1>1. ~Syncs(k)
    BY DEF Syncs
<1> QED
    BY <1>1, SyncCall

LEMMA SyncCalls ==
    ASSUME Kept, SyncOK, NEW a \in Callers, NEW op, NEW h, Call(a, op, h)
    PROVE  SyncOK'
<1>1. PICK pc : pc = IF op = "close" THEN "read" ELSE "enter"
    OBVIOUS
<1>2. PICK k : k = [pc |-> pc, op |-> op, handle |-> h, task |-> 0,
                    loop |-> None]
    OBVIOUS
<1>3. Becomes(a, k) /\ UNCHANGED <<home, session>>
    BY <1>1, <1>2 DEF Call, Called, Becomes, sessionVars, fields
<1>4. ~Syncs(k)
    BY <1>1, <1>2 DEF Syncs
<1> QED
    BY <1>3, <1>4, SyncCall

LEMMA SyncEnter ==
    ASSUME Kept, TurnsOK, SyncOK, NEW a \in Callers, Enter(a)
    PROVE  SyncOK'
<1>1. UNCHANGED <<home, session>> /\ call[a].pc = "enter"
    BY DEF Enter, At, sessionVars, fields
<1>2. CASE Fail(a)
    BY <1>1, <1>2, SyncFail
<1>3. CASE /\ SyncAllowed(a, call[a].handle)
           /\ GoTo(a, "submit") \/ GoTo(a, "create")
    <2>1. PICK k : Becomes(a, k) /\ SameCall(k, call[a])
        BY <1>3, GoToIs
    <2>2. a \in Cells => Owner(k.handle) # App
        BY <1>3, <2>1 DEF SyncAllowed, SameCall
    <2> QED
        BY <1>1, <2>1, <2>2, SyncCall
<1> QED
    BY <1>2, <1>3 DEF Enter

LEMMA SyncCreate ==
    ASSUME Kept, SyncOK, NEW a \in Callers, CreateLoop(a)
    PROVE  SyncOK'
<1>1. PICK k : Becomes(a, k) /\ SameCall(k, call[a])
    BY GoToIs DEF CreateLoop
<1>2. /\ UNCHANGED <<home, session>>
      /\ Syncs(call[a]) /\ k.handle = call[a].handle
    BY <1>1 DEF CreateLoop, sessionVars, Syncs, At, SameCall
<1> QED
    BY <1>1, <1>2, SyncCall

LEMMA SyncFinish ==
    ASSUME Kept, TurnsOK, SyncOK, NEW a \in Callers, Finish(a)
    PROVE  SyncOK'
<1>1. home' = home /\ call[a].pc = "wait"
    BY DEF Finish, At, sessionVars
<1>2. CASE Fail(a) /\ UNCHANGED fields
    BY <1>1, <1>2, SyncFail DEF fields
<1>3. CASE Return(a)
    <2>1. PICK k : Becomes(a, k) /\ k.pc = "idle"
        BY <1>3, ReturnIs
    <2>2. Alone(a)
        BY <1>1, UnderWay DEF At
    <2>3. \A b \in Cells : call'[b].pc = "idle"
        BY <2>1, <2>2, BecomesIs DEF Callers, Alone, At
    <2> QED
        BY <2>3 DEF SyncOK, Syncs
<1> QED
    BY <1>2, <1>3 DEF Finish

LEMMA SyncPlain ==
    ASSUME Kept, SyncOK, NEW a \in Callers,
           \/ ReadLoop(a) \/ FinishClose(a) \/ StopLoop(a) \/ Join(a)
           \/ UNCHANGED <<home, session>> /\ (Return(a) \/ AfterClose(a))
    PROVE  SyncOK'
<1>1. UNCHANGED <<home, session>>
    BY DEF ReadLoop, FinishClose, StopLoop, Join, sessionVars, fields
<1>2. CASE Return(a) \/ AfterClose(a) \/ GoTo(a, "join")
    <2>1. PICK k : Becomes(a, k) /\ k.pc \in {"idle", "stop", "join"}
        BY <1>2, ReturnIs, AfterCloseIs, GoToIs
    <2> QED
        BY <1>1, <2>1, SyncEnds
<1>3. CASE \E l : call' = [call EXCEPT ![a].pc = "close", ![a].loop = l]
    <2>1. PICK l : call' = [call EXCEPT ![a].pc = "close", ![a].loop = l]
        BY <1>3
    <2>2. PICK k : k = [call[a] EXCEPT !.pc = "close", !.loop = l]
        OBVIOUS
    <2>3. call[a] \in CallRecords
        BY LoopsShape
    <2>4. Becomes(a, k) /\ k.pc = "close"
        BY <2>1, <2>2, <2>3 DEF Becomes, CallRecords
    <2> QED
        BY <1>1, <2>4, SyncEnds
<1> QED
    BY <1>2, <1>3 DEF ReadLoop, FinishClose, StopLoop, Join

LEMMA SyncKeep ==
    ASSUME Kept, Careful, TurnsOK, RunsOK, SyncOK, [Next]_vars
    PROVE  SyncOK'
<1>1. CASE UNCHANGED vars
    BY <1>1, SyncStay DEF vars
<1>2. ASSUME NEW a \in Callers, HandsOver(a)
      PROVE  SyncOK'
    BY <1>2, SyncHand
<1>3. ASSUME NEW a \in Callers, Submit(a)
      PROVE  SyncOK'
    <2>1. UNCHANGED <<home, session>> /\ call[a].pc = "submit"
        BY <1>3 DEF Submit, At, sessionVars, fields
    <2> QED
        BY <1>2, <1>3, <2>1, SubmitHands, SyncFail
<1>4. ASSUME NEW a \in Callers, SubmitClose(a)
      PROVE  SyncOK'
    <2>1. UNCHANGED <<home, session>>
        BY <1>4 DEF SubmitClose, sessionVars
    <2> QED
        BY <1>2, <1>4, <2>1, SubmitCloseHands, SyncPlain
<1>5. ASSUME NEW a \in Callers, Resume(a)
      PROVE  SyncOK'
    <2>1. UNCHANGED <<home, session>>
        BY <1>5 DEF Resume, sessionVars, fields
    <2> QED
        BY <1>2, <1>5, <2>1, ResumeHands, SyncPlain
<1>6. ASSUME NEW a \in Callers, Proceed(a)
      PROVE  SyncOK'
    BY <1>3, <1>4, <1>5, <1>6, SyncEnter, SyncCreate, SyncFinish, SyncPlain
       DEF Proceed
<1>7. ASSUME NEW a \in Callers, UserStep(a)
      PROVE  SyncOK'
    <2>1. ~InterruptClose(a)
        BY DEF Careful, InterruptClose
    <2>2. ASSUME Interrupt(a)
          PROVE  SyncOK'
        <3>1. /\ Fail(a) /\ call[a].pc = "wait"
              /\ UNCHANGED <<home, session>>
            BY <2>2 DEF Interrupt, At, sessionVars, fields
        <3> QED
            BY <3>1, SyncFail
    <2> QED
        BY <1>7, <2>1, <2>2, SyncCalls DEF UserStep
<1>8. ASSUME GoOnStep
      PROVE  SyncOK'
    BY <1>8, SyncGoesOn
<1>9. ASSUME NEW a \in Cells, CellStep(a)
      PROVE  SyncOK'
    <2>1. a \in Callers
        BY DEF Callers
    <2> QED
        BY <1>2, <1>8, <1>9, <2>1, AwaitHands DEF CellStep, GoOnStep
<1>10. ASSUME NEW l \in DOMAIN phase, LoopStep(l)
       PROVE  SyncOK'
    <2>1. CASE Start(l) \/ Stop(l) \/ Drain(l) \/ CloseLoop(l)
        <3>1. UNCHANGED <<home, session, call>>
            BY <2>1 DEF Start, Stop, Drain, CloseLoop, sessionVars, fields,
                        callVars
        <3> QED
            BY <3>1, SyncStay
    <2> QED
        BY <1>8, <1>10, <2>1 DEF LoopStep, LoopTurn, GoOnStep
<1> QED
    BY <1>1, <1>6, <1>7, <1>8, <1>9, <1>10 DEF Next, GoOnStep

\* A cell that takes its turn never blocks the application's loop with a call
\* on a session of that loop, not even if it connects meanwhile (qclient.py,
\* _check_sync_allowed).
THEOREM CarefulCellsDoNotBlockTheirLoop == Spec => [](Careful => SyncOK)
<1>1. Init => (Careful => SyncOK)
    <2>1. PICK k : k = NoCall
        OBVIOUS
    <2>2. k.pc = "idle"
        BY <2>1 DEF NoCall
    <2> QED
        BY <2>1, <2>2 DEF Init, SyncOK, Syncs, Callers
<1>2. /\ Kept /\ (Careful => TurnsOK) /\ (Careful => RunsOK)
      /\ (Careful => SyncOK) /\ [Next]_vars
      => (Careful => SyncOK)'
    BY SyncKeep, CarefulStays
<1> QED
    BY <1>1, <1>2, KeptAlways, CarefulCallersTakeTurns,
       CarefulCallersWaitForTheirOwn, PTL DEF Spec

===============================================================================
