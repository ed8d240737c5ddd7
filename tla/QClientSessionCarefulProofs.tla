--------------------- MODULE QClientSessionCarefulProofs ---------------------
(***************************************************************************)
(* Callers that take turns, whatever fails, is interrupted or is           *)
(* cancelled: a session is used on its loop, nothing is leaked, and a      *)
(* client that says it is authenticated is connected.  The invariants say  *)
(* what an interrupted call left behind and when it is cancelled, which    *)
(* session is used where, who refers to it, and what becomes of a          *)
(* connect() that does not come through.                                   *)
(***************************************************************************)
EXTENDS QClientSessionProofs

-----------------------------------------------------------------------------
(* Callers that take turns, fourth part: what interrupted calls left       *)
(* behind, which is cancelled before anything later on its loop.           *)

\* connect() was interrupted and closes the client.
Undoes(k, t) ==
    /\ k.op = "connect" /\ k.pc \in {"read", "close", "closing"}
    /\ k.handle = t.handle /\ k.loop = t.loop

LeftOver(c, t, K, q) ==
    (Under(t) /\ \A a \in Callers : ~Mine(K[a], c)) =>
        /\ \/ t.stage = "dropped"
           \/ t.stage \notin Handed /\ Has(q[t.loop], "cancel", c)
        /\ \/ t.op = "request"
           \/ t.op = "connect" /\ \E a \in Callers : Undoes(K[a], t)

\* Of two coroutines on a loop, the earlier is started before the later is,
\* and cancelled before that takes its first step.
InOrder(b, c, T, q) ==
    (/\ b < c /\ Under(T[b]) /\ Under(T[c])
     /\ T[b].loop = T[c].loop) =>
        \/ /\ T[c].stage \in Handed
           /\ \/ T[b].stage \notin Handed
              \/ Precedes(q[T[c].loop], "start", b, "start", c)
        \/ /\ T[c].stage = "ready" /\ T[b].stage \notin Handed
           /\ Precedes(q[T[c].loop], "cancel", b, "step", c)

\* close() has come so far that its loop has nothing else to do.
Cleared(k, T) ==
    \/ k.pc \in {"stop", "join"}
    \/ k.pc = "closing" /\ T[k.task].stage \notin Handed \cup {"ready"}

Clears(k, c, T) ==
    (Cleared(k, T) /\ Under(T[c]) /\ T[c].loop = k.loop) => Mine(k, c)

Turns(t, p) == Under(t) => p[t.loop] = "running"

LeftOK ==
    /\ \A c \in 1..Len(tasks) :
           /\ LeftOver(c, tasks[c], call, queue)
           /\ Turns(tasks[c], phase)
    /\ \A b, c \in 1..Len(tasks) : InOrder(b, c, tasks, queue)
    /\ \A a \in Callers : \A c \in 1..Len(tasks) : Clears(call[a], c, tasks)

\* A coroutine that goes on was under way, where it is now.
LEMMA GoesOnFrom ==
    ASSUME NEW t, NEW u, GoesOn(t, u), Under(u)
    PROVE  /\ Under(t) /\ u.loop = t.loop /\ u.op = t.op
           /\ u.handle = t.handle
           /\ u.stage \in Handed <=> t.stage \in Handed
           /\ t.stage \in Handed => u = t
           /\ u.stage = "ready" => u = t
BY DEF GoesOn, Under, Ended, Handed, Asking

\* The first step of a coroutine: what was left on its loop is gone.
LEMMA FirstOnLoop ==
    ASSUME Kept, LeftOK, NEW l \in 1..Len(phase), queue[l] # <<>>,
           NEW c \in 1..Len(tasks), Is(Head(queue[l]), "step", c),
           tasks[c].stage = "ready",
           NEW b \in 1..Len(tasks), b < c, Under(tasks[b])
    PROVE  tasks[b].loop # l /\ tasks[c].loop = l
<1>1. /\ queue[l] \in Seq(Callbacks)
      /\ Head(queue[l]).do = "step" /\ Head(queue[l]).task = c
    BY LoopsShape DEF Is
<1>2. tasks[c].loop = l
    BY <1>1, HeadFits DEF CallbackFits, Ended
<1>3. ~Precedes(queue[l], "cancel", b, "step", c)
    BY <1>1, HeadHas
<1>4. Under(tasks[c]) /\ tasks[c].stage \notin Handed
    BY DEF Under, Ended, Handed
<1>5. InOrder(b, c, tasks, queue)
    BY DEF LeftOK
<1> QED
    BY <1>2, <1>3, <1>4, <1>5 DEF InOrder

LEMMA LeftGoesOn ==
    ASSUME Kept, TurnsOK, RunsOK, LeftOK, NEW l \in 0..Len(phase),
           GoesOnBy(l)
    PROVE  LeftOK'
<1>1. /\ UNCHANGED <<phase, call>> /\ Len(tasks') = Len(tasks)
      /\ \A c \in 1..Len(tasks) : GoesOn(tasks[c], tasks'[c])
    BY DEF GoesOnBy, Advanced
<1>2. PICK q, p : q = queue /\ p = queue' /\ Passed(q, l, p)
    BY DEF GoesOnBy
<1>3. /\ q \in Seq(Seq(Callbacks)) /\ Len(q) = Len(phase)
      /\ {"start", "step", "cancel"} \subseteq Scheduled
    BY <1>2, LoopsShape DEF Scheduled
<1>4. l # 0 => /\ l \in 1..Len(q) /\ q[l] # <<>> /\ l \in 1..Len(phase)
               /\ Head(q[l]).do \notin {"start", "stop"}
    BY <1>2, <1>3 DEF Passed, GoesOnBy, Advanced
<1>5. \A c \in 1..Len(tasks) : tasks[c].loop \in 1..Len(q)
    BY <1>3, TaskShape
<1>6. ASSUME NEW c \in 1..Len(tasks), l # 0, Is(Head(q[l]), "cancel", c)
      PROVE  tasks[c].stage \in Handed \/ ~Under(tasks'[c])
    BY <1>2, <1>6 DEF GoesOnBy, Advanced, Under
<1>7. ASSUME NEW c \in 1..Len(tasks)
      PROVE  /\ LeftOver(c, tasks'[c], call', queue')
             /\ Turns(tasks'[c], phase')
    <2>1. /\ LeftOver(c, tasks[c], call, queue) /\ Turns(tasks[c], phase)
          /\ GoesOn(tasks[c], tasks'[c])
        BY <1>1 DEF LeftOK
    <2>2. CASE ~Under(tasks'[c])
        BY <2>2 DEF LeftOver, Turns
    <2>3. CASE Under(tasks'[c])
        <3>1. PICK t, u : t = tasks[c] /\ u = tasks'[c]
            OBVIOUS
        <3>2. PICK m \in 1..Len(q) : m = t.loop
            BY <1>5, <3>1
        <3>3. /\ Under(t) /\ u.loop = m /\ u.op = t.op
              /\ u.handle = t.handle
              /\ u.stage \in Handed <=> t.stage \in Handed
              /\ t.stage \in Handed => u = t
            BY <2>1, <2>3, <3>1, <3>2, GoesOnFrom
        <3>4. (t.stage \notin Handed /\ Has(q[m], "cancel", c)) =>
                  Has(p[m], "cancel", c)
            <4> SUFFICES ASSUME t.stage \notin Handed,
                                Has(q[m], "cancel", c)
                         PROVE  Has(p[m], "cancel", c)
                OBVIOUS
            <4>1. ~(m = l /\ Is(Head(q[m]), "cancel", c))
                BY <1>4, <1>6, <2>3, <3>1 
            <4>2. "cancel" \in Scheduled
                BY <1>3
            <4> QED
                BY <1>2, <1>3, <4>1, <4>2, StillHas
        <3>5. Turns(u, phase')
            BY <1>1, <2>1, <3>1, <3>2, <3>3 DEF Turns
        <3>6. \A a \in Callers : Undoes(call[a], t) => Undoes(call[a], u)
            BY <3>2, <3>3 DEF Undoes
        <3>7. LeftOver(c, u, call, p)
            <4>1. LeftOver(c, t, call, q)
                BY <1>2, <2>1, <3>1
            <4> QED
                BY <3>2, <3>3, <3>4, <3>6, <4>1 DEF LeftOver, Handed
        <3> QED
            BY <1>1, <1>2, <3>1, <3>5, <3>7
    <2> QED
        BY <2>2, <2>3
<1>8. ASSUME NEW b \in 1..Len(tasks), NEW c \in 1..Len(tasks)
      PROVE  InOrder(b, c, tasks', queue')
    <2> SUFFICES ASSUME b < c, Under(tasks'[b]), Under(tasks'[c]),
                        tasks'[b].loop = tasks'[c].loop
                 PROVE  InOrder(b, c, tasks', queue')
        BY DEF InOrder
    <2>1. PICK m \in 1..Len(q) : m = tasks[c].loop
        BY <1>5
    <2>2. /\ Under(tasks[b]) /\ Under(tasks[c])
          /\ tasks[b].loop = m /\ tasks'[c].loop = m
          /\ tasks'[b].stage \in Handed <=> tasks[b].stage \in Handed
          /\ tasks[c].stage \in Handed => tasks'[c] = tasks[c]
        BY <1>1, <2>1, GoesOnFrom
    <2>3. InOrder(b, c, tasks, queue)
        BY DEF LeftOK
    <2>4. \/ /\ tasks[c].stage \in Handed
             /\ \/ tasks[b].stage \notin Handed
                \/ Precedes(q[m], "start", b, "start", c)
          \/ /\ tasks[c].stage = "ready" /\ tasks[b].stage \notin Handed
             /\ Precedes(q[m], "cancel", b, "step", c)
        BY <1>2, <2>1, <2>2, <2>3 DEF InOrder
    <2>5. Precedes(q[m], "start", b, "start", c) =>
              Precedes(p[m], "start", b, "start", c)
        <3>1. ~(m = l /\ Is(Head(q[m]), "start", b))
            BY <1>4, <2>1, <1>2, <1>3 DEF Is
        <3>2. "start" \in Scheduled
            BY <1>3
        <3> QED
            BY <1>2, <1>3, <3>1, <3>2, StillPrecedes
    <2>6. CASE tasks[c].stage \in Handed
        BY <1>2, <2>2, <2>4, <2>5, <2>6 DEF InOrder, Handed
    <2>7. CASE tasks[c].stage = "ready" /\ tasks[b].stage \notin Handed
               /\ Precedes(q[m], "cancel", b, "step", c)
        <3>1. ~(m = l /\ Is(Head(q[m]), "cancel", b))
            BY <1>4, <1>6, <2>7 
        <3>2. "step" \in Scheduled
            BY <1>3
        <3>3. Precedes(p[m], "cancel", b, "step", c)
            BY <1>2, <1>3, <2>7, <3>1, <3>2, StillPrecedes
        <3>4. tasks'[c] = tasks[c]
            <4> SUFFICES ASSUME tasks'[c] # tasks[c]
                         PROVE  FALSE
                OBVIOUS
            <4>1. l # 0 /\ Is(Head(q[l]), "step", c)
                BY <1>2, <2>7, <2>2 DEF GoesOnBy, Advanced, Under
            <4> QED
                BY <1>2, <1>4, <2>1, <2>2, <2>7, <4>1, FirstOnLoop
        <3> QED
            BY <1>2, <2>2, <2>7, <3>3, <3>4 DEF InOrder
    <2> QED
        BY <2>4, <2>6, <2>7
<1>9. ASSUME NEW a \in Callers, NEW c \in 1..Len(tasks)
      PROVE  Clears(call'[a], c, tasks')
    <2> SUFFICES ASSUME Cleared(call'[a], tasks'), Under(tasks'[c]),
                        tasks'[c].loop = call'[a].loop
                 PROVE  Mine(call'[a], c)
        BY DEF Clears
    <2>1. PICK k : k = call[a]
        OBVIOUS
    <2>2. call'[a] = k
        BY <1>1, <2>1
    <2>3. Under(tasks[c]) /\ tasks[c].loop = k.loop
        BY <1>1, <2>2, GoesOnFrom
    <2>4. CASE Cleared(k, tasks)
        BY <2>1, <2>2, <2>3, <2>4 DEF LeftOK, Clears
    <2>5. CASE ~Cleared(k, tasks)
        <3>1. /\ k.pc = "closing"
              /\ tasks[k.task].stage \in Handed \cup {"ready"}
              /\ tasks'[k.task].stage \notin Handed \cup {"ready"}
            BY <2>2, <2>5 DEF Cleared
        <3>2. OwnTask(k, tasks, queue)
            BY <2>1 DEF RunsOK
        <3>3. /\ k.task = Len(tasks) /\ k.task \in 1..Len(tasks)
              /\ k.pc \in Waits
            BY <2>3, <3>1, <3>2 DEF OwnTask, Waits
        <3>4. /\ tasks[k.task].stage = "ready"
              /\ tasks'[k.task] # tasks[k.task]
            BY <1>1, <3>1, <3>3 DEF GoesOn, Handed, Ended
        <3>5. /\ tasks[k.task].op = "aclose"
              /\ NoneDo(q, "cancel", k.task)
            BY <1>2, <3>1, <3>2, <3>3, <3>4
               DEF OwnTask, Runs, Under, Ended
        <3>6. ~(l # 0 /\ Is(Head(q[l]), "cancel", k.task))
            <4> SUFFICES ASSUME l # 0, Is(Head(q[l]), "cancel", k.task)
                         PROVE  FALSE
                OBVIOUS
            <4>1. q[l] \in Seq(Callbacks) /\ q[l] # <<>>
                BY <1>3, <1>4
            <4>2. Has(q[l], "cancel", k.task)
                BY <4>1, HeadHas
            <4> QED
                BY <1>4, <3>5, <4>2 DEF NoneDo
        <3>7. l # 0 /\ Is(Head(q[l]), "step", k.task)
            BY <1>2, <3>3, <3>4, <3>5, <3>6 DEF GoesOnBy, Advanced
        <3>8. k.task = c \/ c < k.task
            BY <3>3
        <3>9. tasks[k.task].loop = l
            BY <1>2, <1>4, <3>3, <3>4, <3>7, HeadFits
               DEF Is, CallbackFits, Ended
        <3>10. tasks[k.task].loop = k.loop
            BY <3>2, <3>3, <3>4 DEF OwnTask, Under, Ended
        <3>11. k.task = c
            BY <1>2, <1>4, <2>3, <3>3, <3>4, <3>7, <3>8, <3>9, <3>10,
               FirstOnLoop
        <3> QED
            BY <2>2, <3>3, <3>11 DEF Mine
    <2> QED
        BY <2>4, <2>5
<1> QED
    BY <1>1, <1>7, <1>8, <1>9 DEF LeftOK

LEMMA StartPrecedes ==
    ASSUME NEW s \in Seq(Callbacks), NEW x \in Callbacks,
           NEW y \in Callbacks, NEW r \in Seq(Callbacks), NEW z,
           Rescheduled(s, x, y, r, z), NEW d, NEW b, NEW e, NEW c,
           Precedes(s, d, b, e, c), ~Is(Head(s), d, b),
           Is(x, e, c) => Has(s, d, b), ~Is(y, e, c)
    PROVE  Precedes(z, d, b, e, c)
<1>1. PICK t : t = Tail(s)
    OBVIOUS
<1>2. s # <<>> /\ r = Append(t, x) /\ (z = r \/ z = Append(r, y))
    BY <1>1 DEF Rescheduled
<1>3. t \in Seq(Callbacks)
    BY <1>1, <1>2, OneLess
<1>4. Precedes(t, d, b, e, c)
    BY <1>1, <1>2, TailPrecedes
<1>5. Has(s, d, b) => Has(t, d, b)
    <2>1. Has(s, d, b) => Has(t, d, b) \/ Is(Head(s), d, b)
        BY <1>1, <1>2, TailHas
    <2> QED
        BY <2>1
<1>6. Precedes(r, d, b, e, c)
    BY <1>2, <1>3, <1>4, <1>5, AppendPrecedes
<1>7. Precedes(Append(r, y), d, b, e, c)
    BY <1>6, AppendPrecedes
<1> QED
    BY <1>2, <1>6, <1>7

\* The last coroutine handed over apart, what is under way was left behind.
LEMMA NotLast ==
    ASSUME Kept, RunsOK, LeftOK, NEW b \in 1..Len(tasks), b < Len(tasks),
           Under(tasks[b])
    PROVE  /\ \/ tasks[b].stage = "dropped"
              \/ /\ tasks[b].stage \notin Handed
                 /\ Has(queue[tasks[b].loop], "cancel", b)
           /\ \/ tasks[b].op = "request"
              \/ /\ tasks[b].op = "connect"
                 /\ \E a \in Callers : Undoes(call[a], tasks[b])
<1>1. \A a \in Callers : ~Mine(call[a], b)
    BY DEF RunsOK, OwnTask, Mine
<1>2. LeftOver(b, tasks[b], call, queue)
    BY DEF LeftOK
<1> QED
    BY <1>1, <1>2 DEF LeftOver

LEMMA LeftStart ==
    ASSUME Kept, TurnsOK, RunsOK, LeftOK, NEW l \in 1..Len(phase), Start(l)
    PROVE  LeftOK'
<1>1. PICK c \in 1..Len(tasks), x \in Callbacks, y \in Callbacks,
           s \in Seq(Callbacks), r \in Seq(Callbacks),
           z \in Seq(Callbacks) :
               Starts(l, c, x, y, s, r, z)
    BY StartQueue
<1>2. /\ s = queue[l] /\ z = queue'[l] /\ Rescheduled(s, x, y, r, z)
      /\ Is(Head(s), "start", c) /\ Is(x, "step", c) /\ Is(y, "cancel", c)
      /\ tasks[c].stage \in Handed /\ tasks[c].loop = l
      /\ tasks[c].stage # "dropped" => z = r
      /\ \A m \in 1..Len(queue) : m # l => queue'[m] = queue[m]
      /\ Len(tasks') = Len(tasks)
      /\ \A d \in 1..Len(tasks) : d # c => tasks'[d] = tasks[d]
      /\ tasks'[c].stage = "ready" /\ tasks'[c].op = tasks[c].op
      /\ tasks'[c].handle = tasks[c].handle
      /\ tasks'[c].loop = l
      /\ tasks[c].stage = "dropped" => Has(z, "cancel", c)
    BY <1>1 DEF Starts
<1>3. UNCHANGED <<phase, call>> /\ Len(queue) = Len(phase)
    BY LoopsShape DEF Start, callVars
<1>4. \A d \in 1..Len(tasks) : tasks[d].loop \in 1..Len(queue)
    BY <1>3, TaskShape
<1>5. \A e : /\ ~Is(Head(s), "cancel", e) /\ ~Is(y, "step", e)
             /\ ~Is(x, "start", e) /\ ~Is(y, "start", e)
             /\ Is(Head(s), "start", e) => e = c
             /\ Is(x, "step", e) => e = c
    BY <1>2 DEF Is
<1>6. s # <<>>
    BY <1>2 DEF Rescheduled
<1>7. Under(tasks[c]) /\ tasks'[c].stage \notin Handed
    BY <1>2 DEF Under, Ended, Handed
<1>8. ASSUME NEW d \in 1..Len(tasks)
      PROVE  /\ LeftOver(d, tasks'[d], call', queue')
             /\ Turns(tasks'[d], phase')
    <2>1. LeftOver(d, tasks[d], call, queue) /\ Turns(tasks[d], phase)
        BY DEF LeftOK
    <2>2. CASE d # c
        <3>1. PICK t : t = tasks[d] /\ tasks'[d] = t
            BY <1>2, <2>2
        <3>2. PICK m \in 1..Len(queue) : m = t.loop
            BY <1>4, <3>1
        <3>3. Has(queue[m], "cancel", d) => Has(queue'[m], "cancel", d)
            <4>1. CASE m # l
                BY <1>2, <4>1
            <4>2. Has(s, "cancel", d) => Has(z, "cancel", d)
                <5>1. Has(s, "cancel", d) =>
                          Has(z, "cancel", d) \/ Is(Head(s), "cancel", d)
                    BY <1>2, StartHas
                <5> QED
                    BY <1>5, <5>1
            <4> QED
                BY <1>2, <4>1, <4>2
        <3>4. LeftOver(d, t, call, queue')
            BY <2>1, <3>1, <3>2, <3>3 DEF LeftOver
        <3> QED
            BY <1>3, <2>1, <3>1, <3>4
    <2>3. CASE d = c
        <3>1. PICK t, u : t = tasks[c] /\ u = tasks'[c]
            OBVIOUS
        <3>2. Turns(u, phase)
            BY <1>2, <1>7, <2>1, <2>3, <3>1 DEF Turns
        <3>3. \A a \in Callers : Undoes(call[a], t) => Undoes(call[a], u)
            BY <1>2, <3>1 DEF Undoes
        <3>4. LeftOver(c, u, call, queue')
            BY <1>2, <1>7, <2>1, <2>3, <3>1, <3>3 DEF LeftOver
        <3> QED
            BY <1>3, <2>3, <3>1, <3>2, <3>4
    <2> QED
        BY <2>2, <2>3
<1>9. ASSUME NEW b \in 1..Len(tasks), NEW d \in 1..Len(tasks)
      PROVE  InOrder(b, d, tasks', queue')
    <2> SUFFICES ASSUME b < d, Under(tasks'[b]), Under(tasks'[d]),
                        tasks'[b].loop = tasks'[d].loop
                 PROVE  InOrder(b, d, tasks', queue')
        BY DEF InOrder
    <2>1. PICK m \in 1..Len(queue) : m = tasks[d].loop
        BY <1>4
    <2>2. /\ Under(tasks[b]) /\ Under(tasks[d])
          /\ tasks[b].loop = m /\ tasks'[d].loop = m
        BY <1>2, <1>7, <2>1
    <2>3. InOrder(b, d, tasks, queue)
        BY DEF LeftOK
    <2>4. \/ /\ tasks[d].stage \in Handed
             /\ \/ tasks[b].stage \notin Handed
                \/ Precedes(queue[m], "start", b, "start", d)
          \/ /\ tasks[d].stage = "ready" /\ tasks[b].stage \notin Handed
             /\ Precedes(queue[m], "cancel", b, "step", d)
        BY <2>1, <2>2, <2>3 DEF InOrder
    <2>5. CASE d = c
        <3>1. m = l /\ b # c /\ tasks[d].stage \in Handed
            BY <1>2, <2>1, <2>5
        <3>2. ~Precedes(s, "start", b, "start", c)
            BY <1>2, <1>6, HeadHas
        <3>3. tasks[b].stage \notin Handed
            BY <1>2, <2>4, <2>5, <3>1, <3>2 DEF Handed
        <3>4. Has(s, "cancel", b)
            <4>1. b < Len(tasks)
                OBVIOUS
            <4> QED
                BY <1>2, <2>2, <3>1, <3>3, <4>1, NotLast DEF Handed
        <3>5. Precedes(s, "cancel", b, "step", c)
            <4>1. NoneDo(queue, "step", c)
                BY <1>2 DEF RunsOK, Awaited
            <4> QED
                BY <1>2, <1>3, <4>1 DEF NoneDo, Precedes, Has
        <3>6. Precedes(z, "cancel", b, "step", c)
            BY <1>2, <1>5, <3>4, <3>5, StartPrecedes
        <3> QED
            BY <1>2, <2>2, <2>5, <3>1, <3>3, <3>6 DEF InOrder
    <2>6. CASE d # c
        <3>1. tasks'[d] = tasks[d]
            BY <1>2, <2>6
        <3>2. tasks[b].stage \notin Handed => tasks'[b].stage \notin Handed
            BY <1>2, <1>7
        <3>3. b = c => tasks'[b].stage \notin Handed
            BY <1>7
        <3>4. ASSUME b # c, Precedes(queue[m], "start", b, "start", d)
              PROVE  Precedes(queue'[m], "start", b, "start", d)
            <4>1. CASE m # l
                BY <1>2, <3>4, <4>1
            <4>2. CASE m = l
                <5>1. Precedes(s, "start", b, "start", d)
                    BY <1>2, <3>4, <4>2
                <5>2. ~Is(Head(s), "start", b)
                    BY <1>5, <3>4
                <5>3. Precedes(z, "start", b, "start", d)
                    BY <1>2, <1>5, <5>1, <5>2, StartPrecedes
                <5> QED
                    BY <1>2, <4>2, <5>3
            <4> QED
                BY <4>1, <4>2
        <3>5. ASSUME Precedes(queue[m], "cancel", b, "step", d)
              PROVE  Precedes(queue'[m], "cancel", b, "step", d)
            <4>1. CASE m # l
                BY <1>2, <3>5, <4>1
            <4>2. CASE m = l
                <5>1. Precedes(s, "cancel", b, "step", d)
                    BY <1>2, <3>5, <4>2
                <5>2. ~Is(x, "step", d)
                    BY <1>5, <2>6
                <5>3. Precedes(z, "cancel", b, "step", d)
                    BY <1>2, <1>5, <5>1, <5>2, StartPrecedes
                <5> QED
                    BY <1>2, <4>2, <5>3
            <4> QED
                BY <4>1, <4>2
        <3> QED
            BY <2>2, <2>4, <3>1, <3>2, <3>3, <3>4, <3>5 DEF InOrder
    <2> QED
        BY <2>5, <2>6
<1>10. ASSUME NEW a \in Callers, NEW d \in 1..Len(tasks)
       PROVE  Clears(call'[a], d, tasks')
    <2> SUFFICES ASSUME Cleared(call'[a], tasks'), Under(tasks'[d]),
                        tasks'[d].loop = call'[a].loop
                 PROVE  Mine(call'[a], d)
        BY DEF Clears
    <2>1. PICK k : k = call[a]
        OBVIOUS
    <2>2. call'[a] = k
        BY <1>3, <2>1
    <2>3. Under(tasks[d]) /\ tasks[d].loop = k.loop
        BY <1>2, <1>7, <2>2
    <2>4. Cleared(k, tasks)
        <3>1. CASE k.pc = "closing"
            <4>1. k.task = Len(tasks)
                BY <2>1, <3>1 DEF RunsOK, OwnTask, Waits
            <4>2. k.task \in 1..Len(tasks) /\ k.task # c
                BY <1>2, <2>2, <3>1, <4>1 DEF Cleared
            <4> QED
                BY <1>2, <2>2, <4>2 DEF Cleared
        <3> QED
            BY <2>2, <3>1 DEF Cleared
    <2> QED
        BY <2>1, <2>2, <2>3, <2>4 DEF LeftOK, Clears
<1> QED
    BY <1>2, <1>8, <1>9, <1>10 DEF LeftOK

\* The callbacks keep the order that matters for the coroutines there are.
SameWork ==
    \A m \in 1..Len(phase) : \A c \in 1..Len(tasks) :
        /\ Has(queue[m], "cancel", c) => Has(queue'[m], "cancel", c)
        /\ \A b : Precedes(queue[m], "start", b, "start", c) =>
                      Precedes(queue'[m], "start", b, "start", c)
        /\ \A b : Precedes(queue[m], "cancel", b, "step", c) =>
                      Precedes(queue'[m], "cancel", b, "step", c)

SamePhase == \A m \in 1..Len(phase) : phase'[m] = phase[m]

LEMMA SameQueue ==
    ASSUME queue' = queue
    PROVE  SameWork
BY DEF SameWork

LEMMA GainsWork ==
    ASSUME Kept, NEW l \in 1..Len(phase), NEW x \in Callbacks,
           Gained(queue, l, x, queue'),
           \A c \in 1..Len(tasks) : ~Is(x, "start", c) /\ ~Is(x, "step", c)
    PROVE  SameWork
<1>1. queue \in Seq(Seq(Callbacks)) /\ Len(queue) = Len(phase)
    BY LoopsShape
<1>2. PICK s \in Seq(Callbacks) : s = queue[l]
    BY <1>1
<1>3. PICK r : r = Append(s, x)
    OBVIOUS
<1>4. /\ r \in Seq(Callbacks) /\ queue' = [queue EXCEPT ![l] = r]
    BY <1>2, <1>3, OneMore DEF Gained
<1>5. /\ queue'[l] = r
      /\ \A m \in 1..Len(phase) : m # l => queue'[m] = queue[m]
    BY <1>1, <1>4, OneChanged
<1>6. ASSUME NEW c \in 1..Len(tasks)
      PROVE  /\ Has(s, "cancel", c) => Has(r, "cancel", c)
             /\ \A b : Precedes(s, "start", b, "start", c) =>
                           Precedes(r, "start", b, "start", c)
             /\ \A b : Precedes(s, "cancel", b, "step", c) =>
                           Precedes(r, "cancel", b, "step", c)
    <2>1. Has(s, "cancel", c) => Has(r, "cancel", c)
        <3>1. Has(r, "cancel", c) <=>
                  Has(s, "cancel", c) \/ Is(x, "cancel", c)
            BY <1>3, AppendHas
        <3> QED
            BY <3>1
    <2>2. ASSUME NEW b, Precedes(s, "start", b, "start", c)
          PROVE  Precedes(r, "start", b, "start", c)
        BY <1>3, <2>2, AppendPrecedes
    <2>3. ASSUME NEW b, Precedes(s, "cancel", b, "step", c)
          PROVE  Precedes(r, "cancel", b, "step", c)
        BY <1>3, <2>3, AppendPrecedes
    <2> QED
        BY <2>1, <2>2, <2>3
<1>7. ASSUME NEW m \in 1..Len(phase), NEW c \in 1..Len(tasks)
      PROVE  /\ Has(queue[m], "cancel", c) => Has(queue'[m], "cancel", c)
             /\ \A b : Precedes(queue[m], "start", b, "start", c) =>
                           Precedes(queue'[m], "start", b, "start", c)
             /\ \A b : Precedes(queue[m], "cancel", b, "step", c) =>
                           Precedes(queue'[m], "cancel", b, "step", c)
    <2>1. CASE m # l
        BY <1>5, <2>1
    <2>2. CASE m = l
        BY <1>2, <1>5, <1>6, <2>2
    <2> QED
        BY <2>1, <2>2
<1> QED
    BY <1>7 DEF SameWork

LEMMA OrderStays ==
    ASSUME Kept, LeftOK, SameWork,
           NEW b \in 1..Len(tasks), NEW c \in 1..Len(tasks)
    PROVE  InOrder(b, c, tasks, queue')
<1>1. tasks[c].loop \in 1..Len(phase)
    BY TaskShape
<1>2. InOrder(b, c, tasks, queue)
    BY DEF LeftOK
<1>3. PICK m \in 1..Len(phase) : m = tasks[c].loop
    BY <1>1
<1>4. /\ Precedes(queue[m], "start", b, "start", c) =>
             Precedes(queue'[m], "start", b, "start", c)
      /\ Precedes(queue[m], "cancel", b, "step", c) =>
             Precedes(queue'[m], "cancel", b, "step", c)
    BY DEF SameWork
<1> QED
    BY <1>2, <1>3, <1>4 DEF InOrder

\* What the step of a call leaves of what was left behind.
LEMMA LeftStays ==
    ASSUME Kept, LeftOK, SameWork, NEW a \in Callers, Alone(a),
           NEW k, Becomes(a, k), NEW c \in 1..Len(tasks),
           (Under(tasks[c]) /\ Mine(call[a], c)) => Mine(k, c),
           (Under(tasks[c]) /\ Undoes(call[a], tasks[c])) =>
               Undoes(k, tasks[c])
    PROVE  LeftOver(c, tasks[c], call', queue')
<1>1. PICK t : t = tasks[c]
    OBVIOUS
<1>2. PICK m \in 1..Len(phase) : m = t.loop
    BY <1>1, TaskShape
<1>3. Has(queue[m], "cancel", c) => Has(queue'[m], "cancel", c)
    BY DEF SameWork
<1>4. call'[a] = k /\ \A b \in Callers : b # a => call'[b] = call[b]
    BY BecomesIs
<1>5. LeftOver(c, t, call, queue)
    BY <1>1 DEF LeftOK
<1> SUFFICES ASSUME Under(t), \A b \in Callers : ~Mine(call'[b], c)
             PROVE  /\ \/ t.stage = "dropped"
                       \/ /\ t.stage \notin Handed
                          /\ Has(queue'[t.loop], "cancel", c)
                    /\ \/ t.op = "request"
                       \/ /\ t.op = "connect"
                          /\ \E b \in Callers : Undoes(call'[b], t)
    BY <1>1 DEF LeftOver
<1>6. \A b \in Callers : ~Mine(call[b], c)
    BY <1>1, <1>4
<1>7. ASSUME NEW b \in Callers, Undoes(call[b], t)
      PROVE  Undoes(call'[b], t)
    BY <1>1, <1>4, <1>7
<1> QED
    BY <1>2, <1>3, <1>5, <1>6, <1>7 DEF LeftOver

LEMMA LeftCall ==
    ASSUME Kept, LeftOK, SameWork, SamePhase, tasks' = tasks,
           NEW a \in Callers, Alone(a), NEW k, Becomes(a, k),
           \A c \in 1..Len(tasks) : Under(tasks[c]) =>
               /\ Mine(call[a], c) => Mine(k, c)
               /\ Undoes(call[a], tasks[c]) => Undoes(k, tasks[c])
               /\ Clears(k, c, tasks)
    PROVE  LeftOK'
<1>1. call'[a] = k /\ \A b \in Callers : b # a => call'[b] = call[b]
    BY BecomesIs
<1>2. ASSUME NEW c \in 1..Len(tasks)
      PROVE  /\ LeftOver(c, tasks'[c], call', queue')
             /\ Turns(tasks'[c], phase')
    <2>1. LeftOver(c, tasks[c], call', queue')
        BY LeftStays
    <2>2. Turns(tasks[c], phase) /\ tasks[c].loop \in 1..Len(phase)
        BY TaskShape DEF LeftOK
    <2>3. Turns(tasks[c], phase')
        BY <2>2 DEF Turns, SamePhase
    <2> QED
        BY <2>1, <2>3
<1>3. \A b, c \in 1..Len(tasks) : InOrder(b, c, tasks', queue')
    BY OrderStays
<1>4. ASSUME NEW b \in Callers, NEW c \in 1..Len(tasks)
      PROVE  Clears(call'[b], c, tasks')
    <2>1. CASE b # a
        BY <1>1, <2>1 DEF LeftOK
    <2>2. Clears(k, c, tasks)
        BY DEF Clears
    <2> QED
        BY <1>1, <2>1, <2>2
<1> QED
    BY <1>2, <1>3, <1>4 DEF LeftOK

\* A step of no call that leaves the work alone.
LEMMA LeftStay ==
    ASSUME LeftOK, UNCHANGED <<phase, queue, tasks, call>>
    PROVE  LeftOK'
BY DEF LeftOK

\* A loop winds down: nothing is under way on it.
LEMMA LeftWinds ==
    ASSUME Kept, LeftOK, NEW l \in 1..Len(phase),
           \A m \in 1..Len(phase) : m # l =>
               queue'[m] = queue[m] /\ phase'[m] = phase[m],
           call' = call, Len(tasks') = Len(tasks),
           \A c \in 1..Len(tasks) :
               /\ Under(tasks'[c]) => tasks'[c] = tasks[c]
               /\ Under(tasks[c]) => tasks[c].loop # l,
           \A a \in Callers :
               Cleared(call[a], tasks') => Cleared(call[a], tasks)
    PROVE  LeftOK'
<1>1. ASSUME NEW c \in 1..Len(tasks), Under(tasks'[c])
      PROVE  /\ tasks'[c] = tasks[c] /\ Under(tasks[c])
             /\ queue'[tasks[c].loop] = queue[tasks[c].loop]
             /\ phase'[tasks[c].loop] = phase[tasks[c].loop]
    BY <1>1, TaskShape
<1>2. ASSUME NEW c \in 1..Len(tasks)
      PROVE  /\ LeftOver(c, tasks'[c], call', queue')
             /\ Turns(tasks'[c], phase')
    <2>1. LeftOver(c, tasks[c], call, queue) /\ Turns(tasks[c], phase)
        BY DEF LeftOK
    <2>2. CASE ~Under(tasks'[c])
        BY <2>2 DEF LeftOver, Turns
    <2>3. CASE Under(tasks'[c])
        <3>1. PICK t : t = tasks[c]
            OBVIOUS
        <3>2. /\ tasks'[c] = t /\ queue'[t.loop] = queue[t.loop]
              /\ phase'[t.loop] = phase[t.loop]
            BY <1>1, <2>3, <3>1
        <3>3. LeftOver(c, t, call, queue') /\ Turns(t, phase')
            BY <2>1, <3>1, <3>2 DEF LeftOver, Turns
        <3> QED
            BY <3>2, <3>3
    <2> QED
        BY <2>2, <2>3
<1>3. ASSUME NEW b \in 1..Len(tasks), NEW c \in 1..Len(tasks)
      PROVE  InOrder(b, c, tasks', queue')
    <2>1. InOrder(b, c, tasks, queue)
        BY DEF LeftOK
    <2>2. CASE ~Under(tasks'[b]) \/ ~Under(tasks'[c])
        BY <2>2 DEF InOrder
    <2>3. CASE Under(tasks'[b]) /\ Under(tasks'[c])
        BY <1>1, <2>1, <2>3 DEF InOrder
    <2> QED
        BY <2>2, <2>3
<1>4. ASSUME NEW a \in Callers, NEW c \in 1..Len(tasks)
      PROVE  Clears(call'[a], c, tasks')
    <2>1. Clears(call[a], c, tasks)
        BY DEF LeftOK
    <2> QED
        BY <1>1, <2>1 DEF Clears
<1> QED
    BY <1>2, <1>3, <1>4 DEF LeftOK

LEMMA LeftHand ==
    ASSUME Kept, RunsOK, LeftOK, NEW a \in Callers, HandsOver(a)
    PROVE  LeftOK'
<1>1. PICK k : \E l \in 1..Len(phase), t \in Tasks, x \in Callbacks :
                   Hands(a, k, t, l, x)
    BY DEF HandsOver
<1>2. PICK l \in 1..Len(phase), t \in Tasks, x \in Callbacks :
          Hands(a, k, t, l, x)
    BY <1>1
<1>3. PICK n \in Nat : n = Len(tasks)
    BY KeptShape
<1>4. /\ Becomes(a, k) /\ Adds(tasks, t, tasks') /\ Gained(queue, l, x, queue')
      /\ phase' = phase /\ Alone(a) /\ phase[l] = "running"
      /\ k.task = n + 1 /\ k.loop = l
      /\ call[a].pc # "idle" => k.op = call[a].op /\ k.handle = call[a].handle
      /\ t.loop = l /\ k.pc \in Waits
      /\ call[a].pc \in Waits => Done(a)
      /\ call[a].pc \in {"idle", "submit", "close", "await"}
      /\ call[a].pc = "close" => k.pc = "closing" /\ call[a].loop = l
      /\ k.pc = "closing" => t.stage = "queued"
      /\ \/ l # App /\ t.stage = "queued" /\ Is(x, "start", n + 1)
         \/ l = App /\ t.stage = "ready" /\ Is(x, "step", n + 1)
    BY <1>2, <1>3 DEF Hands, Waits
<1>5. /\ Len(tasks') = n + 1 /\ tasks'[n + 1] = t
      /\ \A c \in 1..n : tasks'[c] = tasks[c]
    BY <1>2, <1>3, <1>4, KeptShape, OneMoreTask
<1>6. call'[a] = k /\ \A b \in Callers : b # a => call'[b] = call[b]
    BY <1>4, BecomesIs
<1>7. \A b \in Callers : b # a => call[b].pc = "idle"
    BY <1>4 DEF Alone, At
<1>8. SameWork
    BY <1>2, <1>3, <1>4, GainsWork DEF Is
<1>9. \A c \in 1..Len(tasks) :
          (Under(tasks[c]) /\ Mine(call[a], c)) => Mine(k, c)
    BY <1>4 DEF Mine, Done, Under
<1>10. \A c \in 1..(n + 1) : c \in 1..n \/ c = n + 1
    OBVIOUS
<1>11. ASSUME NEW c \in 1..n
       PROVE  /\ LeftOver(c, tasks'[c], call', queue')
              /\ Turns(tasks'[c], phase')
    <2>1. Undoes(call[a], tasks[c]) => Undoes(k, tasks[c])
        BY <1>4 DEF Undoes
    <2>2. LeftOver(c, tasks[c], call', queue')
        BY <1>3, <1>4, <1>8, <1>9, <2>1, LeftStays
    <2>3. Turns(tasks[c], phase)
        BY <1>3 DEF LeftOK
    <2> QED
        BY <1>4, <1>5, <2>2, <2>3
<1>12. LeftOver(n + 1, t, call', queue') /\ Turns(t, phase')
    <2>1. Mine(call'[a], n + 1)
        BY <1>4, <1>6 DEF Mine
    <2> QED
        BY <1>4, <2>1 DEF LeftOver, Turns
<1>13. ASSUME NEW b \in 1..n, NEW c \in 1..n
       PROVE  InOrder(b, c, tasks', queue')
    <2>1. InOrder(b, c, tasks, queue')
        BY <1>3, <1>8, OrderStays
    <2> QED
        BY <1>5, <2>1 DEF InOrder
<1>14. ASSUME NEW b \in 1..n
       PROVE  InOrder(b, n + 1, tasks', queue')
    <2> SUFFICES ASSUME Under(tasks[b]), tasks[b].loop = l
                 PROVE  \/ /\ t.stage \in Handed
                           /\ \/ tasks[b].stage \notin Handed
                              \/ Precedes(queue'[l], "start", b,
                                          "start", n + 1)
                        \/ /\ t.stage = "ready"
                           /\ tasks[b].stage \notin Handed
                           /\ Precedes(queue'[l], "cancel", b,
                                       "step", n + 1)
        BY <1>4, <1>5 DEF InOrder
    <2>1. l # App
        <3> SUFFICES ASSUME l = App
                     PROVE  FALSE
            OBVIOUS
        <3>1. OnApp(b, tasks[b], call)
            BY <1>3 DEF RunsOK
        <3>2. PICK d \in Callers : Mine(call[d], b) /\ call[d].pc # "idle"
            BY <3>1 DEF OnApp
        <3>3. d = a /\ call[a].task = b /\ call[a].pc \in Waits
            BY <1>7, <3>2 DEF Mine
        <3> QED
            BY <1>4, <3>3 DEF Done, Under
    <2>2. t.stage \in Handed
        BY <1>4, <2>1 DEF Handed
    <2>3. ASSUME tasks[b].stage \in Handed
          PROVE  Precedes(queue'[l], "start", b, "start", n + 1)
        <3>1. Awaited(b, tasks[b], phase, queue)
            BY <1>3 DEF RunsOK
        <3>2. PICK s, r : s = queue[l] /\ r = Append(s, x)
            OBVIOUS
        <3>3. queue \in Seq(Seq(Callbacks)) /\ Len(queue) = Len(phase)
            BY LoopsShape
        <3>4. s \in Seq(Callbacks) /\ queue' = [queue EXCEPT ![l] = r]
            BY <1>4, <3>2, <3>3 DEF Gained
        <3>5. queue'[l] = r
            BY <3>3, <3>4
        <3>6. Has(s, "start", b)
            BY <1>4, <2>3, <3>1, <3>2 DEF Awaited
        <3>7. ~Has(s, "start", n + 1)
            BY <1>3, <3>2, <3>3, NoneNew
        <3>8. Precedes(s, "start", b, "start", n + 1)
            BY <3>7 DEF Precedes, Has
        <3>9. Precedes(r, "start", b, "start", n + 1)
            BY <3>2, <3>4, <3>6, <3>8, AppendPrecedes
        <3> QED
            BY <3>5, <3>9
    <2> QED
        BY <2>2, <2>3
<1>15. \A c \in 1..(n + 1) : InOrder(n + 1, c, tasks', queue')
    BY DEF InOrder
<1>16. ASSUME NEW b \in Callers, NEW c \in 1..(n + 1)
       PROVE  Clears(call'[b], c, tasks')
    <2>1. CASE b # a
        BY <1>6, <1>7, <2>1 DEF Clears, Cleared
    <2>2. ~Cleared(k, tasks')
        BY <1>4, <1>5 DEF Cleared, Waits, Handed
    <2> QED
        BY <1>6, <2>1, <2>2 DEF Clears
<1>17. ASSUME NEW c \in 1..(n + 1)
       PROVE  /\ LeftOver(c, tasks'[c], call', queue')
              /\ Turns(tasks'[c], phase')
    BY <1>5, <1>10, <1>11, <1>12
<1>18. \A b, c \in 1..(n + 1) : InOrder(b, c, tasks', queue')
    BY <1>10, <1>13, <1>14, <1>15
<1> QED
    BY <1>5, <1>16, <1>17, <1>18 DEF LeftOK

LEMMA LeftInterrupt ==
    ASSUME Kept, TurnsOK, RunsOK, LeftOK, NEW a \in Callers, Interrupt(a)
    PROVE  LeftOK'
<1>1. PICK c : c = call[a].task
    OBVIOUS
<1>2. /\ c \in 1..Len(tasks) /\ call[a].pc = "wait" /\ Alone(a)
      /\ Fail(a) /\ phase' = phase
      /\ Under(tasks[c]) /\ tasks[c].loop = call[a].loop
      /\ tasks[c].loop \in 1..Len(phase)
      /\ tasks[c].handle = call[a].handle
      /\ tasks[c].op = Coroutine(call[a].op)
      /\ \/ /\ tasks[c].stage = "queued" /\ queue' = queue
            /\ \E u \in Tasks :
                  /\ Puts(tasks, c, u, tasks') /\ u.stage = "dropped"
                  /\ u.op = tasks[c].op /\ u.handle = tasks[c].handle
                  /\ u.loop = tasks[c].loop
         \/ /\ tasks[c].stage \notin Handed /\ tasks' = tasks
            /\ \/ Closed(tasks[c].loop)
               \/ \E x \in Callbacks :
                    /\ Is(x, "cancel", c)
                    /\ Gained(queue, tasks[c].loop, x, queue')
    BY <1>1, GivesUp
<1>3. PICK k : /\ Becomes(a, k) /\ k.pc \in {"idle", "read"}
               /\ call[a].op = "connect" =>
                      k.pc = "read" /\ SameCall(k, call[a])
    <2>1. CASE call[a].op = "connect"
        BY <1>2, <2>1, GoToIs DEF Fail
    <2>2. CASE call[a].op # "connect"
        BY <1>2, <2>2, ReturnIs DEF Fail
    <2> QED
        BY <2>1, <2>2
<1>4. call'[a] = k /\ \A b \in Callers : b # a => call'[b] = call[b]
    BY <1>3, BecomesIs
<1>5. \A b \in Callers : b # a => call[b].pc = "idle"
    BY <1>2 DEF Alone, At
<1>6. ASSUME NEW t, t.op = tasks[c].op, t.handle = tasks[c].handle,
             t.loop = tasks[c].loop
      PROVE  \/ t.op = "request"
             \/ t.op = "connect" /\ \E b \in Callers : Undoes(call'[b], t)
    <2>1. CASE call[a].op = "connect"
        <3>1. Undoes(k, t)
            BY <1>2, <1>3, <1>6, <2>1 DEF Undoes, SameCall
        <3>2. t.op = "connect"
            BY <1>2, <1>6, <2>1 DEF Coroutine
        <3> QED
            BY <1>4, <3>1, <3>2
    <2>2. CASE call[a].op # "connect"
        BY <1>2, <1>6, <2>2 DEF Coroutine
    <2> QED
        BY <2>1, <2>2
<1>7. \A b \in Callers : \A T : ~Cleared(call'[b], T)
    BY <1>3, <1>4, <1>5 DEF Cleared
<1>8. ASSUME SameWork, NEW d \in 1..Len(tasks), d # c
      PROVE  LeftOver(d, tasks[d], call', queue')
    <2>1. ~Mine(call[a], d) /\ ~Undoes(call[a], tasks[d])
        BY <1>1, <1>2, <1>8 DEF Mine, Undoes
    <2> QED
        BY <1>2, <1>3, <1>8, <2>1, LeftStays
<1>9. CASE /\ tasks[c].stage = "queued" /\ queue' = queue
           /\ \E u \in Tasks :
                 /\ Puts(tasks, c, u, tasks') /\ u.stage = "dropped"
                 /\ u.op = tasks[c].op /\ u.handle = tasks[c].handle
                 /\ u.loop = tasks[c].loop
    <2>1. PICK u \in Tasks :
              /\ Puts(tasks, c, u, tasks') /\ u.stage = "dropped"
              /\ u.op = tasks[c].op /\ u.handle = tasks[c].handle
              /\ u.loop = tasks[c].loop
        BY <1>9
    <2>2. /\ Len(tasks') = Len(tasks) /\ tasks'[c] = u
          /\ \A d \in 1..Len(tasks) : d # c => tasks'[d] = tasks[d]
        BY <1>2, <2>1, KeptShape, OneChanged DEF Puts
    <2>3. SameWork
        BY <1>9, SameQueue
    <2>4. /\ Under(u) /\ u.stage \in Handed /\ tasks[c].stage \in Handed
          /\ u.stage # "ready"
        BY <1>9, <2>1 DEF Under, Ended, Handed
    <2>5. ASSUME NEW d \in 1..Len(tasks)
          PROVE  /\ LeftOver(d, tasks'[d], call', queue')
                 /\ Turns(tasks'[d], phase')
        <3>1. Turns(tasks[d], phase) /\ Turns(tasks[c], phase)
            BY <1>2 DEF LeftOK
        <3>2. CASE d # c
            BY <1>2, <1>8, <2>2, <2>3, <3>1, <3>2
        <3>3. LeftOver(c, u, call', queue') /\ Turns(u, phase)
            BY <1>2, <1>6, <2>1, <3>1 DEF LeftOver, Turns
        <3> QED
            BY <1>2, <2>2, <3>2, <3>3
    <2>6. ASSUME NEW b \in 1..Len(tasks), NEW d \in 1..Len(tasks)
          PROVE  InOrder(b, d, tasks', queue')
        <3>1. InOrder(b, d, tasks, queue')
            BY <1>9 DEF LeftOK
        <3>2. ASSUME NEW e \in 1..Len(tasks)
              PROVE  /\ tasks'[e].stage \in Handed <=>
                            tasks[e].stage \in Handed
                     /\ tasks'[e].stage = "ready" <=>
                            tasks[e].stage = "ready"
                     /\ Under(tasks'[e]) <=> Under(tasks[e])
                     /\ tasks'[e].loop = tasks[e].loop
            BY <1>2, <1>9, <2>1, <2>2, <2>4
        <3> QED
            BY <3>1, <3>2 DEF InOrder
    <2> QED
        BY <1>7, <2>2, <2>5, <2>6 DEF LeftOK, Clears
<1>10. CASE tasks[c].stage \notin Handed /\ tasks' = tasks
    <2>1. ~Closed(tasks[c].loop)
        BY <1>2 DEF LeftOK, Turns, Closed
    <2>2. PICK x \in Callbacks :
              /\ Is(x, "cancel", c)
              /\ Gained(queue, tasks[c].loop, x, queue')
        BY <1>2, <1>10, <2>1 DEF Handed
    <2>3. SameWork
        BY <1>2, <2>2, GainsWork DEF Is
    <2>4. Has(queue'[tasks[c].loop], "cancel", c)
        <3>1. PICK l \in 1..Len(queue) : l = tasks[c].loop
            BY <1>2, LoopsShape
        <3>2. PICK p : p = queue'
            OBVIOUS
        <3>3. queue \in Seq(Seq(Callbacks)) /\ Gained(queue, l, x, p)
            BY <2>2, <3>1, <3>2, LoopsShape
        <3>4. ASSUME NEW d, NEW e
              PROVE  /\ Len(p) = Len(queue)
                     /\ \A m \in 1..Len(queue) :
                            Has(p[m], d, e) <=>
                                \/ Has(queue[m], d, e)
                                \/ (m = l /\ Is(x, d, e))
                     /\ (NoneDo(queue, d, e) /\ ~Is(x, d, e)) =>
                            NoneDo(p, d, e)
            BY <3>3, Gains
        <3> QED
            BY <2>2, <3>1, <3>2, <3>4
    <2>5. ASSUME NEW d \in 1..Len(tasks)
          PROVE  /\ LeftOver(d, tasks'[d], call', queue')
                 /\ Turns(tasks'[d], phase')
        <3>1. Turns(tasks[d], phase)
            BY DEF LeftOK
        <3>2. CASE d # c
            BY <1>2, <1>8, <1>10, <2>3, <3>1, <3>2
        <3>3. LeftOver(c, tasks[c], call', queue')
            BY <1>6, <1>10, <2>4 DEF LeftOver
        <3> QED
            BY <1>2, <1>10, <3>1, <3>2, <3>3
    <2>6. \A b, d \in 1..Len(tasks) : InOrder(b, d, tasks', queue')
        BY <1>10, <2>3, OrderStays
    <2> QED
        BY <1>7, <1>10, <2>5, <2>6 DEF LeftOK, Clears
<1> QED
    BY <1>2, <1>9, <1>10

\* A loop that winds down is joined, and has nothing else to do.
LEMMA NoneOn ==
    ASSUME TurnsOK, LeftOK, NEW l \in 1..Len(phase),
           phase[l] \notin {"running", "closed"} \/ Does(queue[l], "stop")
    PROVE  /\ \A c \in 1..Len(tasks) : Under(tasks[c]) => tasks[c].loop # l
           /\ \A a \in Callers : call[a].pc \in {"idle", "join"}
<1>1. PICK a \in Callers : Joins(call[a], l)
    BY DEF TurnsOK, LoopFits
<1>2. call[a].pc = "join" /\ call[a].loop = l
    BY <1>1 DEF Joins
<1>3. Alone(a)
    BY <1>2, UnderWay DEF At
<1>4. Cleared(call[a], tasks) /\ \A c : ~Mine(call[a], c)
    BY <1>2 DEF Cleared, Mine, Waits
<1>5. ASSUME NEW c \in 1..Len(tasks), Under(tasks[c]), tasks[c].loop = l
      PROVE  FALSE
    BY <1>2, <1>4, <1>5 DEF LeftOK, Clears
<1> QED
    BY <1>2, <1>3, <1>5 DEF Alone, At

LEMMA LeftStop ==
    ASSUME Kept, TurnsOK, LeftOK, NEW l \in 1..Len(phase),
           Stop(l) \/ CloseLoop(l)
    PROVE  LeftOK'
<1>1. phase[l] \notin {"running", "closed"} \/ Does(queue[l], "stop")
    <2>1. CASE Stop(l)
        <3>1. queue[l] # <<>> /\ Head(queue[l]).do = "stop"
            BY <2>1 DEF Stop, Holds
        <3>2. queue[l] \in Seq(Callbacks)
            BY LoopsShape
        <3>3. Does(queue[l], Head(queue[l]).do)
            BY <3>1, <3>2, HeadHas
        <3> QED
            BY <3>1, <3>3
    <2> QED
        BY <2>1 DEF CloseLoop
<1>2. /\ UNCHANGED <<tasks, call>>
      /\ \E p, s : /\ phase' = [phase EXCEPT ![l] = p]
                   /\ queue' = [queue EXCEPT ![l] = s]
    BY DEF Stop, CloseLoop, Shut, Rest, callVars
<1>3. \A m \in 1..Len(phase) : m # l =>
          queue'[m] = queue[m] /\ phase'[m] = phase[m]
    BY <1>2, LoopsShape, KeptShape
<1>4. \A c \in 1..Len(tasks) : Under(tasks[c]) => tasks[c].loop # l
    BY <1>1, NoneOn
<1> QED
    BY <1>2, <1>3, <1>4, LeftWinds

LEMMA LeftDrain ==
    ASSUME Kept, TurnsOK, LeftOK, NEW l \in 1..Len(phase), Drain(l)
    PROVE  LeftOK'
<1>1. phase[l] \notin {"running", "closed"}
    BY DEF Drain
<1>2. /\ Len(tasks') = Len(tasks)
      /\ \A c \in 1..Len(tasks) : \/ tasks'[c] = tasks[c]
                                  \/ tasks'[c] = Over("cancelled")
      /\ \A m \in 1..Len(phase) : m # l => phase'[m] = phase[m]
      /\ UNCHANGED <<queue, call>>
    BY DrainTasks
<1>3. ~Under(Over("cancelled"))
    BY DEF Under, Over, Task, Ended
<1>4. /\ \A c \in 1..Len(tasks) : Under(tasks[c]) => tasks[c].loop # l
      /\ \A a \in Callers : call[a].pc \in {"idle", "join"}
    BY <1>1, NoneOn
<1>5. \A a \in Callers : Cleared(call[a], tasks') => Cleared(call[a], tasks)
    BY <1>4 DEF Cleared
<1> QED
    BY <1>2, <1>3, <1>4, <1>5, LeftWinds

\* A step of a call before it waits or closes, or once it no longer waits.
LEMMA LeftPlain ==
    ASSUME Kept, LeftOK, SameWork, SamePhase, tasks' = tasks,
           NEW a \in Callers, Alone(a), NEW k, Becomes(a, k),
           call[a].pc \notin {"read", "close", "closing"},
           call[a].pc \in Waits => Done(a),
           k.pc \notin {"closing", "stop", "join"}
    PROVE  LeftOK'
<1>1. ASSUME NEW c \in 1..Len(tasks), Under(tasks[c])
      PROVE  /\ Mine(call[a], c) => Mine(k, c)
             /\ Undoes(call[a], tasks[c]) => Undoes(k, tasks[c])
             /\ Clears(k, c, tasks)
    <2>1. ~Mine(call[a], c)
        BY <1>1 DEF Mine, Done, Under
    <2>2. ~Undoes(call[a], tasks[c]) /\ ~Cleared(k, tasks)
        BY DEF Undoes, Cleared
    <2> QED
        BY <2>1, <2>2 DEF Clears
<1> QED
    BY <1>1, LeftCall

LEMMA LeftFail ==
    ASSUME Kept, TurnsOK, LeftOK, NEW a \in Callers, Fail(a),
           call[a].pc \in {"enter", "submit", "wait"},
           call[a].pc = "wait" => Done(a),
           UNCHANGED <<phase, queue, tasks>>
    PROVE  LeftOK'
<1>1. PICK k : Becomes(a, k) /\ k.pc \in {"idle", "read"}
    BY FailIs
<1>2. Alone(a) /\ SameWork /\ SamePhase
    BY UnderWay, SameQueue DEF At, SamePhase
<1> QED
    BY <1>1, <1>2, LeftPlain DEF Waits

LEMMA LeftReturn ==
    ASSUME Kept, TurnsOK, LeftOK, NEW a \in Callers, Return(a),
           call[a].pc \in {"join"} \cup Waits, call[a].pc # "closing",
           call[a].pc \in Waits => Done(a),
           UNCHANGED <<phase, queue, tasks>>
    PROVE  LeftOK'
<1>1. PICK k : Becomes(a, k) /\ k.pc = "idle"
    BY ReturnIs
<1>2. Alone(a) /\ SameWork /\ SamePhase
    BY UnderWay, SameQueue DEF At, SamePhase, Waits
<1> QED
    BY <1>1, <1>2, LeftPlain DEF Waits

LEMMA LeftCalls ==
    ASSUME Kept, TurnsOK, LeftOK, Careful, NEW a \in Callers,
           NEW op, NEW h, Call(a, op, h)
    PROVE  LeftOK'
<1>1. PICK pc : pc = IF op = "close" THEN "read" ELSE "enter"
    OBVIOUS
<1>2. PICK k : k = [pc |-> pc, op |-> op, handle |-> h, task |-> 0,
                    loop |-> None]
    OBVIOUS
<1>3. /\ Becomes(a, k) /\ UNCHANGED <<phase, queue, tasks>>
      /\ k.pc \in {"read", "enter"}
    BY <1>1, <1>2 DEF Call, Called, Becomes, loopVars
<1>4. call[a].pc = "idle" /\ Alone(a)
    BY DEF Call, Called, MayCall, Careful, At, Alone
<1>5. SameWork /\ SamePhase
    BY <1>3, SameQueue DEF SamePhase
<1> QED
    BY <1>3, <1>4, <1>5, LeftPlain DEF Waits

LEMMA LeftEnter ==
    ASSUME Kept, TurnsOK, LeftOK, NEW a \in Callers, Enter(a)
    PROVE  LeftOK'
<1>1. UNCHANGED <<phase, queue, tasks>> /\ call[a].pc = "enter"
    BY DEF Enter, At, loopVars
<1>2. CASE Fail(a)
    BY <1>1, <1>2, LeftFail
<1>3. CASE GoTo(a, "submit") \/ GoTo(a, "create")
    <2>1. PICK k : Becomes(a, k) /\ k.pc \in {"submit", "create"}
        BY <1>3, GoToIs
    <2>2. Alone(a) /\ SameWork /\ SamePhase
        BY <1>1, UnderWay, SameQueue DEF At, SamePhase
    <2> QED
        BY <1>1, <2>1, <2>2, LeftPlain DEF Waits
<1> QED
    BY <1>2, <1>3 DEF Enter

LEMMA LeftCreate ==
    ASSUME Kept, TurnsOK, LeftOK, NEW a \in Callers, CreateLoop(a)
    PROVE  LeftOK'
<1>1. PICK k : Becomes(a, k) /\ k.pc = "submit"
    BY GoToIs DEF CreateLoop
<1>2. /\ tasks' = tasks /\ call[a].pc = "create"
      /\ phase' = Append(phase, "running") /\ queue' = Append(queue, <<>>)
    BY DEF CreateLoop, At
<1>3. \A m \in 1..Len(phase) :
          phase'[m] = phase[m] /\ queue'[m] = queue[m]
    BY <1>2, LoopsShape, KeptShape
<1>4. SameWork /\ SamePhase
    BY <1>3 DEF SameWork, SamePhase
<1>5. Alone(a)
    BY <1>2, UnderWay DEF At
<1> QED
    BY <1>1, <1>2, <1>4, <1>5, LeftPlain DEF Waits

LEMMA LeftFinish ==
    ASSUME Kept, TurnsOK, LeftOK, NEW a \in Callers, Finish(a)
    PROVE  LeftOK'
<1>1. UNCHANGED <<phase, queue, tasks>> /\ call[a].pc = "wait" /\ Done(a)
    BY DEF Finish, At, loopVars
<1> QED
    BY <1>1, LeftFail, LeftReturn DEF Finish, Waits

\* close() finds the loop of the connect() it undoes.
LEMMA LeftRead ==
    ASSUME Kept, TurnsOK, SyncOK, LeftOK, NEW a \in Callers, ReadLoop(a)
    PROVE  LeftOK'
<1>1. PICK h : h = call[a].handle
    OBVIOUS
<1>2. /\ UNCHANGED <<phase, queue, tasks>> /\ call[a].pc = "read"
      /\ h \in Handles /\ call[a] \in CallRecords
    BY <1>1, LoopsShape DEF ReadLoop, At, loopVars
<1>3. Alone(a) /\ SameWork /\ SamePhase
    BY <1>2, UnderWay, SameQueue DEF At, SamePhase
<1>4. PICK L, V : L = loopThread /\ CallerFits(call[a], L, V)
    BY <1>2, UnderWay DEF At
<1>5. ASSUME NEW c \in 1..Len(tasks), Undoes(call[a], tasks[c])
      PROVE  /\ loopThread[h] = call[a].loop /\ loopThread[h] # None
             /\ SyncAllowed(a, h)
    <2>1. call[a].loop # None
        <3>1. tasks[c].loop \in 1..Len(phase) /\ None \notin Nat
            BY TaskShape, LoopsShape
        <3> QED
            BY <1>5, <3>1 DEF Undoes
    <2>2. loopThread[h] = call[a].loop
        BY <1>1, <1>2, <1>4, <2>1 DEF CallerFits
    <2>3. Syncs(call[a])
        BY <1>2, <2>1 DEF Syncs
    <2> QED
        BY <1>1, <1>2, <2>1, <2>2, <2>3 DEF SyncOK, SyncAllowed
<1>6. CASE loopThread[h] = None \/ (h = Client /\ ~SyncAllowed(a, h))
    <2>1. PICK k : Becomes(a, k) /\ k.pc = "idle"
        BY <1>1, <1>6, ReturnIs DEF ReadLoop
    <2>2. ASSUME NEW c \in 1..Len(tasks), Under(tasks[c])
          PROVE  /\ Mine(call[a], c) => Mine(k, c)
                 /\ Undoes(call[a], tasks[c]) => Undoes(k, tasks[c])
                 /\ Clears(k, c, tasks)
        BY <1>2, <1>5, <1>6, <2>1 DEF Mine, Waits, Clears, Cleared
    <2> QED
        BY <1>2, <1>3, <2>1, <2>2, LeftCall
<1>7. CASE ~(loopThread[h] = None \/ (h = Client /\ ~SyncAllowed(a, h)))
    <2>1. PICK l : l = loopThread[h]
        OBVIOUS
    <2>2. PICK k : k = [call[a] EXCEPT !.pc = "close", !.loop = l]
        OBVIOUS
    <2>3. Becomes(a, k)
        BY <1>1, <1>7, <2>1, <2>2 DEF ReadLoop, Becomes
    <2>4. /\ k.pc = "close" /\ k.loop = l /\ k.op = call[a].op
          /\ k.handle = call[a].handle
        BY <1>2, <2>2 DEF CallRecords
    <2>5. ASSUME NEW c \in 1..Len(tasks), Under(tasks[c])
          PROVE  /\ Mine(call[a], c) => Mine(k, c)
                 /\ Undoes(call[a], tasks[c]) => Undoes(k, tasks[c])
                 /\ Clears(k, c, tasks)
        <3>1. ~Mine(call[a], c) /\ ~Cleared(k, tasks)
            BY <1>2, <2>4 DEF Mine, Waits, Cleared
        <3>2. Undoes(call[a], tasks[c]) => Undoes(k, tasks[c])
            BY <1>5, <2>1, <2>4 DEF Undoes
        <3> QED
            BY <3>1, <3>2 DEF Clears
    <2> QED
        BY <1>2, <1>3, <2>3, <2>5, LeftCall
<1> QED
    BY <1>6, <1>7

\* close() goes on once nothing else is under way on its loop.
LEMMA LeftAfterClose ==
    ASSUME Kept, TurnsOK, RunsOK, LeftOK, NEW a \in Callers, AfterClose(a),
           call[a].pc \in {"close", "closing"},
           UNCHANGED <<phase, queue, tasks>>,
           \A c \in 1..Len(tasks) :
               Under(tasks[c]) => tasks[c].loop # call[a].loop
    PROVE  LeftOK'
<1>1. PICK k : /\ Becomes(a, k)
               /\ \/ k.pc = "idle"
                  \/ k.pc = "stop" /\ SameCall(k, call[a])
    BY AfterCloseIs
<1>2. Alone(a) /\ SameWork /\ SamePhase
    BY UnderWay, SameQueue DEF At, SamePhase
<1>3. ASSUME NEW c \in 1..Len(tasks), Under(tasks[c])
      PROVE  /\ Mine(call[a], c) => Mine(k, c)
             /\ Undoes(call[a], tasks[c]) => Undoes(k, tasks[c])
             /\ Clears(k, c, tasks)
    <2>1. tasks[c].loop # call[a].loop
        BY <1>3
    <2>2. ~Undoes(call[a], tasks[c])
        BY <2>1 DEF Undoes
    <2>3. Clears(k, c, tasks)
        BY <1>1, <2>1 DEF Clears, Cleared, SameCall
    <2>4. ~Mine(call[a], c)
        BY <1>3, <2>1 DEF Mine, RunsOK, OwnTask
    <2> QED
        BY <2>2, <2>3, <2>4
<1> QED
    BY <1>1, <1>2, <1>3, LeftCall

LEMMA LeftFinishClose ==
    ASSUME Kept, TurnsOK, RunsOK, LeftOK, NEW a \in Callers, FinishClose(a)
    PROVE  LeftOK'
<1>1. /\ UNCHANGED <<phase, queue, tasks>> /\ call[a].pc = "closing"
      /\ Done(a) /\ AfterClose(a)
    BY DEF FinishClose, At, loopVars
<1>2. Cleared(call[a], tasks)
    BY <1>1 DEF Cleared, Done, Ended, Handed
<1>3. ASSUME NEW c \in 1..Len(tasks), Under(tasks[c]),
             tasks[c].loop = call[a].loop
      PROVE  FALSE
    <2>1. Mine(call[a], c)
        BY <1>2, <1>3 DEF LeftOK, Clears
    <2> QED
        BY <1>1, <1>3, <2>1 DEF Mine, Done, Under
<1> QED
    BY <1>1, <1>3, LeftAfterClose

LEMMA LeftStopLoop ==
    ASSUME Kept, TurnsOK, LeftOK, NEW a \in Callers, StopLoop(a)
    PROVE  LeftOK'
<1>1. PICK l : l = call[a].loop
    OBVIOUS
<1>2. /\ UNCHANGED <<phase, tasks>> /\ call[a].pc = "stop"
      /\ GoTo(a, "join")
      /\ \/ queue' = queue
         \/ queue' = [queue EXCEPT ![l] = Append(@, Callback("stop", 0))]
    BY <1>1 DEF StopLoop, At
<1>3. PICK k : /\ Becomes(a, k) /\ k.pc = "join"
               /\ SameCall(k, call[a])
    BY <1>2, GoToIs
<1>4. Alone(a) /\ SamePhase
    BY <1>2, UnderWay DEF At, SamePhase
<1>5. SameWork
    <2>1. CASE queue' = queue
        BY <2>1, SameQueue
    <2>2. CASE queue' = [queue EXCEPT ![l] = Append(@, Callback("stop", 0))]
        <3>1. l \in 1..Len(phase)
            <4>1. call[a].loop # None
                BY <1>2, CallShape DEF CallFits
            <4> QED
                BY <1>1, <4>1, LoopsShape
        <3>2. PICK x : x = Callback("stop", 0)
            OBVIOUS
        <3>3. x \in Callbacks /\ x.do = "stop"
            BY <3>2 DEF Callback, Callbacks
        <3>4. Gained(queue, l, x, queue')
            BY <2>2, <3>2 DEF Gained
        <3> QED
            BY <3>1, <3>3, <3>4, GainsWork DEF Is
    <2> QED
        BY <1>2, <2>1, <2>2
<1>6. ASSUME NEW c \in 1..Len(tasks), Under(tasks[c])
      PROVE  /\ Mine(call[a], c) => Mine(k, c)
             /\ Undoes(call[a], tasks[c]) => Undoes(k, tasks[c])
             /\ Clears(k, c, tasks)
    <2>1. ~Mine(call[a], c) /\ ~Undoes(call[a], tasks[c])
        BY <1>2 DEF Mine, Undoes, Waits
    <2>2. Clears(call[a], c, tasks) /\ Cleared(call[a], tasks)
        BY <1>2 DEF LeftOK, Cleared
    <2>3. tasks[c].loop # call[a].loop
        BY <1>6, <2>1, <2>2 DEF Clears
    <2> QED
        BY <1>3, <2>1, <2>3 DEF Clears, SameCall
<1> QED
    BY <1>2, <1>3, <1>4, <1>5, <1>6, LeftCall

LEMMA LeftKeep ==
    ASSUME Kept, Careful, TurnsOK, RunsOK, SyncOK, LeftOK, [Next]_vars
    PROVE  LeftOK'
<1>1. CASE UNCHANGED vars
    BY <1>1, LeftStay DEF vars
<1>2. ASSUME NEW a \in Callers, HandsOver(a)
      PROVE  LeftOK'
    BY <1>2, LeftHand
<1>3. ASSUME NEW a \in Callers, Submit(a)
      PROVE  LeftOK'
    <2>1. phase' = phase /\ call[a].pc = "submit"
        BY <1>3 DEF Submit, At
    <2> QED
        BY <1>2, <1>3, <2>1, SubmitHands, LeftFail
<1>4. ASSUME NEW a \in Callers, SubmitClose(a)
      PROVE  LeftOK'
    <2>1. phase' = phase /\ call[a].pc = "close"
        BY <1>4 DEF SubmitClose, At
    <2>2. CASE /\ Closed(call[a].loop) /\ AfterClose(a)
               /\ UNCHANGED <<queue, tasks>>
        <3>1. \A c \in 1..Len(tasks) :
                  Under(tasks[c]) => tasks[c].loop # call[a].loop
            BY <2>2 DEF LeftOK, Turns, Closed
        <3> QED
            BY <2>1, <2>2, <3>1, LeftAfterClose
    <2> QED
        BY <1>2, <1>4, <2>2, SubmitCloseHands
<1>5. ASSUME NEW a \in Callers, Resume(a)
      PROVE  LeftOK'
    <2>1. /\ phase' = phase /\ call[a].pc \in {"await", "unwind"}
          /\ Done(a)
        BY <1>5 DEF Resume, At
    <2> QED
        BY <1>2, <1>5, <2>1, ResumeHands, LeftReturn DEF Waits
<1>6. ASSUME NEW a \in Callers, Join(a)
      PROVE  LeftOK'
    <2>1. /\ UNCHANGED <<phase, queue, tasks>> /\ call[a].pc = "join"
          /\ Return(a)
        BY <1>6 DEF Join, At, loopVars
    <2> QED
        BY <2>1, LeftReturn DEF Waits
<1>7. ASSUME NEW a \in Callers, Proceed(a)
      PROVE  LeftOK'
    BY <1>3, <1>4, <1>5, <1>6, <1>7, LeftEnter, LeftCreate, LeftFinish,
       LeftRead, LeftFinishClose, LeftStopLoop DEF Proceed
<1>8. ASSUME NEW a \in Callers, UserStep(a)
      PROVE  LeftOK'
    <2>1. ~InterruptClose(a)
        BY DEF Careful, InterruptClose
    <2> QED
        BY <1>8, <2>1, LeftInterrupt, LeftCalls DEF UserStep
<1>9. ASSUME GoOnStep
      PROVE  LeftOK'
    BY <1>9, GoingOn, LeftGoesOn
<1>10. ASSUME NEW a \in Cells, CellStep(a)
       PROVE  LeftOK'
    <2>1. a \in Callers
        BY DEF Callers
    <2> QED
        BY <1>2, <1>9, <1>10, <2>1, AwaitHands DEF CellStep, GoOnStep
<1>11. ASSUME NEW l \in DOMAIN phase, LoopStep(l)
       PROVE  LeftOK'
    <2>1. l \in 1..Len(phase)
        BY KeptShape
    <2>2. LoopTurn(l) => GoOnStep
        BY DEF GoOnStep
    <2> QED
        BY <1>9, <1>11, <2>1, <2>2, LeftStart, LeftStop, LeftDrain
           DEF LoopStep, LoopTurn
<1> QED
    BY <1>1, <1>7, <1>8, <1>9, <1>10, <1>11 DEF Next, GoOnStep

LEMMA InitLeft ==
    ASSUME Init
    PROVE  LeftOK
<1>1. Len(tasks) = 0
    BY DEF Init
<1> QED
    BY <1>1 DEF LeftOK

\* Callers that take turns: what an interrupted call left behind is cancelled,
\* and that before the first step of anything handed to its loop later; a
\* connect() is left behind only while it is being undone; and close() stops
\* its loop when nothing else is under way there (qclient.py, run and close).
THEOREM WhatIsLeftIsCancelledFirst == Spec => [](Careful => LeftOK)
<1>1. Init => (Careful => LeftOK)
    BY InitLeft
<1>2. /\ Kept /\ (Careful => TurnsOK) /\ (Careful => RunsOK)
      /\ (Careful => SyncOK) /\ (Careful => LeftOK) /\ [Next]_vars
      => (Careful => LeftOK)'
    BY LeftKeep, CarefulStays
<1> QED
    BY <1>1, <1>2, KeptAlways, CarefulCallersTakeTurns,
       CarefulCallersWaitForTheirOwn, CarefulCellsDoNotBlockTheirLoop,
       PTL DEF Spec

-----------------------------------------------------------------------------
(* Callers that take turns, last part: which session is used where, who    *)
(* refers to it, and what becomes of a connect().                          *)

\* The callbacks in a queue.
Of(s) == {s[i] : i \in 1..Len(s)}

SameTask(t, u) == u.op = t.op /\ u.handle = t.handle /\ u.loop = t.loop

\* Coroutine `c' becomes `u', and the others stay.
Turned(c, u) ==
    /\ Len(tasks') = Len(tasks) /\ tasks'[c] = u
    /\ \A d \in 1..Len(tasks) : d # c => tasks'[d] = tasks[d]

\* No callback more, or only `y' on loop `l'.
NoMore == \A m \in 1..Len(phase) : Of(queue'[m]) \subseteq Of(queue[m])

Sends(l, y) ==
    \A m \in 1..Len(phase) : \A x \in Of(queue'[m]) :
        x \in Of(queue[m]) \/ (m = l /\ x = y)

\* How a request goes on: it ends, it is sent where it is made, or it is
\* forwarded.
Quits(u) == u.stage \in Ended /\ ~u.sent

InPlace(t, u) ==
    /\ SameTask(t, u) /\ u.sent /\ u.at = t.loop
    /\ u.via = session[t.handle] /\ u.via \in open /\ home[u.via] = t.loop

Forwarded(c, t, u) ==
    /\ SameTask(t, u) /\ ~u.sent /\ session[t.handle] # None
    /\ u.at = home[session[t.handle]] /\ u.at # t.loop /\ ~Closed(u.at)
    /\ \E y : y.do = "request" /\ y.task = c /\ Sends(u.at, y)

LEMMA OfTail ==
    ASSUME NEW s \in Seq(Callbacks), s # <<>>
    PROVE  Of(Tail(s)) \subseteq Of(s)
<1>1. ASSUME NEW i \in 1..Len(Tail(s))
      PROVE  \E j \in 1..Len(s) : Tail(s)[i] = s[j]
    <2>1. i + 1 \in 1..Len(s) /\ Tail(s)[i] = s[i + 1]
        BY <1>1
    <2> QED
        BY <2>1
<1> QED
    BY <1>1 DEF Of

LEMMA OfAppend ==
    ASSUME NEW s \in Seq(Callbacks), NEW y \in Callbacks,
           NEW x \in Of(Append(s, y))
    PROVE  x \in Of(s) \/ x = y
<1>1. PICK i \in 1..Len(Append(s, y)) : x = Append(s, y)[i]
    BY DEF Of
<1>2. CASE i \in 1..Len(s)
    BY <1>1, <1>2 DEF Of
<1>3. CASE i \notin 1..Len(s)
    <2>1. i = Len(s) + 1
        BY <1>1, <1>3
    <2> QED
        BY <1>1, <2>1
<1> QED
    BY <1>2, <1>3

LEMMA OfHead ==
    ASSUME NEW s \in Seq(Callbacks), s # <<>>
    PROVE  Head(s) \in Of(s)
<1>1. 1 \in 1..Len(s) /\ Head(s) = s[1]
    OBVIOUS
<1> QED
    BY <1>1 DEF Of

\* Whose callback it is.
LEMMA OfFits ==
    ASSUME Kept, NEW m \in 1..Len(phase), NEW x \in Of(queue[m])
    PROVE  /\ CallbackFits(m, x, tasks, home)
           /\ x.do # "stop" => x.task \in 1..Len(tasks)
<1>1. PICK i \in 1..Len(queue[m]) : x = queue[m][i]
    BY DEF Of
<1>2. CallbackFits(m, x, tasks, home)
    BY <1>1 DEF Kept, LoopsOK, QueueFits
<1>3. x.task \in 0..Len(tasks) /\ (x.do # "stop" => x.task # 0)
      /\ Len(tasks) \in Nat
    BY <1>2, KeptShape DEF CallbackFits
<1> QED
    BY <1>2, <1>3

LEMMA RestNoMore ==
    ASSUME Kept, NEW l \in 1..Len(phase), queue[l] # <<>>,
           NEW m \in 1..Len(phase)
    PROVE  Of(Rest(l)[m]) \subseteq Of(queue[m])
<1>1. Rest(l)[m] = Left(queue, l, m) /\ queue[m] \in Seq(Callbacks)
    BY RestLeft
<1>2. CASE m = l
    BY <1>1, <1>2, OfTail DEF Left
<1>3. CASE m # l
    BY <1>1, <1>3 DEF Left
<1> QED
    BY <1>2, <1>3

\* The callbacks `q' there were, and one more.
LEMMA GainedSends ==
    ASSUME Kept, NEW q \in Seq(Seq(Callbacks)), Len(q) = Len(phase),
           \A m \in 1..Len(phase) : Of(q[m]) \subseteq Of(queue[m]),
           NEW o \in 1..Len(phase), NEW y \in Callbacks,
           Gained(q, o, y, queue')
    PROVE  Sends(o, y)
<1>1. q[o] \in Seq(Callbacks)
    OBVIOUS
<1>2. PICK r : r = Append(q[o], y)
    OBVIOUS
<1>3. queue' = [q EXCEPT ![o] = r] /\ r \in Seq(Callbacks)
    BY <1>1, <1>2 DEF Gained
<1>4. /\ queue'[o] = r
      /\ \A m \in 1..Len(q) : m # o => queue'[m] = q[m]
    BY <1>3, OneChanged
<1>5. ASSUME NEW m \in 1..Len(phase), NEW x \in Of(queue'[m])
      PROVE  x \in Of(queue[m]) \/ (m = o /\ x = y)
    <2>1. CASE m = o
        <3>1. x \in Of(q[o]) \/ x = y
            BY <1>1, <1>2, <1>4, <1>5, <2>1, OfAppend
        <3> QED
            BY <2>1, <3>1
    <2>2. CASE m # o
        BY <1>4, <1>5, <2>2
    <2> QED
        BY <2>1, <2>2
<1> QED
    BY <1>5 DEF Sends

LEMMA PutsTurned ==
    ASSUME Kept, NEW c \in 1..Len(tasks), NEW u \in Tasks,
           Puts(tasks, c, u, tasks')
    PROVE  Turned(c, u)
<1>1. tasks \in Seq(Tasks) /\ tasks' = [tasks EXCEPT ![c] = u]
    BY KeptShape DEF Puts
<1> QED
    BY <1>1, OneChanged DEF Turned

LEMMA EndQuits ==
    ASSUME Kept, NEW c \in 1..Len(tasks), NEW how \in Ended, End(c, how)
    PROVE  \E u \in Tasks : Turned(c, u) /\ Quits(u) /\ u.stage = how
<1>1. PICK u : u = Over(how)
    OBVIOUS
<1>2. u \in Tasks /\ u.stage = how /\ ~u.sent
    BY <1>1, KeptShape DEF Over, Task, Tasks, Ended, App, Handles
<1>3. Puts(tasks, c, u, tasks')
    BY <1>1 DEF End, Puts
<1> QED
    BY <1>2, <1>3, PutsTurned DEF Quits

LEMMA RequestTurns ==
    ASSUME Kept, NEW c \in 1..Len(tasks), NEW q \in Seq(Seq(Callbacks)),
           Len(q) = Len(phase),
           \A m \in 1..Len(phase) : Of(q[m]) \subseteq Of(queue[m]),
           NEW stage \in Asking, Request(c, stage, q)
    PROVE  \E u \in Tasks :
               /\ Turned(c, u)
               /\ \/ Quits(u) /\ u.stage = "raised" /\ NoMore
                  \/ InPlace(tasks[c], u) /\ u.stage = stage /\ NoMore
                  \/ Forwarded(c, tasks[c], u) /\ u.stage = stage
<1>1. /\ tasks \in Seq(Tasks) /\ tasks[c] \in Tasks
      /\ None \notin Nat /\ Len(phase) \in Nat /\ Len(home) \in Nat
      /\ Len(tasks) \in Nat /\ c \in Nat
    BY KeptShape
<1>2. PICK t : t = tasks[c]
    OBVIOUS
<1>3. PICK s : s = session[t.handle]
    OBVIOUS
<1>4. t \in Tasks /\ t.handle \in Handles /\ t.loop \in Nat
    BY <1>1, <1>2 DEF Tasks
<1>5. /\ s \in (1..Len(home)) \cup {None}
      /\ s \in open => s \in Nat /\ s # None
      /\ s # None => home[s] \in 1..Len(phase)
    <2>1. s \in (1..Len(home)) \cup {None}
        BY <1>3, <1>4 DEF Kept, FieldsOK
    <2>2. open \subseteq 1..Len(home) /\ 1..Len(home) \subseteq Nat
        BY <1>1 DEF Kept, SessionsOK
    <2>3. \A i \in 1..Len(home) : home[i] \in 1..Len(phase)
        BY DEF Kept, SessionsOK
    <2> QED
        BY <1>1, <2>1, <2>2, <2>3
<1>6. PICK owner : owner = IF s = None THEN None ELSE home[s]
    OBVIOUS
<1>7. owner = Owner(t.handle)
    BY <1>3, <1>6 DEF Owner
<1>8. queue' = q => NoMore
    BY DEF NoMore
<1>9. CASE End(c, "raised") /\ queue' = q
    <2>1. "raised" \in Ended
        BY DEF Ended
    <2> QED
        BY <1>8, <1>9, <2>1, EndQuits
<1>10. CASE /\ owner \in {None, t.loop}
            /\ tasks' = [tasks EXCEPT ![c] = Sent(t, stage, t.loop)]
            /\ queue' = q
    <2>1. CASE s \in open
        <3>1. PICK u : u = [t EXCEPT !.stage = stage, !.at = t.loop,
                                     !.sent = TRUE, !.via = s]
            OBVIOUS
        <3>2. /\ u \in Tasks /\ u.stage = stage /\ SameTask(t, u)
              /\ u.at = t.loop /\ u.sent /\ u.via = s
            <4>1. s \in Nat /\ stage \in Asking /\ t.loop \in Nat
                BY <1>4, <1>5, <2>1
            <4> QED
                BY <1>4, <3>1, <4>1 DEF Tasks, SameTask
        <3>3. home[s] = t.loop
            BY <1>1, <1>5, <1>6, <1>10, <2>1
        <3>4. InPlace(t, u)
            BY <1>3, <2>1, <3>2, <3>3 DEF InPlace
        <3>5. Puts(tasks, c, u, tasks')
            BY <1>3, <1>10, <2>1, <3>1 DEF Sent, Puts
        <3> QED
            BY <1>2, <1>8, <1>10, <3>2, <3>4, <3>5, PutsTurned
    <2>2. CASE s \notin open
        <3>1. End(c, "raised")
            BY <1>3, <1>10, <2>2 DEF Sent, End
        <3> QED
            BY <1>9, <1>10, <3>1
    <2> QED
        BY <2>1, <2>2
<1>11. CASE /\ owner \notin {None, t.loop} /\ ~Closed(owner)
            /\ tasks' = [tasks EXCEPT ![c].stage = stage, ![c].at = owner,
                                      ![c].sent = FALSE]
            /\ queue' = [q EXCEPT ![owner] =
                            Append(@, Callback("request", c))]
    <2>1. PICK u : u = [t EXCEPT !.stage = stage, !.at = owner,
                                 !.sent = FALSE]
        OBVIOUS
    <2>2. owner \in 1..Len(phase) /\ owner \in Nat /\ s # None
          /\ owner = home[s]
        BY <1>1, <1>5, <1>6, <1>11
    <2>3. /\ u \in Tasks /\ u.stage = stage /\ SameTask(t, u)
          /\ u.at = owner /\ ~u.sent
        BY <1>4, <2>1, <2>2 DEF Tasks, SameTask
    <2>4. Puts(tasks, c, u, tasks')
        BY <1>2, <1>11, <2>1 DEF Puts
    <2>5. PICK y : y = Callback("request", c)
        OBVIOUS
    <2>6. y \in Callbacks /\ y.do = "request" /\ y.task = c
        BY <1>1, <2>5 DEF Callback, Callbacks
    <2>7. Gained(q, owner, y, queue')
        BY <1>11, <2>5 DEF Gained
    <2>8. Sends(owner, y)
        BY <2>2, <2>6, <2>7, GainedSends
    <2>9. Forwarded(c, t, u)
        BY <1>3, <1>11, <2>2, <2>3, <2>6, <2>8 DEF Forwarded
    <2> QED
        BY <1>2, <2>3, <2>4, <2>9, PutsTurned
<1> QED
    BY <1>2, <1>7, <1>9, <1>10, <1>11 DEF Request

\* What a step may make of the client and of the connect() it is part of.
Fares(t, u) ==
    /\ authenticated'[Client] =>
        \/ authenticated[Client]
        \/ /\ t.stage = "auth" /\ t.handle = Client
           /\ u.stage \in {"resource", "raised"}
    /\ resource[Client] => resource'[Client]
    /\ t.stage = "resource" =>
        \/ u.stage \in {"resource", "raised", "cancelled"}
        \/ t.sent /\ (t.handle = Client => resource'[Client])

SameSessions == UNCHANGED <<home, open, session>>

Forgotten == session' = [session EXCEPT ![Client] = None]

\* It ends; no coroutine that closes the client does, unless it is cancelled.
Drops(c, t, u) ==
    /\ SameSessions /\ NoMore /\ Quits(u) /\ Under(t)
    /\ (t.op = "aclose" /\ t.handle = Client) =>
           ~NoneDo(queue, "cancel", c)

\* It asks, in place or, now or later, where its session is.
Arrives(c, t, u) ==
    /\ SameTask(t, u) /\ t.stage \in Asking /\ u.sent
    /\ u.via = session[t.handle] /\ u.via \in open
    /\ \E m \in 1..Len(phase) : /\ queue[m] # <<>> /\ u.at = m
                                /\ Is(Head(queue[m]), "request", c)

Asks(c, t, u) ==
    /\ SameSessions
    /\ t.stage \in Asking \cup {"ready"} /\ u.stage \in Asking
    /\ \/ InPlace(t, u) /\ NoMore
       \/ Forwarded(c, t, u)
       \/ Arrives(c, t, u) /\ NoMore

\* It connects anew, on loop `l'.
ConnectsAnew(c, t, u, l) ==
    /\ Steps(c, l) /\ Ready(c, l) /\ ConnectAnew(c, l)
    /\ queue[l] # <<>> /\ Is(Head(queue[l]), "step", c)
    /\ NoMore /\ t.op = "connect" /\ t.stage = "ready"
    /\ SameTask(t, u) /\ u.stage = "auth" /\ u.sent /\ u.at = l
    /\ u.via = Len(home) + 1

\* It closes the client: there is nothing to close, or it is closing.
ClosesNothing(u) ==
    /\ NoMore /\ open' = open /\ Forgotten /\ Quits(u)
    /\ session[Client] \notin open \/ Closed(Owner(Client))

ClosesIt(c, t, u) ==
    /\ session' = session /\ session[Client] \in open
    /\ SameTask(t, u) /\ u.stage = "closing" /\ u.via = session[Client]
    /\ \/ open' = open \ {session[Client]} /\ NoMore
       \/ /\ open' = open /\ ~u.sent
          /\ \E m, y : /\ y.do = "close" /\ y.task = c
                       /\ y.via = session[Client] /\ Sends(m, y)

ClosesClient(c, t, u, l) ==
    /\ queue[l] # <<>> /\ Is(Head(queue[l]), "step", c)
    /\ t.op = "aclose" /\ t.handle = Client /\ t.stage = "ready"
    /\ home' = home /\ ~authenticated'[Client]
    /\ ClosesNothing(u) \/ ClosesIt(c, t, u)

\* The session is closed where the closing was forwarded to.
ClosesThere(c, t, u, l) ==
    /\ queue[l] # <<>> /\ Is(Head(queue[l]), "close", c)
    /\ UNCHANGED <<home, session>> /\ NoMore
    /\ open' = open \ {Head(queue[l]).via}
    /\ \/ u = t /\ ~Under(t)
       \/ /\ t.stage = "closing" /\ u.stage = "closing" /\ u.sent
          /\ u.via = t.via /\ SameTask(t, u)

ClosesLast(t, u) ==
    /\ UNCHANGED <<home, open>> /\ NoMore /\ Forgotten
    /\ t.stage = "closing" /\ t.sent /\ Quits(u)

Fate(c, t, u) ==
    /\ Turned(c, u) /\ Fares(t, u)
    /\ \/ Drops(c, t, u) \/ Asks(c, t, u) \/ ClosesLast(t, u)
       \/ \E l \in 1..Len(phase) :
             \/ ConnectsAnew(c, t, u, l)
             \/ ClosesClient(c, t, u, l)
             \/ ClosesThere(c, t, u, l)

Idles ==
    /\ UNCHANGED <<tasks, home, open, session, authenticated, resource>>
    /\ NoMore

LEMMA JustRestsNoMore ==
    ASSUME Kept, NEW l \in 1..Len(phase), queue[l] # <<>>,
           queue' = Rest(l)
    PROVE  NoMore
BY RestNoMore DEF NoMore

\* A coroutine under way, and its fields.
LEMMA UnderShape ==
    ASSUME Kept, RunsOK, NEW c \in 1..Len(tasks), NEW t, t = tasks[c]
    PROVE  /\ t \in Tasks /\ t.handle \in Handles /\ Kind(t)
           /\ authenticated \in [Handles -> BOOLEAN]
           /\ resource \in [Handles -> BOOLEAN]
           /\ Client \in Handles
BY TaskShape, LoopsShape DEF RunsOK, Reached, Kept, FieldsOK

\* The first step of a coroutine.
LEMMA ConnectFate ==
    ASSUME Kept, RunsOK, NEW l \in 1..Len(phase), NEW c \in 1..Len(tasks),
           Steps(c, l), Ready(c, l), queue[l] # <<>>,
           Is(Head(queue[l]), "step", c), Connect(c, l),
           resource' = resource, NEW t, t = tasks[c]
    PROVE  \E u \in Tasks : Fate(c, t, u)
<1>1. /\ t \in Tasks /\ t.stage = "ready" /\ t.loop = l /\ t.at = l
      /\ t.op = "connect" /\ authenticated' = authenticated
      /\ Len(home) \in Nat /\ l \in Nat
    BY KeptShape DEF Ready, Connect
<1>2. Under(t)
    BY <1>1 DEF Under, Ended
<1>3. ASSUME NEW u
      PROVE  Fares(t, u)
    BY <1>1 DEF Fares
<1>4. CASE ConnectAgain(c, l)
    <2>1. PICK how \in Ended : how = "returned"
        BY DEF Ended
    <2>2. PICK u \in Tasks : Turned(c, u) /\ Quits(u)
        BY <1>4, <2>1, EndQuits DEF ConnectAgain
    <2>3. SameSessions /\ NoMore
        BY <1>4, JustRestsNoMore DEF ConnectAgain, SameSessions
    <2>4. Drops(c, t, u)
        BY <1>1, <1>2, <2>2, <2>3 DEF Drops
    <2> QED
        BY <1>3, <2>2, <2>4 DEF Fate
<1>5. CASE ConnectAnew(c, l)
    <2>1. PICK s \in Nat : s = Len(home) + 1
        BY <1>1
    <2>2. PICK u : u = [t EXCEPT !.stage = "auth", !.sent = TRUE, !.via = s]
        OBVIOUS
    <2>3. /\ u \in Tasks /\ u.stage = "auth" /\ SameTask(t, u) /\ u.sent
          /\ u.at = l /\ u.via = s
        BY <1>1, <2>1, <2>2 DEF Tasks, Asking, SameTask
    <2>4. Puts(tasks, c, u, tasks')
        BY <1>5, <2>1, <2>2 DEF ConnectAnew, Puts
    <2>5. NoMore
        BY <1>5, JustRestsNoMore DEF ConnectAnew
    <2>6. ConnectsAnew(c, t, u, l)
        BY <1>1, <1>5, <2>1, <2>3, <2>5 DEF ConnectsAnew
    <2> QED
        BY <1>3, <2>3, <2>4, <2>6, PutsTurned DEF Fate
<1>6. CASE ConnectReusing(c, l)
    <2>1. PICK stage \in Asking : stage = "auth"
        BY DEF Asking
    <2>2. PICK q : q = Rest(l)
        OBVIOUS
    <2>3. /\ q \in Seq(Seq(Callbacks)) /\ Len(q) = Len(phase)
          /\ \A m \in 1..Len(phase) : Of(q[m]) \subseteq Of(queue[m])
        BY <2>2, RestLeft, RestNoMore
    <2>4. Request(c, stage, q) /\ SameSessions
        BY <1>6, <2>1, <2>2 DEF ConnectReusing, SameSessions
    <2>5. PICK u \in Tasks :
              /\ Turned(c, u)
              /\ \/ Quits(u) /\ u.stage = "raised" /\ NoMore
                 \/ InPlace(tasks[c], u) /\ u.stage = stage /\ NoMore
                 \/ Forwarded(c, tasks[c], u) /\ u.stage = stage
        BY <2>3, <2>4, RequestTurns
    <2>6. Drops(c, t, u) \/ Asks(c, t, u)
        BY <1>1, <1>2, <2>4, <2>5 DEF Drops, Asks
    <2> QED
        BY <1>3, <2>5, <2>6 DEF Fate
<1> QED
    BY <1>4, <1>5, <1>6 DEF Connect

LEMMA UseFate ==
    ASSUME Kept, RunsOK, NEW l \in 1..Len(phase), NEW c \in 1..Len(tasks),
           Ready(c, l), queue[l] # <<>>, Use(c, l),
           resource' = resource, NEW t, t = tasks[c]
    PROVE  \E u \in Tasks : Fate(c, t, u)
<1>1. /\ t.stage = "ready" /\ t.op = "request"
      /\ authenticated' = authenticated /\ SameSessions
    BY DEF Ready, Use, SameSessions
<1>2. Under(t)
    BY <1>1 DEF Under, Ended
<1>3. ASSUME NEW u
      PROVE  Fares(t, u)
    BY <1>1 DEF Fares
<1>4. CASE Request(c, "request", Rest(l))
    <2>1. PICK stage \in Asking : stage = "request"
        BY DEF Asking
    <2>2. PICK q : q = Rest(l)
        OBVIOUS
    <2>3. /\ q \in Seq(Seq(Callbacks)) /\ Len(q) = Len(phase)
          /\ \A m \in 1..Len(phase) : Of(q[m]) \subseteq Of(queue[m])
        BY <2>2, RestLeft, RestNoMore
    <2>4. PICK u \in Tasks :
              /\ Turned(c, u)
              /\ \/ Quits(u) /\ u.stage = "raised" /\ NoMore
                 \/ InPlace(tasks[c], u) /\ u.stage = stage /\ NoMore
                 \/ Forwarded(c, tasks[c], u) /\ u.stage = stage
        BY <1>4, <2>1, <2>2, <2>3, RequestTurns
    <2>5. Drops(c, t, u) \/ Asks(c, t, u)
        BY <1>1, <1>2, <2>4 DEF Drops, Asks
    <2> QED
        BY <1>3, <2>4, <2>5 DEF Fate
<1>5. CASE End(c, "raised") /\ queue' = Rest(l)
    <2>1. PICK how \in Ended : how = "raised"
        BY DEF Ended
    <2>2. PICK u \in Tasks : Turned(c, u) /\ Quits(u)
        BY <1>5, <2>1, EndQuits
    <2>3. Drops(c, t, u)
        BY <1>1, <1>2, <1>5, <2>2, JustRestsNoMore DEF Drops
    <2> QED
        BY <1>3, <2>2, <2>3 DEF Fate
<1> QED
    BY <1>4, <1>5 DEF Use

LEMMA CloseFate ==
    ASSUME Kept, RunsOK, NEW l \in 1..Len(phase), NEW c \in 1..Len(tasks),
           Ready(c, l), queue[l] # <<>>,
           Is(Head(queue[l]), "step", c), Close(c, l),
           resource' = resource, NEW t, t = tasks[c]
    PROVE  \E u \in Tasks : Fate(c, t, u)
<1>1. /\ t \in Tasks /\ t.stage = "ready" /\ t.loop = l /\ t.op = "aclose"
      /\ home' = home /\ Len(home) \in Nat /\ None \notin Nat
      /\ authenticated' = [authenticated EXCEPT ![t.handle] = FALSE]
      /\ c \in Nat /\ Len(phase) \in Nat
    BY KeptShape DEF Ready, Close
<1>2. Under(t)
    BY <1>1 DEF Under, Ended
<1>3. /\ authenticated'[Client] => authenticated[Client]
      /\ t.handle = Client => ~authenticated'[Client]
    BY <1>1, UnderShape
<1>4. ASSUME NEW u
      PROVE  Fares(t, u)
    BY <1>1, <1>3 DEF Fares
<1>5. PICK how \in Ended : how = "returned"
    BY DEF Ended
<1>6. PICK s : s = session[Client]
    OBVIOUS
<1>7. s \in open =>
          s \in Nat /\ s # None /\ s \in 1..Len(home)
          /\ home[s] \in 1..Len(phase)
    <2>1. open \subseteq 1..Len(home) /\ 1..Len(home) \subseteq Nat
        BY <1>1 DEF Kept, SessionsOK
    <2>2. \A i \in 1..Len(home) : home[i] \in 1..Len(phase)
        BY DEF Kept, SessionsOK
    <2> QED
        BY <1>1, <2>1, <2>2
<1>8. ASSUME NEW u \in Tasks, Turned(c, u), t.handle = Client,
             ClosesNothing(u) \/ ClosesIt(c, t, u)
      PROVE  \E v \in Tasks : Fate(c, t, v)
    <2>1. ClosesClient(c, t, u, l)
        BY <1>1, <1>3, <1>8 DEF ClosesClient
    <2> QED
        BY <1>4, <1>8, <2>1 DEF Fate
<1>9. CASE CloseView(c, l)
    <2>1. PICK u \in Tasks : Turned(c, u) /\ Quits(u)
        BY <1>5, <1>9, EndQuits DEF CloseView
    <2>2. SameSessions /\ NoMore /\ t.handle # Client
        BY <1>1, <1>9, JustRestsNoMore DEF CloseView, SameSessions
    <2>3. Drops(c, t, u)
        BY <1>2, <2>1, <2>2 DEF Drops
    <2> QED
        BY <1>4, <2>1, <2>3 DEF Fate
<1>10. CASE CloseNothing(c, l)
    <2>1. PICK u \in Tasks : Turned(c, u) /\ Quits(u)
        BY <1>5, <1>10, EndQuits DEF CloseNothing
    <2>2. ClosesNothing(u) /\ t.handle = Client
        BY <1>10, <2>1, JustRestsNoMore
           DEF CloseNothing, ClosesNothing, Forgotten
    <2> QED
        BY <1>8, <2>1, <2>2
<1>11. CASE CloseHere(c, l)
    <2>1. PICK u : u = [t EXCEPT !.stage = "closing", !.sent = TRUE,
                                 !.via = s]
        OBVIOUS
    <2>2. s \in open /\ s \in Nat /\ t.handle = Client
        BY <1>6, <1>7, <1>11 DEF CloseHere
    <2>3. /\ u \in Tasks /\ u.stage = "closing" /\ SameTask(t, u)
          /\ u.via = s
        BY <1>1, <2>1, <2>2 DEF Tasks, SameTask
    <2>4. Puts(tasks, c, u, tasks')
        BY <1>6, <1>11, <2>1 DEF CloseHere, Puts
    <2>5. ClosesIt(c, t, u)
        BY <1>6, <1>11, <2>2, <2>3, JustRestsNoMore DEF CloseHere, ClosesIt
    <2> QED
        BY <1>8, <2>2, <2>3, <2>4, <2>5, PutsTurned
<1>12. CASE CloseElsewhere(c, l)
    <2>1. PICK o : o = Owner(Client)
        OBVIOUS
    <2>2. /\ s \in open /\ s \in Nat /\ t.handle = Client /\ s # None
          /\ s \in 1..Len(home) /\ home[s] \in 1..Len(phase)
        BY <1>6, <1>7, <1>12 DEF CloseElsewhere
    <2>3. o = home[s] /\ o \in 1..Len(phase) /\ o \in Nat
        BY <1>1, <1>6, <2>1, <2>2 DEF Owner
    <2>4. PICK u : u = [t EXCEPT !.stage = "closing", !.at = o, !.via = s]
        OBVIOUS
    <2>5. ~t.sent
        BY DEF Ready
    <2>6. /\ u \in Tasks /\ u.stage = "closing" /\ SameTask(t, u)
          /\ u.via = s /\ ~u.sent
        BY <1>1, <2>2, <2>3, <2>4, <2>5 DEF Tasks, SameTask
    <2>7. Puts(tasks, c, u, tasks')
        BY <1>6, <1>12, <2>1, <2>4 DEF CloseElsewhere, Puts
    <2>8. PICK y : y = Closing(c, s)
        OBVIOUS
    <2>9. y \in Callbacks /\ y.do = "close" /\ y.task = c /\ y.via = s
        BY <1>1, <2>2, <2>8 DEF Closing, Callbacks
    <2>10. PICK q : q = Rest(l)
        OBVIOUS
    <2>11. /\ q \in Seq(Seq(Callbacks)) /\ Len(q) = Len(phase)
           /\ \A m \in 1..Len(phase) : Of(q[m]) \subseteq Of(queue[m])
        BY <2>10, RestLeft, RestNoMore
    <2>12. Gained(q, o, y, queue')
        BY <1>6, <1>12, <2>1, <2>8, <2>10 DEF CloseElsewhere, Gained
    <2>13. Sends(o, y)
        BY <2>3, <2>9, <2>11, <2>12, GainedSends
    <2>14. ClosesIt(c, t, u)
        BY <1>6, <1>12, <2>2, <2>6, <2>9, <2>13
           DEF CloseElsewhere, ClosesIt
    <2> QED
        BY <1>8, <2>2, <2>6, <2>7, <2>14, PutsTurned
<1> QED
    BY <1>9, <1>10, <1>11, <1>12 DEF Close

LEMMA StepFate ==
    ASSUME Kept, RunsOK, NEW l \in 1..Len(phase), Step(l)
    PROVE  \E c \in 1..Len(tasks) : \E u \in Tasks : Fate(c, tasks[c], u)
<1>1. PICK c \in 1..Len(tasks) :
          /\ Steps(c, l) /\ Ready(c, l) /\ Is(Head(queue[l]), "step", c)
          /\ queue[l] # <<>>
          /\ Connect(c, l) \/ Close(c, l) \/ Use(c, l)
    BY StepsReady
<1>2. PICK t : t = tasks[c]
    OBVIOUS
<1>3. resource' = resource
    BY DEF Step
<1>4. \E u \in Tasks : Fate(c, t, u)
    BY <1>1, <1>2, <1>3, ConnectFate, CloseFate, UseFate
<1> QED
    BY <1>2, <1>4

\* It ends, whatever may be left of it.
LEMMA DropFate ==
    ASSUME Kept, RunsOK, NEW c \in 1..Len(tasks), NEW t, t = tasks[c],
           Under(t), NEW how \in Ended, End(c, how), SameSessions, NoMore,
           (t.op = "aclose" /\ t.handle = Client) =>
               ~NoneDo(queue, "cancel", c),
           authenticated' = authenticated, resource' = resource,
           t.stage = "resource" => how # "returned"
    PROVE  \E u \in Tasks : Fate(c, t, u)
<1>1. PICK u \in Tasks : Turned(c, u) /\ Quits(u) /\ u.stage = how
    BY EndQuits
<1>2. Drops(c, t, u)
    BY <1>1 DEF Drops
<1>3. Fares(t, u)
    BY <1>1 DEF Fares, Ended
<1> QED
    BY <1>1, <1>2, <1>3 DEF Fate

LEMMA CancelFate ==
    ASSUME Kept, RunsOK, NEW l \in 1..Len(phase), Cancel(l)
    PROVE  \/ Idles
           \/ \E c \in 1..Len(tasks) : \E u \in Tasks :
                  Fate(c, tasks[c], u)
<1>1. PICK c : c = Head(queue[l]).task
    OBVIOUS
<1>2. /\ queue[l] # <<>> /\ Head(queue[l]).do = "cancel"
      /\ queue' = Rest(l) /\ SameSessions
      /\ authenticated' = authenticated /\ resource' = resource
    BY DEF Cancel, Holds, fields, sessionVars, SameSessions
<1>3. c \in 1..Len(tasks) /\ NoMore
    BY <1>1, <1>2, HeadStage, JustRestsNoMore
<1>4. CASE Pending(c)
    <2>1. PICK how \in Ended : how = "cancelled"
        BY DEF Ended
    <2>2. End(c, how)
        BY <1>1, <1>4, <2>1 DEF Cancel
    <2>3. PICK t : t = tasks[c]
        OBVIOUS
    <2>4. Under(t)
        BY <1>4, <2>3 DEF Pending, Under, Ended
    <2>5. ~NoneDo(queue, "cancel", c)
        <3>1. queue[l] \in Seq(Callbacks) /\ l \in 1..Len(queue)
            BY LoopsShape
        <3>2. Has(queue[l], "cancel", c)
            BY <1>1, <1>2, <3>1, HeadHas
        <3> QED
            BY <3>1, <3>2 DEF NoneDo
    <2>6. \E u \in Tasks : Fate(c, t, u)
        BY <1>2, <1>3, <2>1, <2>2, <2>3, <2>4, <2>5, DropFate
    <2> QED
        BY <1>3, <2>3, <2>6
<1>5. CASE ~Pending(c)
    BY <1>1, <1>2, <1>3, <1>5 DEF Cancel, Idles, SameSessions
<1> QED
    BY <1>4, <1>5

LEMMA ForwardedRequestFate ==
    ASSUME Kept, RunsOK, NEW l \in 1..Len(phase), ForwardedRequest(l)
    PROVE  \/ Idles
           \/ \E c \in 1..Len(tasks) : \E u \in Tasks :
                  Fate(c, tasks[c], u)
<1>1. PICK c : c = Head(queue[l]).task
    OBVIOUS
<1>2. /\ queue[l] # <<>> /\ Head(queue[l]).do = "request"
      /\ queue' = Rest(l) /\ SameSessions
      /\ authenticated' = authenticated /\ resource' = resource
    BY DEF ForwardedRequest, Holds, fields, sessionVars, SameSessions
<1>3. /\ c \in 1..Len(tasks) /\ tasks[c].stage \in Ended \cup Asking
      /\ NoMore /\ l \in Nat /\ Is(Head(queue[l]), "request", c)
    BY <1>1, <1>2, HeadStage, JustRestsNoMore, KeptShape
       DEF CallbackFits, Is
<1>4. CASE Pending(c)
    <2>1. PICK t : t = tasks[c]
        OBVIOUS
    <2>2. t \in Tasks /\ t.handle \in Handles /\ Kind(t)
        BY <1>3, <2>1, UnderShape
    <2>3. t.stage \in Asking /\ Under(t) /\ t.op # "aclose"
        BY <1>3, <1>4, <2>1, <2>2 DEF Pending, Asking, Ended, Under, Kind
    <2>4. PICK s : s = session[t.handle]
        OBVIOUS
    <2>5. tasks' = [tasks EXCEPT ![c] = Sent(t, t.stage, l)]
        BY <1>1, <1>4, <2>1 DEF ForwardedRequest
    <2>6. CASE s \in open
        <3>1. PICK u : u = [t EXCEPT !.stage = t.stage, !.at = l,
                                     !.sent = TRUE, !.via = s]
            OBVIOUS
        <3>2. s \in Nat
            BY <2>6, KeptShape DEF Kept, SessionsOK
        <3>3. /\ u \in Tasks /\ u.stage = t.stage /\ SameTask(t, u)
              /\ u.at = l /\ u.sent /\ u.via = s
            BY <1>3, <2>2, <3>1, <3>2 DEF Tasks, SameTask
        <3>4. Puts(tasks, c, u, tasks')
            BY <2>4, <2>5, <2>6, <3>1 DEF Sent, Puts
        <3>5. Arrives(c, t, u)
            BY <1>2, <1>3, <2>3, <2>4, <2>6, <3>3 DEF Arrives
        <3>6. Asks(c, t, u)
            BY <1>2, <1>3, <2>3, <3>3, <3>5 DEF Asks
        <3>7. Fares(t, u)
            BY <1>2, <3>3 DEF Fares
        <3> QED
            BY <1>3, <2>1, <3>3, <3>4, <3>6, <3>7, PutsTurned DEF Fate
    <2>7. CASE s \notin open
        <3>1. PICK how \in Ended : how = "raised"
            BY DEF Ended
        <3>2. End(c, how)
            BY <2>4, <2>5, <2>7, <3>1 DEF Sent, End
        <3>3. \E u \in Tasks : Fate(c, t, u)
            BY <1>2, <1>3, <2>1, <2>3, <3>1, <3>2, DropFate
        <3> QED
            BY <1>3, <2>1, <3>3
    <2> QED
        BY <2>6, <2>7
<1>5. CASE ~Pending(c)
    BY <1>1, <1>2, <1>3, <1>5 DEF ForwardedRequest, Idles, SameSessions
<1> QED
    BY <1>4, <1>5

LEMMA ForwardedCloseFate ==
    ASSUME Kept, RunsOK, NEW l \in 1..Len(phase), ForwardedClose(l)
    PROVE  \E c \in 1..Len(tasks) : \E u \in Tasks : Fate(c, tasks[c], u)
<1>1. PICK c : c = Head(queue[l]).task
    OBVIOUS
<1>2. /\ queue[l] # <<>> /\ Head(queue[l]).do = "close"
      /\ queue' = Rest(l) /\ UNCHANGED <<home, session>>
      /\ open' = open \ {Head(queue[l]).via}
      /\ authenticated' = authenticated /\ resource' = resource
    BY DEF ForwardedClose, Holds, fields
<1>3. /\ c \in 1..Len(tasks) /\ tasks[c].stage \in Ended \cup {"closing"}
      /\ NoMore /\ Is(Head(queue[l]), "close", c)
    BY <1>1, <1>2, HeadStage, JustRestsNoMore DEF CallbackFits, Is
<1>4. PICK t : t = tasks[c]
    OBVIOUS
<1>5. t \in Tasks /\ tasks \in Seq(Tasks)
    BY <1>3, <1>4, KeptShape
<1>6. ASSUME NEW u
      PROVE  Fares(t, u)
    BY <1>2, <1>3, <1>4 DEF Fares, Ended
<1>7. CASE Pending(c)
    <2>1. t.stage = "closing"
        BY <1>3, <1>4, <1>7 DEF Pending, Ended
    <2>2. PICK u : u = [t EXCEPT !.sent = TRUE]
        OBVIOUS
    <2>3. /\ u \in Tasks /\ u.stage = "closing" /\ SameTask(t, u)
          /\ u.sent /\ u.via = t.via
        BY <1>5, <2>1, <2>2 DEF Tasks, SameTask
    <2>4. Puts(tasks, c, u, tasks')
        BY <1>1, <1>4, <1>7, <2>2 DEF ForwardedClose, Puts
    <2>5. ClosesThere(c, t, u, l)
        BY <1>2, <1>3, <2>1, <2>3 DEF ClosesThere
    <2> QED
        BY <1>3, <1>4, <1>6, <2>3, <2>4, <2>5, PutsTurned DEF Fate
<1>8. CASE ~Pending(c)
    <2>1. tasks' = tasks
        BY <1>1, <1>8 DEF ForwardedClose
    <2>2. Turned(c, t)
        BY <1>4, <2>1 DEF Turned
    <2>3. ~Under(t)
        BY <1>3, <1>4, <1>8 DEF Pending, Under
    <2>4. ClosesThere(c, t, t, l)
        BY <1>2, <1>3, <2>3 DEF ClosesThere
    <2> QED
        BY <1>3, <1>4, <1>5, <1>6, <2>2, <2>4 DEF Fate
<1> QED
    BY <1>7, <1>8

LEMMA NetworkFate ==
    ASSUME Kept, RunsOK, NEW c \in DOMAIN tasks, Network(c)
    PROVE  \E u \in Tasks : Fate(c, tasks[c], u)
<1>1. Answered(c)
    BY DEF Network, Authenticate, FindResource, Serve, Refuse, FinishClosing
<1>2. c \in 1..Len(tasks)
    BY <1>1, AnsweredTask
<1>3. PICK t : t = tasks[c]
    OBVIOUS
<1>4. /\ t \in Tasks /\ t.handle \in Handles /\ Kind(t)
      /\ authenticated \in [Handles -> BOOLEAN]
      /\ resource \in [Handles -> BOOLEAN]
      /\ Client \in Handles
    BY <1>2, <1>3, UnderShape
<1>5. Under(t) /\ t.sent /\ t.stage # "ready"
    BY <1>1, <1>3
       DEF Answered, Pending, Under, Ended, Network, Authenticate,
           FindResource, Serve, Refuse, FinishClosing
<1>6. queue' = queue => NoMore
    BY DEF NoMore
<1>7. CASE Authenticate(c)
    <2>1. PICK stage \in Asking : stage = "resource"
        BY DEF Asking
    <2>2. PICK q : q = queue
        OBVIOUS
    <2>3. /\ q \in Seq(Seq(Callbacks)) /\ Len(q) = Len(phase)
          /\ \A m \in 1..Len(phase) : Of(q[m]) \subseteq Of(queue[m])
        BY <2>2, LoopsShape
    <2>4. /\ Request(c, stage, q) /\ t.stage = "auth" /\ SameSessions
          /\ authenticated' = [authenticated EXCEPT ![t.handle] = TRUE]
          /\ resource' = resource
        BY <1>3, <1>7, <2>1, <2>2
           DEF Authenticate, sessionVars, SameSessions
    <2>5. PICK u \in Tasks :
              /\ Turned(c, u)
              /\ \/ Quits(u) /\ u.stage = "raised" /\ NoMore
                 \/ InPlace(tasks[c], u) /\ u.stage = stage /\ NoMore
                 \/ Forwarded(c, tasks[c], u) /\ u.stage = stage
        BY <1>2, <2>3, <2>4, RequestTurns
    <2>6. t.op # "aclose" /\ t.stage \in Asking
        BY <1>4, <2>4 DEF Kind, Asking, Ended
    <2>7. Drops(c, t, u) \/ Asks(c, t, u)
        BY <1>3, <1>5, <2>4, <2>5, <2>6 DEF Drops, Asks
    <2>8. Fares(t, u)
        <3>1. \/ authenticated'[Client] = authenticated[Client]
              \/ t.handle = Client
            BY <1>4, <2>4
        <3>2. u.stage \in {"resource", "raised"}
            BY <2>1, <2>5
        <3> QED
            BY <2>4, <3>1, <3>2 DEF Fares
    <2> QED
        BY <1>3, <2>5, <2>7, <2>8 DEF Fate
<1>8. CASE FindResource(c)
    <2>1. PICK how \in Ended : how = "returned"
        BY DEF Ended
    <2>2. /\ End(c, how) /\ t.stage = "resource" /\ SameSessions
          /\ NoMore /\ authenticated' = authenticated
          /\ resource' = [resource EXCEPT ![t.handle] = TRUE]
        BY <1>3, <1>6, <1>8, <2>1
           DEF FindResource, loopVars, sessionVars, SameSessions
    <2>3. PICK u \in Tasks : Turned(c, u) /\ Quits(u)
        BY <1>2, <2>2, EndQuits
    <2>4. t.op # "aclose"
        BY <1>4, <2>2 DEF Kind, Ended
    <2>5. Drops(c, t, u)
        BY <1>5, <2>2, <2>3, <2>4 DEF Drops
    <2>6. Fares(t, u)
        <3>1. /\ resource[Client] => resource'[Client]
              /\ t.handle = Client => resource'[Client]
            BY <1>4, <2>2
        <3> QED
            BY <1>5, <2>2, <3>1 DEF Fares
    <2> QED
        BY <1>3, <2>3, <2>5, <2>6 DEF Fate
<1>9. CASE Serve(c)
    <2>1. PICK how \in Ended : how = "returned"
        BY DEF Ended
    <2>2. /\ End(c, how) /\ t.stage = "request" /\ SameSessions
          /\ NoMore /\ authenticated' = authenticated
          /\ resource' = resource
        BY <1>3, <1>6, <1>9, <2>1
           DEF Serve, loopVars, sessionVars, fields, SameSessions
    <2>3. t.op # "aclose" /\ t.stage # "resource"
        BY <1>4, <2>2 DEF Kind, Ended
    <2> QED
        BY <1>2, <1>3, <1>5, <2>2, <2>3, DropFate
<1>10. CASE Refuse(c)
    <2>1. PICK how \in Ended : how = "raised"
        BY DEF Ended
    <2>2. /\ End(c, how) /\ t.stage \in Asking /\ SameSessions
          /\ NoMore /\ authenticated' = authenticated
          /\ resource' = resource
        BY <1>3, <1>6, <1>10, <2>1
           DEF Refuse, loopVars, sessionVars, fields, SameSessions, Asking
    <2>3. t.op # "aclose" /\ how # "returned"
        BY <1>4, <2>1, <2>2 DEF Kind, Ended, Asking
    <2> QED
        BY <1>2, <1>3, <1>5, <2>2, <2>3, DropFate
<1>11. CASE FinishClosing(c)
    <2>1. PICK how \in Ended : how = "returned"
        BY DEF Ended
    <2>2. /\ End(c, how) /\ t.stage = "closing" /\ Forgotten
          /\ UNCHANGED <<home, open>> /\ NoMore
          /\ authenticated' = authenticated /\ resource' = resource
        BY <1>3, <1>6, <1>11, <2>1
           DEF FinishClosing, loopVars, sessionVars, Forgotten
    <2>3. PICK u \in Tasks : Turned(c, u) /\ Quits(u)
        BY <1>2, <2>2, EndQuits
    <2>4. ClosesLast(t, u) /\ Fares(t, u)
        BY <1>5, <2>2, <2>3 DEF ClosesLast, Fares
    <2> QED
        BY <1>3, <2>3, <2>4 DEF Fate
<1> QED
    BY <1>7, <1>8, <1>9, <1>10, <1>11 DEF Network

LEMMA CancelCellFate ==
    ASSUME Kept, RunsOK, NEW a \in Cells, CancelCell(a)
    PROVE  \E c \in 1..Len(tasks) : \E u \in Tasks : Fate(c, tasks[c], u)
<1>1. PICK c : c = call[a].task
    OBVIOUS
<1>2. PICK how \in Ended : how = "cancelled"
    BY DEF Ended
<1>3. /\ Pending(c) /\ tasks[c].op # "aclose" /\ End(c, how)
      /\ At(a, "await") /\ SameSessions /\ NoMore
      /\ authenticated' = authenticated /\ resource' = resource
    BY <1>1, <1>2
       DEF CancelCell, loopVars, sessionVars, fields, SameSessions, NoMore
<1>4. c \in 1..Len(tasks)
    <2>1. CallFits(call[a], Len(phase), tasks)
        BY CallShape DEF Callers
    <2>2. c \in 0..Len(tasks) /\ c # 0
        BY <1>1, <1>3, <2>1 DEF CallFits, At
    <2> QED
        BY <2>2, KeptShape
<1>5. PICK t : t = tasks[c]
    OBVIOUS
<1>6. Under(t)
    BY <1>3, <1>5 DEF Pending, Under, Ended
<1>7. \E u \in Tasks : Fate(c, t, u)
    BY <1>2, <1>3, <1>4, <1>5, <1>6, DropFate
<1> QED
    BY <1>4, <1>5, <1>7

\* How a step that leaves calls and loops alone goes.
LEMMA HowItGoes ==
    ASSUME Kept, RunsOK, GoOnStep
    PROVE  \/ Idles
           \/ \E c \in 1..Len(tasks) : \E u \in Tasks :
                  Fate(c, tasks[c], u)
<1>1. ASSUME NEW l \in 1..Len(phase), SkipStep(l)
      PROVE  Idles
    <2>1. /\ queue[l] # <<>> /\ queue' = Rest(l)
          /\ UNCHANGED <<tasks, home, open, session, authenticated,
                         resource>>
        BY <1>1 DEF SkipStep, Holds, sessionVars, fields
    <2> QED
        BY <2>1, JustRestsNoMore DEF Idles
<1>2. /\ \A l \in DOMAIN phase : l \in 1..Len(phase)
      /\ \A c \in DOMAIN tasks : c \in 1..Len(tasks)
    BY KeptShape
<1> QED
    BY <1>1, <1>2, StepFate, CancelFate, ForwardedRequestFate,
       ForwardedCloseFate, NetworkFate, CancelCellFate
       DEF GoOnStep, LoopTurn

LEMMA SessionShape ==
    ASSUME Kept
    PROVE  /\ Len(home) \in Nat /\ None \notin Nat
           /\ \A s \in open : /\ s \in 1..Len(home) /\ s # None
                              /\ home[s] \in 1..Len(phase) /\ home[s] # None
           /\ \A h \in Handles : session[h] # None =>
                  /\ session[h] \in 1..Len(home)
                  /\ home[session[h]] \in 1..Len(phase)
                  /\ home[session[h]] # None
<1>1. Len(home) \in Nat /\ Len(phase) \in Nat /\ None \notin Nat
    BY KeptShape
<1>2. /\ open \subseteq 1..Len(home)
      /\ \A s \in 1..Len(home) : home[s] \in 1..Len(phase)
      /\ \A h \in Handles : session[h] \in (1..Len(home)) \cup {None}
    BY DEF Kept, SessionsOK, FieldsOK
<1>3. \A s \in 1..Len(home) : s # None /\ home[s] # None
    BY <1>1, <1>2
<1> QED
    BY <1>1, <1>2, <1>3

\* There is one loop thread that works, at most.
LEMMA OneLoop ==
    ASSUME Kept, TurnsOK, NEW l \in 1..Len(phase), NEW m \in 1..Len(phase),
           l # App, m # App, ~Closed(l), ~Closed(m)
    PROVE  l = m
<1>1. l # None /\ m # None
    BY LoopsShape
<1>2. /\ LoopFits(l, phase[l], queue[l], loopThread, call)
      /\ LoopFits(m, phase[m], queue[m], loopThread, call)
    BY DEF TurnsOK
<1>3. /\ loopThread[Client] = l \/ \E a \in Callers : Ends(call[a], l)
      /\ loopThread[Client] = m \/ \E a \in Callers : Ends(call[a], m)
    BY <1>2 DEF LoopFits, Closed
<1>4. ASSUME NEW a \in Callers, NEW n, Ends(call[a], n)
      PROVE  /\ loopThread[Client] = None /\ call[a].loop = n
             /\ ~At(a, "idle")
    BY <1>4 DEF Ends, TurnsOK, CallerFits, At
<1>5. \A a, b \in Callers : ~At(a, "idle") /\ ~At(b, "idle") => a = b
    BY DEF TurnsOK
<1>6. CASE \E a \in Callers : Ends(call[a], l)
    <2>1. PICK a \in Callers : Ends(call[a], l)
        BY <1>6
    <2>2. PICK b \in Callers : Ends(call[b], m)
        BY <1>1, <1>3, <1>4, <2>1
    <2>3. /\ ~At(a, "idle") /\ call[a].loop = l
          /\ ~At(b, "idle") /\ call[b].loop = m
        BY <1>4, <2>1, <2>2
    <2> QED
        BY <1>5, <2>3
<1>7. CASE loopThread[Client] = l
    BY <1>1, <1>3, <1>4, <1>7
<1> QED
    BY <1>3, <1>6, <1>7

\* While a coroutine closes the client, what else is under way are requests.
LEMMA OnlyAclose ==
    ASSUME Kept, TurnsOK, RunsOK, LeftOK,
           NEW c \in 1..Len(tasks), tasks[c].op = "aclose",
           \/ tasks[c].stage = "closing"
           \/ /\ tasks[c].stage = "ready"
              /\ \E l \in 1..Len(phase) :
                    queue[l] # <<>> /\ Is(Head(queue[l]), "step", c)
    PROVE  /\ \E a \in Callers :
                  Mine(call[a], c) /\ NoneDo(queue, "cancel", c)
           /\ \A d \in 1..Len(tasks) :
                  d # c /\ Under(tasks[d]) => tasks[d].op = "request"
<1>1. Under(tasks[c])
    BY DEF Under, Ended
<1>2. PICK a \in Callers : Mine(call[a], c)
    BY <1>1 DEF LeftOK, LeftOver
<1>3. /\ call[a].pc \in Waits /\ call[a].task = c /\ c = Len(tasks)
      /\ tasks[c].loop = call[a].loop /\ NoneDo(queue, "cancel", c)
    BY <1>1, <1>2 DEF Mine, RunsOK, OwnTask
<1>4. ASSUME NEW d \in 1..Len(tasks), d # c, Under(tasks[d])
      PROVE  tasks[d].op = "request"
    <2>1. d < Len(tasks) /\ d < c
        BY <1>3, <1>4, KeptShape
    <2>2. CASE \E b \in Callers : Undoes(call[b], tasks[d])
        <3>1. PICK b \in Callers : Undoes(call[b], tasks[d])
            BY <2>2
        <3>2. b = a
            BY <1>3, <3>1 DEF TurnsOK, At, Waits, Undoes
        <3>3. call[a].pc = "closing" /\ call[a].loop = tasks[d].loop
            BY <1>3, <3>1, <3>2 DEF Undoes, Waits
        <3>4. CASE tasks[c].stage = "closing"
            <4>1. Cleared(call[a], tasks)
                BY <1>3, <3>3, <3>4 DEF Cleared, Handed
            <4>2. Mine(call[a], d)
                BY <1>4, <3>3, <4>1 DEF LeftOK, Clears
            <4> QED
                BY <1>3, <1>4, <4>2 DEF Mine
        <3>5. CASE tasks[c].stage = "ready"
            <4>1. PICK l \in 1..Len(phase) :
                      queue[l] # <<>> /\ Is(Head(queue[l]), "step", c)
                BY <3>5
            <4>2. tasks[d].loop # l /\ tasks[c].loop = l
                BY <1>4, <2>1, <3>5, <4>1, FirstOnLoop
            <4> QED
                BY <1>3, <3>3, <4>2
        <3> QED
            BY <3>4, <3>5
    <2> QED
        BY <1>4, <2>1, <2>2, NotLast
<1> QED
    BY <1>2, <1>3, <1>4

-----------------------------------------------------------------------------
(* A session is used at its home.                                          *)

\* A coroutine with a handle whose session is at home on loop `o': a request
\* that was forwarded went there, to or from the application's loop.
HomeFits(t, o, H) ==
    /\ t.sent => t.at = H[t.via]
    /\ (t.stage \in Asking /\ t.at # t.loop) =>
        (t.loop = App \/ t.at = App) /\ o \in {None, t.at}

ForwardFits(x, l, T) ==
    (x.do = "request" /\ Under(T[x.task])) => T[x.task].at = l

HomeOK ==
    /\ \A c \in 1..Len(tasks) : \A h \in Handles :
           tasks[c].handle = h => HomeFits(tasks[c], Owner(h), home)
    /\ \A l \in 1..Len(phase) : \A x \in Of(queue[l]) :
           ForwardFits(x, l, tasks)

\* While a request of a connection is forwarded, a new one is only made where
\* that went.
LEMMA AnewAtHome ==
    ASSUME Kept, TurnsOK, RunsOK, LeftOK, HomeOK,
           NEW l \in 1..Len(phase), NEW e \in 1..Len(tasks),
           Steps(e, l), Ready(e, l), tasks[e].op = "connect",
           NEW d \in 1..Len(tasks), tasks[d].stage \in Asking,
           tasks[d].at # tasks[d].loop
    PROVE  tasks[d].at = l
<1>1. /\ tasks[e].stage = "ready" /\ tasks[e].loop = l
      /\ tasks[d].stage \notin Handed \cup {"ready"}
      /\ Under(tasks[d]) /\ Under(tasks[e]) /\ d # e
    BY DEF Ready, Asking, Handed, Under, Ended
<1>2. queue[l] # <<>> /\ Is(Head(queue[l]), "step", e)
    BY DEF Steps, Step, Holds, Is
<1>3. d \in Nat /\ e \in Nat /\ tasks[d].handle \in Handles
      /\ tasks[d].loop \in 1..Len(phase)
    BY KeptShape, TaskShape
<1>4. tasks[d].loop # l
    <2>1. CASE d < e
        BY <1>1, <1>2, <2>1, FirstOnLoop
    <2>2. CASE e < d
        <3>1. InOrder(e, d, tasks, queue)
            BY DEF LeftOK
        <3> QED
            BY <1>1, <2>2, <3>1 DEF InOrder
    <2> QED
        BY <1>1, <1>3, <2>1, <2>2
<1>5. ~Closed(l) /\ ~Closed(tasks[d].loop)
    BY <1>1 DEF LeftOK, Turns, Closed
<1>6. CASE tasks[d].loop = App
    <2>1. PICK a \in Callers :
              Mine(call[a], d) /\ call[a].pc \in {"await", "unwind"}
        BY <1>1, <1>6 DEF RunsOK, OnApp
    <2>2. d = Len(tasks)
        BY <2>1 DEF Mine, RunsOK, OwnTask
    <2>3. e < Len(tasks)
        BY <1>1, <1>3, <2>2
    <2>4. PICK b \in Callers : Undoes(call[b], tasks[e])
        BY <1>1, <2>3, NotLast
    <2>5. a = b
        BY <2>1, <2>4 DEF TurnsOK, At, Undoes
    <2> QED
        BY <2>1, <2>4, <2>5 DEF Undoes
<1>7. CASE tasks[d].loop # App
    <2>1. HomeFits(tasks[d], Owner(tasks[d].handle), home)
        BY <1>3 DEF HomeOK
    <2>2. tasks[d].at = App
        BY <1>7, <2>1 DEF HomeFits
    <2> QED
        BY <1>3, <1>4, <1>5, <1>7, <2>2, OneLoop
<1> QED
    BY <1>6, <1>7

LEMMA FateHome ==
    ASSUME Kept, NEW c, NEW t, NEW u, Fate(c, t, u)
    PROVE  \A s \in 1..Len(home) : home'[s] = home[s]
<1>1. \/ home' = home
      \/ \E l \in 1..Len(phase) : home' = Append(home, l)
    BY DEF Fate, Drops, Asks, SameSessions, ClosesLast, ConnectsAnew,
           ConnectAnew, ClosesClient, ClosesThere
<1>2. home \in Seq(Nat)
    BY DEF Kept, SessionsOK
<1> QED
    BY <1>1, <1>2

\* A coroutine that the step leaves alone.
LEMMA HomeOfOthers ==
    ASSUME Kept, TurnsOK, RunsOK, LeftOK, HomeOK, GoOnStep,
           \A s \in 1..Len(home) : home'[s] = home[s],
           NEW d \in 1..Len(tasks), NEW h \in Handles, tasks[d].handle = h
    PROVE  HomeFits(tasks[d], Owner(h)', home')
<1>1. HomeFits(tasks[d], Owner(h), home)
    BY DEF HomeOK
<1>2. tasks[d].sent => tasks[d].at = home'[tasks[d].via]
    <2>1. tasks[d].sent => tasks[d].via \in 1..Len(home)
        BY TaskShape DEF TaskFits
    <2> QED
        BY <1>1, <2>1 DEF HomeFits
<1>3. CASE Owner(h)' \in {Owner(h), None}
    BY <1>1, <1>2, <1>3 DEF HomeFits
<1>4. ASSUME NEW l \in 1..Len(phase), NEW c \in 1..Len(tasks),
             Steps(c, l), Ready(c, l), tasks[c].op = "connect",
             Owner(h)' = l
      PROVE  HomeFits(tasks[d], Owner(h)', home')
    <2>1. (tasks[d].stage \in Asking /\ tasks[d].at # tasks[d].loop) =>
              tasks[d].at = l
        BY <1>4, AnewAtHome
    <2> QED
        BY <1>1, <1>2, <1>4, <2>1 DEF HomeFits
<1> QED
    BY <1>3, <1>4, GoOnOwner DEF OwnerMoves

\* A request that was forwarded, and one that arrives.
LEMMA ForwardedHome ==
    ASSUME Kept, TurnsOK, LeftOK, NEW c \in 1..Len(tasks), NEW t,
           t = tasks[c], Under(t), NEW u, Forwarded(c, t, u)
    PROVE  /\ u.loop = App \/ u.at = App
           /\ u.at = Owner(t.handle) /\ u.at # None
<1>1. t.handle \in Handles /\ t.loop \in 1..Len(phase)
    BY TaskShape
<1>2. /\ u.at \in 1..Len(phase) /\ u.at = Owner(t.handle)
      /\ u.at # None /\ u.at # t.loop /\ ~Closed(u.at) /\ u.loop = t.loop
    BY <1>1, SessionShape DEF Forwarded, Owner, SameTask
<1>3. ~Closed(t.loop)
    BY DEF LeftOK, Turns, Closed
<1> QED
    BY <1>1, <1>2, <1>3, OneLoop

LEMMA ArrivesHome ==
    ASSUME Kept, RunsOK, HomeOK, NEW c \in 1..Len(tasks), NEW t,
           t = tasks[c], NEW u, Arrives(c, t, u)
    PROVE  /\ u.at = t.at /\ u.at # t.loop /\ u.loop = t.loop
           /\ u.at = home[u.via] /\ u.via \in open
           /\ HomeFits(t, Owner(t.handle), home)
<1>1. PICK m \in 1..Len(phase) : /\ queue[m] # <<>> /\ u.at = m
                                 /\ Is(Head(queue[m]), "request", c)
    BY DEF Arrives
<1>2. PICK x : x = Head(queue[m])
    OBVIOUS
<1>3. x \in Of(queue[m]) /\ x.do = "request" /\ x.task = c
    BY <1>1, <1>2, OfHead, LoopsShape DEF Is
<1>4. Under(t) /\ t.stage \notin Ended
    BY DEF Arrives, Asking, Under, Ended
<1>5. t.at = m
    BY <1>3, <1>4 DEF HomeOK, ForwardFits
<1>6. t.loop # m
    BY <1>3, <1>4, OfFits DEF CallbackFits
<1>7. t.handle \in Handles
    BY TaskShape
<1>8. HomeFits(t, Owner(t.handle), home)
    BY <1>7 DEF HomeOK
<1>9. Owner(t.handle) = home[u.via] /\ home[u.via] # None
    BY <1>7, SessionShape DEF Arrives, Owner
<1> QED
    BY <1>1, <1>5, <1>6, <1>8, <1>9 DEF HomeFits, Arrives, SameTask

\* The coroutine that goes on.
LEMMA HomeOfIt ==
    ASSUME Kept, Kept', TurnsOK, RunsOK, LeftOK, HomeOK,
           NEW c \in 1..Len(tasks), NEW u, Fate(c, tasks[c], u),
           NEW h \in Handles, u.handle = h
    PROVE  HomeFits(u, Owner(h)', home')
<1>1. u = tasks'[c] /\ Len(tasks') = Len(tasks) /\ c \in 1..Len(tasks')
    BY DEF Fate, Turned
<1>2. TaskFits(u, Len(phase'), home')
    BY <1>1 DEF Kept, TasksOK
<1>3. PICK t : t = tasks[c]
    OBVIOUS
<1>4. CASE Quits(u)
    BY <1>4 DEF Quits, HomeFits, Asking, Ended
<1>5. CASE u.stage = "closing"
    BY <1>2, <1>5 DEF TaskFits, HomeFits, Asking
<1>6. CASE u.at = u.loop
    BY <1>2, <1>6 DEF TaskFits, HomeFits
<1>7. CASE Asks(c, t, u)
    <2>1. Owner(h)' = Owner(h) /\ home' = home
        BY <1>7 DEF Asks, SameSessions, Owner
    <2>2. Under(t)
        BY <1>7 DEF Asks, Under, Asking, Ended
    <2>3. CASE InPlace(t, u)
        BY <1>6, <2>3 DEF InPlace, SameTask
    <2>4. CASE Forwarded(c, t, u)
        <3>1. ~u.sent /\ t.handle = h
            BY <2>4 DEF Forwarded, SameTask
        <3>2. (u.loop = App \/ u.at = App) /\ u.at = Owner(h)
            BY <1>3, <2>2, <2>4, <3>1, ForwardedHome
        <3> QED
            BY <2>1, <3>1, <3>2 DEF HomeFits
    <2>5. CASE Arrives(c, t, u)
        <3>1. t.handle = h /\ t.stage \in Asking
            BY <2>5 DEF Arrives, SameTask
        <3>2. /\ u.at = t.at /\ u.at # t.loop /\ u.loop = t.loop
              /\ u.at = home[u.via]
              /\ HomeFits(t, Owner(t.handle), home)
            BY <1>3, <2>5, ArrivesHome
        <3> QED
            BY <2>1, <3>1, <3>2 DEF HomeFits
    <2> QED
        BY <1>7, <2>3, <2>4, <2>5 DEF Asks
<1>8. CASE \E l \in 1..Len(phase) : ConnectsAnew(c, t, u, l)
    <2>1. u.at = u.loop
        BY <1>3, <1>8 DEF ConnectsAnew, Ready, SameTask
    <2> QED
        BY <1>6, <2>1
<1>9. CASE \E l \in 1..Len(phase) : ClosesThere(c, t, u, l)
    <2>1. u.stage = "closing" \/ (u = t /\ ~Under(t))
        BY <1>9 DEF ClosesThere
    <2>2. CASE u = t /\ ~Under(t)
        <3>1. t.handle \in Handles
            BY <1>3, TaskShape
        <3>2. HomeFits(t, Owner(t.handle), home)
            BY <1>3, <3>1 DEF HomeOK
        <3>3. home' = home
            BY <1>9 DEF ClosesThere
        <3> QED
            BY <2>2, <3>2, <3>3 DEF HomeFits, Under, Asking, Ended
    <2> QED
        BY <1>5, <2>1, <2>2
<1>10. Fate(c, t, u)
    BY <1>3
<1> QED
    BY <1>4, <1>5, <1>7, <1>8, <1>9, <1>10
       DEF Fate, Drops, ClosesLast, ClosesClient, ClosesNothing, ClosesIt

\* A callback of a request that has not changed, and one of the coroutine that
\* goes on.
LEMMA ForwardStays ==
    ASSUME Kept, TurnsOK, RunsOK, LeftOK, HomeOK,
           NEW c \in 1..Len(tasks), NEW u, Fate(c, tasks[c], u),
           NEW m \in 1..Len(phase), NEW x \in Of(queue[m])
    PROVE  ForwardFits(x, m, tasks')
<1>1. SUFFICES ASSUME x.do = "request", Under(tasks'[x.task])
               PROVE  tasks'[x.task].at = m
    BY DEF ForwardFits
<1>2. ForwardFits(x, m, tasks) /\ CallbackFits(m, x, tasks, home)
      /\ x.task \in 1..Len(tasks)
    BY <1>1, OfFits DEF HomeOK
<1>3. /\ tasks'[c] = u
      /\ \A d \in 1..Len(tasks) : d # c => tasks'[d] = tasks[d]
    BY DEF Fate, Turned
<1>4. CASE x.task # c
    BY <1>1, <1>2, <1>3, <1>4 DEF ForwardFits
<1>5. CASE x.task = c
    <2>1. PICK t : t = tasks[c]
        OBVIOUS
    <2>2. u.stage \notin Ended
        BY <1>1, <1>3, <1>5 DEF Under
    <2>3. Fate(c, t, u)
        BY <2>1
    <2>4. \/ t.stage \in Ended
          \/ /\ t.stage \in Asking /\ t.loop # m
             /\ t.stage \notin {"ready", "closing"}
             /\ t.at = m /\ t.at # t.loop
        BY <1>1, <1>2, <1>5, <2>1
           DEF CallbackFits, ForwardFits, Under, Asking
    <2>5. t.stage \in Ended => t.stage \notin Asking \cup {"ready", "closing"}
        BY DEF Ended, Asking
    <2>6. Asks(c, t, u) /\ t.stage \in Asking /\ t.loop # m
          /\ t.at = m /\ t.at # t.loop /\ Under(t)
        BY <2>2, <2>3, <2>4, <2>5
           DEF Fate, Drops, Quits, Asks, ClosesLast, ConnectsAnew,
               ClosesClient, ClosesThere, Under
    <2>7. t.handle \in Handles
        BY <2>1, TaskShape
    <2>8. Owner(t.handle) \in {None, m}
        BY <2>1, <2>6, <2>7 DEF HomeOK, HomeFits
    <2>9. CASE InPlace(t, u)
        <3>1. Owner(t.handle) = t.loop /\ t.loop # None
            BY <2>7, <2>9, SessionShape DEF InPlace, Owner
        <3> QED
            BY <2>6, <2>8, <3>1
    <2>10. CASE Forwarded(c, t, u)
        BY <1>3, <1>5, <2>1, <2>6, <2>8, <2>10, ForwardedHome
    <2>11. CASE Arrives(c, t, u)
        BY <1>3, <1>5, <2>1, <2>6, <2>11, ArrivesHome
    <2> QED
        BY <2>6, <2>9, <2>10, <2>11 DEF Asks
<1> QED
    BY <1>4, <1>5

LEMMA HomeGoesOn ==
    ASSUME Kept, Kept', TurnsOK, RunsOK, LeftOK, HomeOK, GoOnStep
    PROVE  HomeOK'
<1>1. PICK p : p = phase'
    OBVIOUS
<1>2. p = phase
    BY <1>1, GoingOn DEF GoesOnBy
<1>3. CASE Idles
    <2>1. /\ tasks' = tasks /\ home' = home
          /\ \A h \in Handles : Owner(h)' = Owner(h)
          /\ \A m \in 1..Len(phase) : Of(queue'[m]) \subseteq Of(queue[m])
        BY <1>3 DEF Idles, Owner, NoMore
    <2>2. /\ \A c \in 1..Len(tasks) : \A h \in Handles :
                 tasks[c].handle = h => HomeFits(tasks[c], Owner(h)', home')
          /\ \A l \in 1..Len(phase) : \A x \in Of(queue'[l]) :
                 ForwardFits(x, l, tasks)
        BY <2>1 DEF HomeOK
    <2> QED
        BY <1>1, <1>2, <2>1, <2>2 DEF HomeOK
<1>4. ASSUME NEW c \in 1..Len(tasks), NEW u \in Tasks,
             Fate(c, tasks[c], u)
      PROVE  HomeOK'
    <2>1. /\ Len(tasks') = Len(tasks) /\ tasks'[c] = u
          /\ \A d \in 1..Len(tasks) : d # c => tasks'[d] = tasks[d]
        BY <1>4 DEF Fate, Turned
    <2>2. \A s \in 1..Len(home) : home'[s] = home[s]
        BY <1>4, FateHome
    <2>3. ASSUME NEW d \in 1..Len(tasks'), NEW h \in Handles,
                 tasks'[d].handle = h
          PROVE  HomeFits(tasks'[d], Owner(h)', home')
        <3>1. CASE d = c
            BY <1>4, <2>1, <2>3, <3>1, HomeOfIt
        <3>2. CASE d # c
            <4>1. d \in 1..Len(tasks) /\ tasks'[d] = tasks[d]
                BY <2>1, <2>3, <3>2
            <4>2. HomeFits(tasks[d], Owner(h)', home')
                BY <2>2, <2>3, <4>1, HomeOfOthers
            <4> QED
                BY <4>1, <4>2
        <3> QED
            BY <3>1, <3>2
    <2>4. ASSUME NEW m \in 1..Len(phase), NEW x \in Of(queue'[m])
          PROVE  ForwardFits(x, m, tasks')
        <3>1. CASE x \in Of(queue[m])
            BY <1>4, <3>1, ForwardStays
        <3>2. ASSUME NEW o, NEW y, y.do = "request", y.task = c,
                     u.at = o, Sends(o, y)
              PROVE  ForwardFits(x, m, tasks')
            BY <2>1, <2>4, <3>1, <3>2 DEF Sends, ForwardFits
        <3>3. ASSUME NEW o, NEW y, y.do = "close", Sends(o, y)
              PROVE  ForwardFits(x, m, tasks')
            BY <2>4, <3>1, <3>3 DEF Sends, ForwardFits
        <3>4. CASE NoMore
            BY <2>4, <3>1, <3>4 DEF NoMore
        <3>5. PICK t : t = tasks[c]
            OBVIOUS
        <3>6. Fate(c, t, u)
            BY <1>4, <3>5
        <3>7. CASE Asks(c, t, u)
            BY <3>2, <3>4, <3>7 DEF Asks, Forwarded
        <3>8. CASE \E l \in 1..Len(phase) : ClosesClient(c, t, u, l)
            BY <3>3, <3>4, <3>8 DEF ClosesClient, ClosesNothing, ClosesIt
        <3> QED
            BY <3>4, <3>6, <3>7, <3>8
               DEF Fate, Drops, ClosesLast, ConnectsAnew, ClosesThere
    <2> QED
        BY <1>1, <1>2, <2>3, <2>4 DEF HomeOK
<1> QED
    BY <1>3, <1>4, HowItGoes

-----------------------------------------------------------------------------
(* The other steps leave the sessions alone, and the requests.             *)

\* close() has come so far that the client has no session.
Gone(k, T) ==
    /\ k.handle = Client
    /\ \/ k.pc \in {"stop", "join"}
       \/ k.pc = "closing" /\ ~Under(T[k.task])

\* A call that is going to close the client, as its connect() has failed or
\* may yet fail.
WillClose(k, T) ==
    /\ k.handle = Client
    /\ \/ /\ k.op = "connect" /\ k.pc \in {"wait", "await"}
          /\ T[k.task].stage \in {"resource", "raised", "cancelled"}
       \/ k.op = "connect" /\ k.pc = "read" /\ k.loop # None
       \/ k.op = "connect" /\ k.pc = "close"
       \/ /\ k.pc \in {"closing", "unwind"}
          /\ T[k.task].stage \in Handed \cup {"ready"}

SameClient ==
    /\ UNCHANGED <<home, open>> /\ live \subseteq live'
    /\ \A h \in live \cup {Client} : session'[h] = session[h]
    /\ authenticated'[Client] = authenticated[Client]
    /\ resource'[Client] = resource[Client]

ForwardsNothing ==
    \A m \in 1..Len(queue') : \A x \in Of(queue'[m]) :
        x.do \in {"request", "close"} =>
            m \in 1..Len(queue) /\ x \in Of(queue[m])

\* No coroutine comes to ask or to close, or ends before its closing is sent.
NoneAsks ==
    /\ Len(tasks) <= Len(tasks')
    /\ \A c \in 1..Len(tasks') :
        \/ c \in 1..Len(tasks) /\ tasks'[c] = tasks[c]
        \/ /\ tasks'[c].stage \notin Asking \cup {"closing"}
           /\ ~tasks'[c].sent
           /\ (c \in 1..Len(tasks) /\ tasks[c].stage = "closing") =>
                  tasks[c].sent

LoopsStay ==
    \A m \in 1..Len(phase) :
        \/ phase'[m] = phase[m]
        \/ \E a \in Callers : call[a].pc = "join"

GoneStays ==
    (\E a \in Callers : Gone(call'[a], tasks')) =>
        \E a \in Callers : Gone(call[a], tasks)

CloseStays ==
    (\E a \in Callers : WillClose(call[a], tasks)) =>
        \E a \in Callers : WillClose(call'[a], tasks')

Stays ==
    /\ SameClient /\ ForwardsNothing /\ NoneAsks /\ LoopsStay
    /\ GoneStays /\ CloseStays

LEMMA SameQueueForwards ==
    ASSUME queue' = queue
    PROVE  ForwardsNothing
BY DEF ForwardsNothing

LEMMA GainedForwards ==
    ASSUME Kept, NEW l \in 1..Len(phase), NEW x \in Callbacks,
           x.do \notin {"request", "close"}, Gained(queue, l, x, queue')
    PROVE  ForwardsNothing
<1>1. PICK q : q = queue
    OBVIOUS
<1>2. q \in Seq(Seq(Callbacks)) /\ Len(q) = Len(phase)
    BY <1>1, LoopsShape
<1>3. Sends(l, x)
    BY <1>1, <1>2, GainedSends
<1>4. Len(queue') = Len(queue)
    BY <1>1, <1>2 DEF Gained
<1> QED
    BY <1>1, <1>2, <1>3, <1>4 DEF Sends, ForwardsNothing

LEMMA SameTasksAsk ==
    ASSUME Kept, tasks' = tasks
    PROVE  NoneAsks
BY KeptShape DEF NoneAsks

\* The call of `a', and nothing of other calls, goes on.
LEMMA CallGoes ==
    ASSUME Kept, NEW a \in Callers, Alone(a), NEW k, Becomes(a, k),
           Gone(k, tasks') => Gone(call[a], tasks),
           WillClose(call[a], tasks) => WillClose(k, tasks')
    PROVE  GoneStays /\ CloseStays
<1>1. call'[a] = k /\ \A b \in Callers : b # a => call'[b] = call[b]
    BY BecomesIs
<1>2. \A b \in Callers : b # a => call[b].pc = "idle"
    BY DEF Alone, At
<1>3. \A i : \A T : i.pc = "idle" => ~Gone(i, T) /\ ~WillClose(i, T)
    BY DEF Gone, WillClose
<1>4. GoneStays
    <2>1. ASSUME NEW b \in Callers, Gone(call'[b], tasks')
          PROVE  Gone(call[a], tasks)
        BY <1>1, <1>2, <1>3, <2>1
    <2> QED
        BY <2>1 DEF GoneStays
<1>5. CloseStays
    <2>1. ASSUME NEW b \in Callers, WillClose(call[b], tasks)
          PROVE  WillClose(call'[a], tasks')
        BY <1>1, <1>2, <1>3, <2>1
    <2> QED
        BY <2>1 DEF CloseStays
<1> QED
    BY <1>4, <1>5

\* A step of a call that hands nothing over.
LEMMA PlainStays ==
    ASSUME Kept, NEW a \in Callers, Alone(a), NEW k, Becomes(a, k),
           UNCHANGED <<tasks, phase>>, SameClient, ForwardsNothing,
           Gone(k, tasks) => Gone(call[a], tasks),
           WillClose(call[a], tasks) => WillClose(k, tasks)
    PROVE  Stays
<1>1. GoneStays /\ CloseStays
    BY CallGoes
<1>2. LoopsStay /\ NoneAsks
    BY SameTasksAsk DEF LoopsStay
<1> QED
    BY <1>1, <1>2 DEF Stays

LEMMA NoneGone ==
    ASSUME NEW k, k.pc \notin {"closing", "stop", "join"}, NEW T
    PROVE  ~Gone(k, T)
BY DEF Gone

LEMMA NoneCloses ==
    ASSUME NEW k, k.pc \in {"idle", "enter", "create", "submit", "stop",
                            "join"},
           NEW T
    PROVE  ~WillClose(k, T)
BY DEF WillClose

\* A failed call goes back to idle, or, if it is connect(), to close.
LEMMA FailStays ==
    ASSUME Kept, TurnsOK, NEW a \in Callers, Fail(a),
           call[a].pc \in {"enter", "submit", "wait"}, NEW T, NEW U
    PROVE  \E k : /\ Becomes(a, k) /\ ~Gone(k, U)
                  /\ WillClose(call[a], T) => WillClose(k, U)
<1>1. CASE call[a].op = "connect"
    <2>1. PICK k : Becomes(a, k) /\ k.pc = "read" /\ SameCall(k, call[a])
        BY <1>1, GoToIs DEF Fail
    <2>2. call[a].pc = "wait" => call[a].loop # None
        BY DEF TurnsOK, CallerFits
    <2>3. WillClose(call[a], T) => WillClose(k, U)
        BY <1>1, <2>1, <2>2 DEF WillClose, SameCall
    <2> QED
        BY <2>1, <2>3, NoneGone
<1>2. CASE call[a].op # "connect"
    <2>1. PICK k : Becomes(a, k) /\ k.pc = "idle"
        BY <1>2, ReturnIs DEF Fail
    <2>2. ~WillClose(call[a], T)
        BY <1>2 DEF WillClose
    <2> QED
        BY <2>1, <2>2, NoneGone
<1> QED
    BY <1>1, <1>2

LEMMA FieldsStay ==
    ASSUME UNCHANGED <<sessionVars, fields>>
    PROVE  SameClient
BY DEF sessionVars, fields, SameClient

LEMMA CallStaysOut ==
    ASSUME Kept, Careful, NEW a \in Callers, NEW op, NEW h, Call(a, op, h)
    PROVE  Stays
<1>1. /\ UNCHANGED <<phase, queue, tasks>> /\ SameClient
      /\ Called(a, op, h, IF op = "close" THEN "read" ELSE "enter")
    BY FieldsStay DEF Call, loopVars
<1>2. Alone(a) /\ call[a].pc = "idle"
    BY <1>1 DEF Called, MayCall, Careful, Alone, At
<1>3. PICK pc : pc = IF op = "close" THEN "read" ELSE "enter"
    OBVIOUS
<1>4. PICK k : k = [pc |-> pc, op |-> op, handle |-> h, task |-> 0,
                    loop |-> None]
    OBVIOUS
<1>5. Becomes(a, k) /\ k.pc \in {"read", "enter"}
    BY <1>1, <1>3, <1>4 DEF Called, Becomes
<1> QED
    BY <1>1, <1>2, <1>5, NoneGone, NoneCloses, PlainStays,
       SameQueueForwards

LEMMA EnterStays ==
    ASSUME Kept, TurnsOK, NEW a \in Callers, Enter(a)
    PROVE  Stays
<1>1. /\ UNCHANGED <<phase, queue, tasks>> /\ SameClient
      /\ call[a].pc = "enter" /\ Alone(a) /\ ForwardsNothing
    BY FieldsStay, SameQueueForwards, UnderWay DEF Enter, loopVars, At
<1>2. ASSUME NEW pc \in {"submit", "create"}, GoTo(a, pc)
      PROVE  Stays
    <2>1. PICK k : Becomes(a, k) /\ k.pc = pc
        BY <1>2, GoToIs
    <2> QED
        BY <1>1, <1>2, <2>1, NoneGone, NoneCloses, PlainStays
<1>3. CASE Fail(a)
    <2>1. PICK k : /\ Becomes(a, k) /\ ~Gone(k, tasks)
                   /\ WillClose(call[a], tasks) => WillClose(k, tasks)
        BY <1>1, <1>3, FailStays
    <2> QED
        BY <1>1, <2>1, PlainStays
<1> QED
    BY <1>2, <1>3 DEF Enter

LEMMA FinishStays ==
    ASSUME Kept, TurnsOK, NEW a \in Callers, Finish(a)
    PROVE  Stays
<1>1. /\ UNCHANGED <<phase, queue, tasks, home, open>>
      /\ call[a].pc = "wait" /\ Alone(a) /\ ForwardsNothing
    BY SameQueueForwards, UnderWay DEF Finish, loopVars, sessionVars, At
<1>2. CASE UNCHANGED fields /\ Fail(a)
    <2>1. PICK k : /\ Becomes(a, k) /\ ~Gone(k, tasks)
                   /\ WillClose(call[a], tasks) => WillClose(k, tasks)
        BY <1>1, <1>2, FailStays
    <2> QED
        BY <1>1, <1>2, <2>1, PlainStays, FieldsStay DEF sessionVars
<1>3. ASSUME Return(a), Succeeded(a), SameClient
      PROVE  Stays
    <2>1. PICK k : Becomes(a, k) /\ k.pc = "idle"
        BY <1>3, ReturnIs
    <2>2. ~WillClose(call[a], tasks)
        BY <1>1, <1>3 DEF WillClose, Succeeded
    <2> QED
        BY <1>1, <1>3, <2>1, <2>2, NoneGone, PlainStays
<1>4. ASSUME NEW v \in Views \ live, Copy(call[a].handle, v)
      PROVE  SameClient
    <2>1. live \subseteq live'
        BY <1>4 DEF Copy
    <2>2. \A h \in live \cup {Client} : h \in Handles /\ h # v
        BY <1>4, LoopsShape DEF Handles, Kept, FieldsOK
    <2>3. /\ session \in [Handles -> (1..Len(home)) \cup {None}]
          /\ authenticated \in [Handles -> BOOLEAN]
          /\ resource \in [Handles -> BOOLEAN]
        BY DEF Kept, FieldsOK
    <2>4. \A h \in live \cup {Client} :
              /\ session'[h] = session[h]
              /\ authenticated'[h] = authenticated[h]
              /\ resource'[h] = resource[h]
        BY <1>4, <2>2, <2>3 DEF Copy
    <2> QED
        BY <1>1, <2>1, <2>4 DEF SameClient
<1> QED
    BY <1>1, <1>2, <1>3, <1>4, FieldsStay DEF Finish, sessionVars

LEMMA InterruptStays ==
    ASSUME Kept, TurnsOK, RunsOK, NEW a \in Callers, Interrupt(a)
    PROVE  Stays
<1>1. PICK c : c = call[a].task
    OBVIOUS
<1>2. /\ c \in 1..Len(tasks) /\ call[a].pc = "wait" /\ Alone(a)
      /\ Fail(a) /\ phase' = phase
      /\ tasks[c].loop \in 1..Len(phase)
      /\ \/ /\ tasks[c].stage = "queued" /\ queue' = queue
            /\ \E u \in Tasks :
                  /\ Puts(tasks, c, u, tasks')
                  /\ u.stage = "dropped"
                  /\ u.sent = tasks[c].sent
         \/ /\ tasks' = tasks
            /\ \/ queue' = queue
               \/ \E x \in Callbacks :
                    /\ Is(x, "cancel", c)
                    /\ Gained(queue, tasks[c].loop, x, queue')
    BY <1>1, GivesUp
<1>3. SameClient
    BY FieldsStay DEF Interrupt
<1>4. PICK k : /\ Becomes(a, k) /\ ~Gone(k, tasks')
               /\ WillClose(call[a], tasks) => WillClose(k, tasks')
    <2>1. PICK T : T = tasks
        OBVIOUS
    <2>2. PICK U : U = tasks'
        OBVIOUS
    <2>3. \E k : /\ Becomes(a, k) /\ ~Gone(k, U)
                 /\ WillClose(call[a], T) => WillClose(k, U)
        BY <1>2, FailStays
    <2> QED
        BY <2>1, <2>2, <2>3
<1>5. GoneStays /\ CloseStays
    BY <1>2, <1>4, CallGoes
<1>6. ForwardsNothing
    BY <1>2, SameQueueForwards, GainedForwards DEF Is
<1>7. NoneAsks
    <2>1. CASE tasks' = tasks
        BY <2>1, SameTasksAsk
    <2>2. ASSUME NEW u \in Tasks, Puts(tasks, c, u, tasks'),
                 u.stage = "dropped", u.sent = tasks[c].sent,
                 tasks[c].stage = "queued"
          PROVE  NoneAsks
        <3>1. /\ Len(tasks') = Len(tasks) /\ tasks'[c] = u
              /\ \A d \in 1..Len(tasks) : d # c => tasks'[d] = tasks[d]
            BY <1>2, <2>2, PutsTurned DEF Turned
        <3>2. ~u.sent
            BY <1>2, <2>2, TaskShape DEF TaskFits, Handed
        <3>3. Len(tasks) \in Nat
            BY KeptShape
        <3> QED
            BY <2>2, <3>1, <3>2, <3>3 DEF NoneAsks, Asking
    <2> QED
        BY <1>2, <2>1, <2>2
<1> QED
    BY <1>2, <1>3, <1>5, <1>6, <1>7 DEF Stays, LoopsStay

LEMMA ReadLoopStays ==
    ASSUME Kept, TurnsOK, SyncOK, NEW a \in Callers, ReadLoop(a)
    PROVE  Stays
<1>1. PICK h : h = call[a].handle
    OBVIOUS
<1>2. /\ UNCHANGED <<phase, queue, tasks>> /\ call[a].pc = "read"
      /\ h \in Handles /\ call[a] \in CallRecords
      /\ SameClient /\ ForwardsNothing /\ Alone(a)
    BY <1>1, LoopsShape, FieldsStay, SameQueueForwards, UnderWay
       DEF ReadLoop, At, loopVars
<1>3. ASSUME WillClose(call[a], tasks)
      PROVE  /\ loopThread[h] # None /\ SyncAllowed(a, h)
             /\ call[a].op = "connect"
    <2>1. call[a].loop # None /\ call[a].op = "connect"
        BY <1>2, <1>3 DEF WillClose
    <2>2. loopThread[h] = call[a].loop
        BY <1>1, <1>2, <2>1 DEF TurnsOK, CallerFits
    <2>3. Syncs(call[a])
        BY <1>2, <2>1 DEF Syncs
    <2> QED
        BY <1>1, <1>2, <2>1, <2>2, <2>3 DEF SyncOK, SyncAllowed
<1>4. CASE loopThread[h] = None \/ (h = Client /\ ~SyncAllowed(a, h))
    <2>1. PICK k : Becomes(a, k) /\ k.pc = "idle"
        BY <1>1, <1>4, ReturnIs DEF ReadLoop
    <2> QED
        BY <1>2, <1>3, <1>4, <2>1, NoneGone, PlainStays
<1>5. CASE ~(loopThread[h] = None \/ (h = Client /\ ~SyncAllowed(a, h)))
    <2>1. PICK l : l = loopThread[h]
        OBVIOUS
    <2>2. PICK k : k = [call[a] EXCEPT !.pc = "close", !.loop = l]
        OBVIOUS
    <2>3. Becomes(a, k)
        BY <1>1, <1>5, <2>1, <2>2 DEF ReadLoop, Becomes
    <2>4. k.pc = "close" /\ k.op = call[a].op /\ k.handle = call[a].handle
        BY <1>2, <2>2 DEF CallRecords
    <2>5. WillClose(call[a], tasks) => WillClose(k, tasks)
        BY <1>3, <2>4 DEF WillClose
    <2> QED
        BY <1>2, <2>3, <2>4, <2>5, NoneGone, PlainStays
<1> QED
    BY <1>4, <1>5

LEMMA AfterCloseStays ==
    ASSUME Kept, TurnsOK, NEW a \in Callers, AfterClose(a),
           UNCHANGED <<phase, queue, tasks>>, SameClient,
           \/ call[a].pc = "close" /\ Closed(call[a].loop)
           \/ call[a].pc = "closing" /\ Done(a)
    PROVE  Stays
<1>1. Alone(a) /\ ForwardsNothing
    BY UnderWay, SameQueueForwards DEF At
<1>2. PICK k : /\ Becomes(a, k)
               /\ \/ /\ k.pc = "idle"
                     /\ call[a].handle # Client
                  \/ /\ k.pc = "stop" /\ SameCall(k, call[a])
                     /\ k.handle = Client
    BY AfterCloseIs
<1>3. CASE k.pc = "idle" /\ call[a].handle # Client
    BY <1>1, <1>2, <1>3, NoneGone, PlainStays DEF WillClose
<1>4. CASE call[a].pc = "close" /\ call[a].handle = Client
    <2>1. PICK l : l = call[a].loop
        OBVIOUS
    <2>2. loopThread[Client] = l /\ l # None
        BY <1>4, <2>1 DEF TurnsOK, CallerFits
    <2>3. l \in 1..Len(phase)
        BY <2>1, <2>2, LoopsShape
    <2>4. LoopFits(l, phase[l], queue[l], loopThread, call)
        BY <2>3 DEF TurnsOK
    <2> QED
        BY <1>4, <2>1, <2>2, <2>4 DEF LoopFits, Closed
<1>5. CASE call[a].pc = "closing" /\ call[a].handle = Client
    <2>1. ~Under(tasks[call[a].task])
        BY <1>5 DEF Under, Done
    <2>2. Gone(call[a], tasks)
        BY <1>5, <2>1 DEF Gone
    <2>3. ~WillClose(call[a], tasks)
        BY <1>5, <2>1 DEF WillClose, Under, Handed, Ended
    <2> QED
        BY <1>1, <1>2, <2>2, <2>3, PlainStays
<1> QED
    BY <1>2, <1>3, <1>4, <1>5 DEF SameCall

LEMMA FinishCloseStays ==
    ASSUME Kept, TurnsOK, NEW a \in Callers, FinishClose(a)
    PROVE  Stays
<1>1. /\ UNCHANGED <<phase, queue, tasks>> /\ SameClient
      /\ call[a].pc = "closing" /\ Done(a) /\ AfterClose(a)
    BY FieldsStay DEF FinishClose, At, loopVars
<1> QED
    BY <1>1, AfterCloseStays

LEMMA StopLoopStays ==
    ASSUME Kept, TurnsOK, NEW a \in Callers, StopLoop(a)
    PROVE  Stays
<1>1. PICK l : l = call[a].loop
    OBVIOUS
<1>2. /\ call[a].pc = "stop" /\ UNCHANGED <<phase, tasks>> /\ SameClient
      /\ GoTo(a, "join") /\ Alone(a)
    BY FieldsStay, UnderWay DEF StopLoop, At
<1>3. l \in 1..Len(phase)
    <2>1. l # None
        BY <1>1, <1>2 DEF TurnsOK, CallerFits
    <2> QED
        BY <1>1, <2>1, LoopsShape
<1>4. PICK k : Becomes(a, k) /\ k.pc = "join" /\ SameCall(k, call[a])
    BY <1>2, GoToIs
<1>5. Gone(k, tasks) => Gone(call[a], tasks)
    BY <1>2, <1>4 DEF Gone, SameCall
<1>6. ForwardsNothing
    <2>1. CASE queue' = queue
        BY <2>1, SameQueueForwards
    <2>2. CASE queue' # queue
        <3>1. PICK x : x = Callback("stop", 0)
            OBVIOUS
        <3>2. x \in Callbacks /\ x.do = "stop"
            BY <3>1, KeptShape DEF Callback, Callbacks
        <3>3. Gained(queue, l, x, queue')
            BY <1>1, <2>2, <3>1 DEF StopLoop, Gained
        <3> QED
            BY <1>3, <3>2, <3>3, GainedForwards
    <2> QED
        BY <2>1, <2>2
<1> QED
    BY <1>2, <1>4, <1>5, <1>6, NoneCloses, PlainStays

LEMMA JoinStays ==
    ASSUME Kept, TurnsOK, NEW a \in Callers, Join(a)
    PROVE  Stays
<1>1. /\ UNCHANGED <<phase, queue, tasks>> /\ SameClient
      /\ call[a].pc = "join" /\ Alone(a) /\ Return(a)
    BY FieldsStay, UnderWay DEF Join, At, loopVars
<1>2. PICK k : Becomes(a, k) /\ k.pc = "idle"
    BY <1>1, ReturnIs
<1> QED
    BY <1>1, <1>2, NoneGone, NoneCloses, PlainStays, SameQueueForwards

LEMMA CreateLoopStays ==
    ASSUME Kept, TurnsOK, NEW a \in Callers, CreateLoop(a)
    PROVE  Stays
<1>1. PICK k : Becomes(a, k) /\ k.pc = "submit"
    BY GoToIs DEF CreateLoop
<1>2. /\ tasks' = tasks /\ call[a].pc = "create"
      /\ phase' = Append(phase, "running") /\ queue' = Append(queue, <<>>)
    BY DEF CreateLoop, At
<1>3. Alone(a)
    BY <1>2, UnderWay DEF At
<1>4. GoneStays /\ CloseStays
    BY <1>1, <1>2, <1>3, NoneGone, NoneCloses, CallGoes
<1>5. SameClient
    BY DEF CreateLoop, SameClient, sessionVars
<1>6. LoopsStay
    BY <1>2, KeptShape DEF LoopsStay, Kept, LoopsOK
<1>7. ForwardsNothing
    <2>1. queue \in Seq(Seq(Callbacks))
        BY LoopsShape
    <2>2. ASSUME NEW m \in 1..Len(queue'), NEW x \in Of(queue'[m])
          PROVE  m \in 1..Len(queue) /\ x \in Of(queue[m])
        <3>1. CASE m \in 1..Len(queue)
            BY <1>2, <2>1, <2>2, <3>1
        <3>2. CASE m \notin 1..Len(queue)
            <4>1. queue'[m] = <<>>
                BY <1>2, <2>1, <2>2, <3>2
            <4> QED
                BY <2>2, <4>1 DEF Of
        <3> QED
            BY <3>1, <3>2
    <2> QED
        BY <2>2 DEF ForwardsNothing
<1> QED
    BY <1>2, <1>4, <1>5, <1>6, <1>7, SameTasksAsk DEF Stays

LEMMA HandsStay ==
    ASSUME Kept, NEW a \in Callers, HandsOver(a)
    PROVE  Stays
<1>1. PICK k : \E l \in 1..Len(phase), t \in Tasks, x \in Callbacks :
                   Hands(a, k, t, l, x)
    BY DEF HandsOver
<1>2. PICK l \in 1..Len(phase), t \in Tasks, x \in Callbacks :
          Hands(a, k, t, l, x)
    BY <1>1
<1>3. PICK n \in Nat : n = Len(tasks)
    BY KeptShape
<1>4. /\ Becomes(a, k) /\ Adds(tasks, t, tasks')
      /\ Gained(queue, l, x, queue') /\ phase' = phase /\ Alone(a)
      /\ k.task = n + 1 /\ ~t.sent /\ t.stage \in {"queued", "ready"}
      /\ x.do \in {"start", "step"}
      /\ \/ /\ call[a].pc = "submit" /\ k.pc = "wait"
         \/ /\ call[a].pc = "close" /\ k.pc = "closing"
            /\ k.handle = call[a].handle
         \/ call[a].pc = "idle" /\ k.pc = "await"
         \/ /\ call[a].pc = "await" /\ k.pc = "unwind"
            /\ k.handle = call[a].handle
    BY <1>2, <1>3 DEF Hands, Is
<1>5. /\ Len(tasks') = n + 1 /\ tasks'[n + 1] = t
      /\ \A c \in 1..n : tasks'[c] = tasks[c]
    BY <1>2, <1>3, <1>4, KeptShape, OneMoreTask
<1>6. SameClient
    BY <1>2 DEF Hands, SameClient
<1>7. ForwardsNothing
    BY <1>4, GainedForwards
<1>8. NoneAsks
    <2>1. \A c \in 1..(n + 1) : c \in 1..n \/ c = n + 1
        OBVIOUS
    <2>2. n <= n + 1 /\ n + 1 \notin 1..n
        OBVIOUS
    <2> QED
        BY <1>3, <1>4, <1>5, <2>1, <2>2 DEF NoneAsks, Asking
<1>9. ~Gone(k, tasks')
    BY <1>4, <1>5 DEF Gone, Under, Ended
<1>10. WillClose(call[a], tasks) => WillClose(k, tasks')
    BY <1>4, <1>5 DEF WillClose, Handed
<1>11. GoneStays /\ CloseStays
    BY <1>4, <1>9, <1>10, CallGoes
<1> QED
    BY <1>4, <1>6, <1>7, <1>8, <1>11 DEF Stays, LoopsStay

\* Back in the cell: what connected has connected, what failed is closed.
LEMMA ResumeStays ==
    ASSUME Kept, TurnsOK, NEW a \in Callers, Resume(a)
    PROVE  Stays
<1>1. /\ SameClient /\ phase' = phase /\ Done(a)
      /\ call[a].pc \in {"await", "unwind"} /\ Alone(a)
    BY FieldsStay, UnderWay DEF Resume, At
<1>2. CASE Return(a) /\ UNCHANGED <<queue, tasks>>
    <2>1. PICK k : Becomes(a, k) /\ k.pc = "idle"
        BY <1>2, ReturnIs
    <2>2. ASSUME WillClose(call[a], tasks)
          PROVE  FALSE
        <3>1. tasks[call[a].task].stage \in Ended
            BY <1>1 DEF Done
        <3>2. /\ call[a].pc = "await" /\ call[a].op = "connect"
              /\ ~Succeeded(a)
            BY <1>1, <2>2, <3>1 DEF WillClose, Succeeded, Handed, Ended
        <3>3. Begin(a, "aclose", call[a].handle)
            BY <3>2 DEF Resume, At
        <3>4. Len(tasks') = Len(tasks) + 1
            BY <3>3, KeptShape DEF Begin
        <3> QED
            BY <1>2, <3>4, KeptShape
    <2> QED
        BY <1>1, <1>2, <2>1, <2>2, NoneGone, PlainStays, SameQueueForwards
<1> QED
    BY <1>2, HandsStay, ResumeHands

LEMMA StartStays ==
    ASSUME Kept, NEW l \in 1..Len(phase), Start(l)
    PROVE  Stays
<1>1. PICK c \in 1..Len(tasks), x \in Callbacks, y \in Callbacks,
           s \in Seq(Callbacks), r \in Seq(Callbacks),
           z \in Seq(Callbacks) :
          Starts(l, c, x, y, s, r, z)
    BY StartQueue
<1>2. /\ s = queue[l] /\ z = queue'[l] /\ s # <<>>
      /\ r = Append(Tail(s), x) /\ z \in {r, Append(r, y)}
      /\ x.do = "step" /\ y.do = "cancel"
      /\ Len(queue') = Len(queue)
      /\ \A m \in 1..Len(queue) : m # l => queue'[m] = queue[m]
      /\ Len(tasks') = Len(tasks)
      /\ \A d \in 1..Len(tasks) : d # c => tasks'[d] = tasks[d]
      /\ tasks'[c].stage = "ready" /\ tasks'[c].sent = tasks[c].sent
      /\ tasks[c].stage \in Handed
    BY <1>1 DEF Starts, Rescheduled, Is
<1>3. SameClient /\ UNCHANGED <<phase, call>>
    BY FieldsStay DEF Start, callVars
<1>4. NoneAsks
    <2>1. ~tasks[c].sent
        BY <1>2, TaskShape DEF TaskFits
    <2>2. Len(tasks) \in Nat
        BY KeptShape
    <2> QED
        BY <1>2, <2>1, <2>2 DEF NoneAsks, Asking, Handed
<1>5. ForwardsNothing
    <2>1. ASSUME NEW e \in Of(z)
          PROVE  e \in Of(s) \/ e.do \in {"step", "cancel"}
        <3>1. Tail(s) \in Seq(Callbacks) /\ Of(Tail(s)) \subseteq Of(s)
            BY <1>2, OfTail
        <3>2. \A f \in Of(r) : f \in Of(s) \/ f = x
            BY <1>2, <3>1, OfAppend
        <3>3. e \in Of(r) \/ e = y
            BY <1>2, <2>1, OfAppend
        <3> QED
            BY <1>2, <3>2, <3>3
    <2> QED
        BY <1>2, <2>1 DEF ForwardsNothing
<1>6. GoneStays
    <2>1. ASSUME NEW a \in Callers, Gone(call[a], tasks')
          PROVE  Gone(call[a], tasks)
        <3>1. call[a].pc = "closing" => call[a].task \in 1..Len(tasks)
            BY CallShape, KeptShape DEF CallFits
        <3> QED
            BY <1>2, <2>1, <3>1 DEF Gone, Under, Handed, Ended
    <2> QED
        BY <1>3, <2>1 DEF GoneStays
<1>7. CloseStays
    <2>1. ASSUME NEW a \in Callers, WillClose(call[a], tasks)
          PROVE  WillClose(call[a], tasks')
        <3>1. call[a].pc \in Waits => call[a].task \in 1..Len(tasks)
            BY CallShape, KeptShape DEF CallFits, Waits
        <3> QED
            BY <1>2, <2>1, <3>1 DEF WillClose, Handed, Waits
    <2> QED
        BY <1>3, <2>1 DEF CloseStays
<1> QED
    BY <1>3, <1>4, <1>5, <1>6, <1>7 DEF Stays, LoopsStay

\* A loop that winds down: close() joins it, and no other call is under way.
LEMMA WindingStays ==
    ASSUME Kept, TurnsOK, LeftOK, NEW l \in 1..Len(phase),
           phase[l] \notin {"running", "closed"} \/ Does(queue[l], "stop"),
           SameClient, ForwardsNothing, NoneAsks, call' = call
    PROVE  Stays
<1>1. \A a \in Callers : call[a].pc \in {"idle", "join"}
    BY NoneOn
<1>2. \E a \in Callers : call[a].pc = "join"
    BY DEF TurnsOK, LoopFits, Joins
<1>3. GoneStays
    BY <1>1 DEF GoneStays, Gone
<1>4. CloseStays
    BY <1>1 DEF CloseStays, WillClose
<1> QED
    BY <1>2, <1>3, <1>4 DEF Stays, LoopsStay

LEMMA StopStays ==
    ASSUME Kept, TurnsOK, LeftOK, NEW l \in 1..Len(phase),
           Stop(l) \/ CloseLoop(l)
    PROVE  Stays
<1>1. queue[l] \in Seq(Callbacks) /\ queue \in Seq(Seq(Callbacks))
    BY LoopsShape
<1>2. phase[l] \notin {"running", "closed"} \/ Does(queue[l], "stop")
    <2>1. CASE Stop(l)
        <3>1. queue[l] # <<>> /\ Head(queue[l]).do = "stop"
            BY <2>1 DEF Stop, Holds
        <3>2. Does(queue[l], Head(queue[l]).do)
            BY <1>1, <3>1, HeadHas
        <3> QED
            BY <3>1, <3>2
    <2> QED
        BY <2>1 DEF CloseLoop
<1>3. UNCHANGED <<tasks, call>> /\ SameClient
    BY FieldsStay DEF Stop, CloseLoop, callVars
<1>4. ForwardsNothing
    <2>1. \E s : /\ queue' = [queue EXCEPT ![l] = s]
                 /\ Of(s) \subseteq Of(queue[l])
        <3>1. CASE queue[l] # <<>> /\ queue' = Rest(l)
            <4>1. Of(Tail(queue[l])) \subseteq Of(queue[l])
                BY <1>1, <3>1, OfTail
            <4> QED
                BY <3>1, <4>1 DEF Rest
        <3>2. CASE Shut(l)
            <4>1. Of(<<>>) = {}
                BY DEF Of
            <4> QED
                BY <3>2, <4>1 DEF Shut
        <3> QED
            BY <3>1, <3>2 DEF Stop, CloseLoop, Holds
    <2>2. PICK s : /\ queue' = [queue EXCEPT ![l] = s]
                   /\ Of(s) \subseteq Of(queue[l])
        BY <2>1
    <2>3. /\ Len(queue') = Len(queue) /\ queue'[l] = s
          /\ \A m \in 1..Len(queue) : m # l => queue'[m] = queue[m]
        BY <1>1, <2>2, LoopsShape
    <2> QED
        BY <2>2, <2>3 DEF ForwardsNothing
<1> QED
    BY <1>2, <1>3, <1>4, SameTasksAsk, WindingStays

LEMMA DrainStays ==
    ASSUME Kept, TurnsOK, LeftOK, NEW l \in 1..Len(phase), Drain(l)
    PROVE  Stays
<1>1. phase[l] \notin {"running", "closed"}
    BY DEF Drain
<1>2. /\ Len(tasks') = Len(tasks)
      /\ \A c \in 1..Len(tasks) :
             \/ tasks'[c] = tasks[c]
             \/ tasks'[c] = Over("cancelled") /\ Pending(c)
      /\ UNCHANGED <<queue, call>>
    BY DrainTasks
<1>3. ASSUME NEW c \in 1..Len(tasks), tasks'[c] # tasks[c],
             tasks[c].stage = "closing"
      PROVE  tasks[c].sent
    <2>1. Under(tasks[c])
        BY <1>3 DEF Under, Ended
    <2>2. tasks[c].loop # l
        BY <1>1, <2>1, NoneOn
    <2>3. c \in DOMAIN tasks
        BY KeptShape
    <2> QED
        BY <1>3, <2>2, <2>3 DEF Drain
<1>4. Over("cancelled").stage = "cancelled" /\ ~Over("cancelled").sent
    BY DEF Over, Task
<1>5. NoneAsks
    <2>1. Len(tasks) \in Nat
        BY KeptShape
    <2> QED
        BY <1>2, <1>3, <1>4, <2>1 DEF NoneAsks, Asking
<1>6. SameClient
    BY FieldsStay DEF Drain
<1> QED
    BY <1>1, <1>2, <1>5, <1>6, SameQueueForwards, WindingStays

LEMMA UnchangedStays ==
    ASSUME Kept, UNCHANGED vars
    PROVE  Stays
<1>1. /\ SameClient /\ ForwardsNothing /\ NoneAsks
      /\ UNCHANGED <<phase, tasks, call>>
    BY FieldsStay, SameQueueForwards, SameTasksAsk
       DEF vars, sessionVars, fields
<1> QED
    BY <1>1 DEF Stays, LoopsStay, GoneStays, CloseStays

\* Every step is of one kind or of the other.
LEMMA OtherStays ==
    ASSUME Kept, Careful, TurnsOK, RunsOK, SyncOK, LeftOK, [Next]_vars
    PROVE  GoOnStep \/ Stays
<1>1. CASE UNCHANGED vars
    BY <1>1, UnchangedStays
<1>2. ASSUME NEW a \in Callers, Submit(a)
      PROVE  Stays
    <2>1. call[a].pc = "submit" /\ phase' = phase /\ SameClient
        BY <1>2, FieldsStay DEF Submit, At
    <2>2. CASE Fail(a) /\ UNCHANGED <<queue, tasks>>
        <3>1. Alone(a) /\ ForwardsNothing
            BY <2>1, <2>2, UnderWay, SameQueueForwards DEF At
        <3>2. PICK k : /\ Becomes(a, k) /\ ~Gone(k, tasks)
                       /\ WillClose(call[a], tasks) => WillClose(k, tasks)
            BY <2>1, <2>2, FailStays
        <3> QED
            BY <2>1, <2>2, <3>1, <3>2, PlainStays
    <2> QED
        BY <1>2, <2>2, SubmitHands, HandsStay
<1>3. ASSUME NEW a \in Callers, SubmitClose(a)
      PROVE  Stays
    <2>1. call[a].pc = "close" /\ phase' = phase /\ SameClient
        BY <1>3 DEF SubmitClose, At, SameClient, sessionVars
    <2> QED
        BY <1>3, <2>1, SubmitCloseHands, HandsStay, AfterCloseStays
<1>4. ASSUME NEW a \in Callers, Proceed(a)
      PROVE  Stays
    BY <1>2, <1>3, <1>4, EnterStays, CreateLoopStays, FinishStays,
       ReadLoopStays, FinishCloseStays, StopLoopStays, JoinStays,
       ResumeStays DEF Proceed
<1>5. ASSUME NEW a \in Callers, UserStep(a)
      PROVE  Stays
    <2>1. ~InterruptClose(a)
        BY DEF Careful, InterruptClose
    <2> QED
        BY <1>5, <2>1, CallStaysOut, InterruptStays DEF UserStep
<1>6. ASSUME NEW a \in Cells, CellStep(a)
      PROVE  GoOnStep \/ Stays
    <2>1. a \in Callers
        BY DEF Callers
    <2> QED
        BY <1>6, <2>1, AwaitHands, HandsStay DEF CellStep, GoOnStep
<1>7. ASSUME NEW l \in DOMAIN phase, LoopStep(l)
      PROVE  GoOnStep \/ Stays
    <2>1. l \in 1..Len(phase)
        BY KeptShape
    <2>2. LoopTurn(l) => GoOnStep
        BY DEF GoOnStep
    <2> QED
        BY <1>7, <2>1, <2>2, StartStays, StopStays, DrainStays
           DEF LoopStep, LoopTurn
<1> QED
    BY <1>1, <1>4, <1>5, <1>6, <1>7 DEF Next, GoOnStep

LEMMA HomeStays ==
    ASSUME Kept, Kept', RunsOK, HomeOK, Stays
    PROVE  HomeOK'
<1>1. /\ home' = home /\ Len(queue) = Len(phase)
      /\ \A h \in live \cup {Client} : session'[h] = session[h]
    BY LoopsShape DEF Stays, SameClient
<1>2. PICK p : p = phase'
    OBVIOUS
<1>3. PICK q : q = queue'
    OBVIOUS
<1>4. PICK T : T = tasks'
    OBVIOUS
<1>5. QueueFits(q, Len(p), T, home')
    BY <1>2, <1>3, <1>4 DEF Kept, LoopsOK
<1>6. ASSUME NEW c \in 1..Len(T), NEW h \in Handles, T[c].handle = h
      PROVE  HomeFits(T[c], Owner(h)', home')
    <2>1. CASE c \in 1..Len(tasks) /\ T[c] = tasks[c]
        <3>1. HomeFits(tasks[c], Owner(h), home)
            BY <1>6, <2>1 DEF HomeOK
        <3>2. tasks[c].stage \in Asking => Owner(h)' = Owner(h)
            <4>1. tasks[c].stage \in Asking => h \in live \cup {Client}
                BY <1>6, <2>1
                   DEF RunsOK, Reached, Under, Asking, Ended
            <4> QED
                BY <1>1, <4>1 DEF Owner
        <3> QED
            BY <1>1, <2>1, <3>1, <3>2 DEF HomeFits
    <2>2. CASE T[c].stage \notin Asking /\ ~T[c].sent
        BY <2>2 DEF HomeFits
    <2> QED
        BY <1>4, <1>6, <2>1, <2>2 DEF Stays, NoneAsks
<1>7. ASSUME NEW m \in 1..Len(p), NEW x \in Of(q[m])
      PROVE  ForwardFits(x, m, T)
    <2>1. SUFFICES ASSUME x.do = "request", Under(T[x.task])
                   PROVE  T[x.task].at = m
        BY DEF ForwardFits
    <2>2. CallbackFits(m, x, T, home')
        <3>1. PICK i \in 1..Len(q[m]) : x = q[m][i]
            BY <1>7 DEF Of
        <3> QED
            BY <1>5, <1>7, <3>1 DEF QueueFits
    <2>3. T[x.task].stage \in Asking
        BY <2>1, <2>2 DEF CallbackFits, Under
    <2>4. m \in 1..Len(phase) /\ x \in Of(queue[m])
        <3>1. m \in 1..Len(queue')
            BY <1>3, <1>5, <1>7 DEF QueueFits
        <3> QED
            BY <1>1, <1>3, <1>7, <2>1, <3>1 DEF Stays, ForwardsNothing
    <2>5. x.task \in 1..Len(tasks) /\ ForwardFits(x, m, tasks)
        BY <2>1, <2>4, OfFits DEF HomeOK
    <2>6. T[x.task] = tasks[x.task]
        <3>1. Len(tasks) <= Len(T) /\ Len(tasks) \in Nat /\ Len(T) \in Nat
            BY <1>4, KeptShape DEF Stays, NoneAsks, Kept, TasksOK
        <3>2. x.task \in 1..Len(T)
            BY <2>5, <3>1
        <3> QED
            BY <1>4, <2>3, <3>2 DEF Stays, NoneAsks
    <2> QED
        BY <2>1, <2>5, <2>6 DEF ForwardFits
<1> QED
    BY <1>2, <1>3, <1>4, <1>6, <1>7 DEF HomeOK

LEMMA InitHome ==
    ASSUME Init
    PROVE  HomeOK
<1>1. Len(tasks) = 0 /\ Len(phase) = 1 /\ queue[1] = <<>>
    BY DEF Init
<1>2. Of(<<>>) = {}
    BY DEF Of
<1> QED
    BY <1>1, <1>2 DEF HomeOK

LEMMA HomeKeeps ==
    ASSUME Kept, Careful, TurnsOK, RunsOK, SyncOK, LeftOK, HomeOK,
           [Next]_vars
    PROVE  HomeOK'
BY OtherStays, HomeStays, HomeGoesOn, NextKeeps

\* Callers that take turns: whatever a coroutine has sent is where the session
\* it uses was made, a request is forwarded to or from the application's loop
\* only, and its connection gets no session elsewhere meanwhile (qclient.py,
\* _on_session_loop).
THEOREM CarefulRequestsRunAtHome == Spec => [](Careful => HomeOK)
<1>1. Init => (Careful => HomeOK)
    BY InitHome
<1>2. /\ Kept /\ (Careful => TurnsOK) /\ (Careful => RunsOK)
      /\ (Careful => SyncOK) /\ (Careful => LeftOK) /\ (Careful => HomeOK)
      /\ [Next]_vars
      => (Careful => HomeOK)'
    BY HomeKeeps, CarefulStays
<1> QED
    BY <1>1, <1>2, KeptAlways, CarefulCallersTakeTurns,
       CarefulCallersWaitForTheirOwn, CarefulCellsDoNotBlockTheirLoop,
       WhatIsLeftIsCancelledFirst, PTL DEF Spec

\* With callers that take turns every request, and every closing, of a session
\* runs on the loop that the session was made on (qclient.py,
\* _on_session_loop and aclose).
THEOREM EverySessionIsUsedAtHome == Spec => []SessionIsUsedAtHome
<1>1. Kept /\ (Careful => HomeOK) => SessionIsUsedAtHome
    <2>1. SUFFICES ASSUME Kept, Careful, HomeOK, NEW c \in DOMAIN tasks,
                          tasks[c].sent
                   PROVE  tasks[c].at = home[tasks[c].via]
        BY DEF SessionIsUsedAtHome
    <2>2. c \in 1..Len(tasks)
        BY <2>1, KeptShape
    <2>3. tasks[c].handle \in Handles
        BY <2>1, <2>2, TaskShape
    <2> QED
        BY <2>1, <2>2, <2>3 DEF HomeOK, HomeFits
<1> QED
    BY <1>1, KeptAlways, CarefulRequestsRunAtHome, PTL

-----------------------------------------------------------------------------
(* Who refers to an open session, where that one is, and who closes it.    *)

\* A coroutine that closes the client, whose session is `s' and whose being
\* authenticated is `b': session.close() has closed it once that was sent.
ClosesFit(t, s, b, O) ==
    t.stage = "closing" =>
        /\ t.via = s /\ ~b
        /\ t.sent => t.via \notin O

\* A session.close() that was forwarded: its sender waits for it, or that was
\* done already.
CloseFits(x, T, O) ==
    x.do = "close" =>
        IF T[x.task].stage = "closing" THEN T[x.task].via = x.via
        ELSE x.via \notin O

Referred == \A s \in open : \E h \in live \cup {Client} : session[h] = s

HomeRuns ==
    session[Client] \in open => phase[home[session[Client]]] = "running"

OpenOK ==
    /\ Referred /\ HomeRuns
    /\ \A c \in 1..Len(tasks) :
           ClosesFit(tasks[c], session[Client], authenticated[Client], open)
    /\ \A l \in 1..Len(phase) : \A x \in Of(queue[l]) :
           CloseFits(x, tasks, open)
    /\ \A a \in Callers : Gone(call[a], tasks) => session[Client] = None

LEMMA HomeRunsStays ==
    ASSUME Kept, TurnsOK, OpenOK, Stays
    PROVE  HomeRuns'
<1>1. /\ home' = home /\ open' = open
      /\ session'[Client] = session[Client]
    BY DEF Stays, SameClient
<1>2. SUFFICES ASSUME session[Client] \in open
               PROVE  phase'[home[session[Client]]] = "running"
    BY <1>1 DEF HomeRuns
<1>3. /\ home[session[Client]] \in 1..Len(phase) /\ session[Client] # None
      /\ phase[home[session[Client]]] = "running"
    BY <1>2, SessionShape DEF OpenOK, HomeRuns
<1>4. ASSUME NEW a \in Callers, call[a].pc = "join"
      PROVE  FALSE
    <2>1. call[a].handle = Client
        BY <1>4 DEF TurnsOK, CallerFits
    <2>2. Gone(call[a], tasks)
        BY <1>4, <2>1 DEF Gone
    <2> QED
        BY <1>3, <2>2 DEF OpenOK
<1> QED
    BY <1>3, <1>4 DEF Stays, LoopsStay

LEMMA OpenStays ==
    ASSUME Kept, Kept', TurnsOK, OpenOK, Stays
    PROVE  OpenOK'
<1>1. /\ home' = home /\ open' = open /\ Len(queue) = Len(phase)
      /\ session'[Client] = session[Client]
      /\ authenticated'[Client] = authenticated[Client]
    BY LoopsShape DEF Stays, SameClient
<1>2. PICK p : p = phase'
    OBVIOUS
<1>3. PICK q : q = queue'
    OBVIOUS
<1>4. PICK T : T = tasks'
    OBVIOUS
<1>5. QueueFits(q, Len(p), T, home')
    BY <1>2, <1>3, <1>4 DEF Kept, LoopsOK
<1>6. Referred'
    BY DEF OpenOK, Referred, Stays, SameClient
<1>7. ASSUME NEW c \in 1..Len(T)
      PROVE  ClosesFit(T[c], session[Client], authenticated[Client], open)
    <2>1. CASE c \in 1..Len(tasks) /\ T[c] = tasks[c]
        BY <2>1 DEF OpenOK
    <2>2. CASE T[c].stage # "closing"
        BY <2>2 DEF ClosesFit
    <2> QED
        BY <1>4, <1>7, <2>1, <2>2 DEF Stays, NoneAsks
<1>8. ASSUME NEW m \in 1..Len(p), NEW x \in Of(q[m])
      PROVE  CloseFits(x, T, open)
    <2>1. SUFFICES ASSUME x.do = "close"
                   PROVE  IF T[x.task].stage = "closing"
                          THEN T[x.task].via = x.via
                          ELSE x.via \notin open
        BY DEF CloseFits
    <2>2. m \in 1..Len(phase) /\ x \in Of(queue[m])
        <3>1. m \in 1..Len(queue')
            BY <1>3, <1>5, <1>8 DEF QueueFits
        <3> QED
            BY <1>1, <1>3, <1>8, <2>1, <3>1 DEF Stays, ForwardsNothing
    <2>3. x.task \in 1..Len(tasks) /\ CloseFits(x, tasks, open)
        BY <2>1, <2>2, OfFits DEF OpenOK
    <2>4. x.task \in 1..Len(T)
        <3>1. Len(tasks) <= Len(T) /\ Len(tasks) \in Nat /\ Len(T) \in Nat
            BY <1>4, KeptShape DEF Stays, NoneAsks, Kept, TasksOK
        <3> QED
            BY <2>3, <3>1
    <2>5. CASE T[x.task] = tasks[x.task]
        BY <2>1, <2>3, <2>5 DEF CloseFits
    <2>6. CASE /\ T[x.task].stage # "closing"
               /\ tasks[x.task].stage = "closing" => tasks[x.task].sent
        <3>1. ClosesFit(tasks[x.task], session[Client],
                        authenticated[Client], open)
            BY <2>3 DEF OpenOK
        <3> QED
            BY <2>1, <2>3, <2>6, <3>1 DEF CloseFits, ClosesFit
    <2> QED
        BY <1>4, <2>3, <2>4, <2>5, <2>6 DEF Stays, NoneAsks
<1>9. \A a \in Callers : Gone(call'[a], tasks') => session[Client] = None
    BY DEF OpenOK, Stays, GoneStays
<1> QED
    BY <1>1, <1>2, <1>3, <1>4, <1>6, <1>7, <1>8, <1>9, HomeRunsStays
       DEF OpenOK

\* What connecting anew, and forgetting the session, make of the sessions.
GetsSession(t, l) ==
    /\ Under(t) /\ t.op = "connect" /\ t.handle \in live \cup {Client}
    /\ t.handle \in Handles /\ phase[l] = "running"
    /\ ~authenticated[t.handle] /\ session[t.handle] \notin open
    /\ open' = open \cup {Len(home) + 1}
    /\ home'[Len(home) + 1] = l
    /\ \A s \in 1..Len(home) : home'[s] = home[s]
    /\ \A h \in Handles : session'[h] =
           IF h = t.handle THEN Len(home) + 1 ELSE session[h]

LEMMA AnewSessions ==
    ASSUME Kept, RunsOK, LeftOK, NEW c \in 1..Len(tasks), NEW t,
           t = tasks[c], NEW u, NEW l \in 1..Len(phase),
           ConnectsAnew(c, t, u, l)
    PROVE  GetsSession(t, l)
<1>1. /\ Under(t) /\ t.op = "connect" /\ t.loop = l /\ ConnectAnew(c, l)
    BY DEF ConnectsAnew, Ready, Under, Ended
<1>2. t.handle \in live \cup {Client} /\ t.handle \in Handles
    BY <1>1, TaskShape DEF RunsOK, Reached
<1>3. phase[l] = "running"
    BY <1>1 DEF LeftOK, Turns
<1>4. /\ home \in Seq(Nat) /\ l \in Nat /\ Len(home) \in Nat
      /\ session \in [Handles -> (1..Len(home)) \cup {None}]
    BY KeptShape DEF Kept, SessionsOK, FieldsOK
<1>5. /\ home' = Append(home, l) /\ open' = open \cup {Len(home) + 1}
      /\ session' = [session EXCEPT ![t.handle] = Len(home) + 1]
      /\ ~authenticated[t.handle] /\ session[t.handle] \notin open
    BY <1>1 DEF ConnectAnew
<1>6. /\ home'[Len(home) + 1] = l
      /\ \A s \in 1..Len(home) : home'[s] = home[s]
    BY <1>4, <1>5
<1>7. \A h \in Handles : session'[h] =
          IF h = t.handle THEN Len(home) + 1 ELSE session[h]
    BY <1>4, <1>5
<1> QED
    BY <1>1, <1>2, <1>3, <1>5, <1>6, <1>7 DEF GetsSession

LEMMA ForgottenSessions ==
    ASSUME Kept, Forgotten
    PROVE  /\ session'[Client] = None /\ None \notin open
           /\ \A h \in Handles : h # Client => session'[h] = session[h]
<1>1. session \in [Handles -> (1..Len(home)) \cup {None}]
    BY DEF Kept, FieldsOK
<1>2. None \notin open
    BY SessionShape
<1>3. Client \in Handles
    BY DEF Handles
<1> QED
    BY <1>1, <1>2, <1>3 DEF Forgotten

\* While a coroutine closes the client, what else goes on is a request.
LEMMA OnlyCloser ==
    ASSUME Kept, TurnsOK, RunsOK, LeftOK,
           NEW d \in 1..Len(tasks), tasks[d].stage = "closing"
    PROVE  /\ tasks[d].op = "aclose" /\ tasks[d].handle = Client
           /\ Under(tasks[d]) /\ NoneDo(queue, "cancel", d)
           /\ \A c \in 1..Len(tasks) :
                  c # d /\ Under(tasks[c]) => tasks[c].op = "request"
<1>1. Under(tasks[d]) /\ Kind(tasks[d])
    BY DEF Under, Ended, RunsOK, Reached
<1>2. tasks[d].op = "aclose" /\ tasks[d].handle = Client
    BY <1>1 DEF Kind, Under
<1> QED
    BY <1>1, <1>2, OnlyAclose

\* A session that is closed is forgotten then, or before.
LEMMA ClosedIsForgotten ==
    ASSUME Kept, OpenOK, NEW c \in 1..Len(tasks), NEW t, t = tasks[c], NEW u,
           ClosesNothing(u) \/ ClosesLast(t, u)
    PROVE  Forgotten /\ open' = open /\ session[Client] \notin open
<1>1. CASE ClosesNothing(u)
    <2>1. SUFFICES ASSUME session[Client] \in open, Closed(Owner(Client))
                   PROVE  FALSE
        BY <1>1 DEF ClosesNothing
    <2>2. Owner(Client) = home[session[Client]]
        BY <2>1, SessionShape DEF Owner
    <2> QED
        BY <2>1, <2>2 DEF Closed, OpenOK, HomeRuns
<1>2. CASE ClosesLast(t, u)
    <2>1. ClosesFit(t, session[Client], authenticated[Client], open)
        BY DEF OpenOK
    <2> QED
        BY <1>2, <2>1 DEF ClosesLast, ClosesFit
<1> QED
    BY <1>1, <1>2

LEMMA ReferredGoesOn ==
    ASSUME Kept, TurnsOK, RunsOK, LeftOK, OpenOK, live' = live,
           NEW c \in 1..Len(tasks), NEW t, t = tasks[c], NEW u,
           Fate(c, t, u)
    PROVE  Referred'
<1>1. live \subseteq Handles /\ Client \in Handles
    BY DEF Kept, FieldsOK, Handles
<1>2. CASE session' = session /\ open' \subseteq open
    BY <1>2 DEF OpenOK, Referred
<1>3. CASE ClosesNothing(u) \/ ClosesLast(t, u)
    <2>1. /\ open' = open /\ session[Client] \notin open
          /\ \A h \in Handles : h # Client => session'[h] = session[h]
        BY <1>3, ClosedIsForgotten, ForgottenSessions
    <2> QED
        BY <1>1, <2>1 DEF OpenOK, Referred
<1>4. ASSUME NEW l \in 1..Len(phase), ConnectsAnew(c, t, u, l)
      PROVE  Referred'
    <2>1. /\ t.handle \in live \cup {Client}
          /\ session[t.handle] \notin open
          /\ open' = open \cup {Len(home) + 1}
          /\ \A h \in Handles : session'[h] =
                 IF h = t.handle THEN Len(home) + 1 ELSE session[h]
        <3>1. GetsSession(t, l)
            BY <1>4, AnewSessions
        <3> QED
            BY <3>1 DEF GetsSession
    <2> QED
        BY <1>1, <2>1 DEF OpenOK, Referred
<1> QED
    BY <1>2, <1>3, <1>4
       DEF Fate, Drops, Asks, SameSessions, ClosesClient, ClosesIt,
           ClosesThere

LEMMA HomeRunsOn ==
    ASSUME Kept, TurnsOK, RunsOK, LeftOK, OpenOK, phase' = phase,
           NEW c \in 1..Len(tasks), NEW t, t = tasks[c], NEW u,
           Fate(c, t, u)
    PROVE  HomeRuns'
<1>1. CASE session' = session /\ open' \subseteq open /\ home' = home
    BY <1>1 DEF OpenOK, HomeRuns
<1>2. CASE ClosesNothing(u) \/ ClosesLast(t, u)
    <2>1. open' = open /\ session'[Client] = None /\ None \notin open
        BY <1>2, ClosedIsForgotten, ForgottenSessions
    <2> QED
        BY <2>1 DEF HomeRuns
<1>3. ASSUME NEW l \in 1..Len(phase), ConnectsAnew(c, t, u, l)
      PROVE  HomeRuns'
    <2>1. /\ phase[l] = "running" /\ Client \in Handles
          /\ open' = open \cup {Len(home) + 1}
          /\ home'[Len(home) + 1] = l
          /\ \A s \in 1..Len(home) : home'[s] = home[s]
          /\ \A h \in Handles : session'[h] =
                 IF h = t.handle THEN Len(home) + 1 ELSE session[h]
        <3>1. GetsSession(t, l)
            BY <1>3, AnewSessions
        <3> QED
            BY <3>1 DEF GetsSession, Handles
    <2>2. CASE t.handle = Client
        BY <2>1, <2>2 DEF HomeRuns
    <2>3. CASE t.handle # Client
        <3>1. session'[Client] = session[Client]
            BY <2>1, <2>3
        <3>2. /\ session[Client] # None => session[Client] \in 1..Len(home)
              /\ Len(home) \in Nat /\ None \notin Nat
            BY <2>1, SessionShape
        <3>3. session[Client] # Len(home) + 1
            BY <3>2
        <3>4. SUFFICES ASSUME session[Client] \in open
                       PROVE  phase[home'[session[Client]]] = "running"
            BY <2>1, <3>1, <3>3 DEF HomeRuns
        <3>5. session[Client] \in 1..Len(home)
            BY <3>4, SessionShape
        <3> QED
            BY <2>1, <3>4, <3>5 DEF OpenOK, HomeRuns
    <2> QED
        BY <2>2, <2>3
<1> QED
    BY <1>1, <1>2, <1>3
       DEF Fate, Drops, Asks, SameSessions, ClosesClient, ClosesIt,
           ClosesThere

\* A coroutine that closes the client, and is not the one that goes on.
LEMMA OthersCloseOn ==
    ASSUME Kept, TurnsOK, RunsOK, LeftOK, OpenOK,
           NEW c \in 1..Len(tasks), NEW t, t = tasks[c], NEW u,
           Fate(c, t, u),
           NEW d \in 1..Len(tasks), d # c, tasks[d].stage = "closing"
    PROVE  ClosesFit(tasks[d], session'[Client], authenticated'[Client],
                     open')
<1>1. Under(t) => t.op = "request"
    BY OnlyCloser
<1>2. Kind(t)
    BY DEF RunsOK, Reached
<1>3. t.stage \notin {"auth", "closing"}
    BY <1>1, <1>2 DEF Kind, Under, Ended
<1>4. ClosesFit(tasks[d], session[Client], authenticated[Client], open)
    BY DEF OpenOK
<1>5. authenticated'[Client] => authenticated[Client]
    BY <1>3 DEF Fate, Fares
<1>6. CASE session' = session /\ open' \subseteq open
    BY <1>4, <1>5, <1>6 DEF ClosesFit
<1>7. ASSUME NEW l \in 1..Len(phase),
             ConnectsAnew(c, t, u, l) \/ ClosesClient(c, t, u, l)
      PROVE  FALSE
    BY <1>1, <1>7 DEF ConnectsAnew, ClosesClient, Under, Ended
<1> QED
    BY <1>3, <1>6, <1>7
       DEF Fate, Drops, Asks, SameSessions, ClosesThere, ClosesLast

\* The head of a queue is one of its callbacks.
LEMMA HeadCloses ==
    ASSUME Kept, OpenOK, NEW l \in 1..Len(phase), queue[l] # <<>>
    PROVE  CloseFits(Head(queue[l]), tasks, open)
<1>1. queue[l] \in Seq(Callbacks)
    BY LoopsShape
<1> QED
    BY <1>1, OfHead DEF OpenOK

\* The one that goes on.
LEMMA ItClosesOn ==
    ASSUME Kept, OpenOK,
           NEW c \in 1..Len(tasks), NEW t, t = tasks[c], NEW u,
           Fate(c, t, u)
    PROVE  ClosesFit(u, session'[Client], authenticated'[Client], open')
<1>1. SUFFICES ASSUME u.stage = "closing"
               PROVE  /\ u.via = session'[Client] /\ ~authenticated'[Client]
                      /\ u.sent => u.via \notin open'
    BY DEF ClosesFit
<1>2. ASSUME NEW l \in 1..Len(phase), ClosesClient(c, t, u, l)
      PROVE  /\ u.via = session'[Client] /\ ~authenticated'[Client]
             /\ u.sent => u.via \notin open'
    BY <1>1, <1>2 DEF ClosesClient, ClosesNothing, ClosesIt, Quits, Ended
<1>3. ASSUME NEW l \in 1..Len(phase), ClosesThere(c, t, u, l)
      PROVE  /\ u.via = session'[Client] /\ ~authenticated'[Client]
             /\ u.sent => u.via \notin open'
    <2>1. /\ t.stage = "closing" /\ u.via = t.via
          /\ queue[l] # <<>> /\ Is(Head(queue[l]), "close", c)
          /\ session' = session
          /\ open' = open \ {Head(queue[l]).via}
        BY <1>1, <1>3 DEF ClosesThere, Under, Ended
    <2>2. ClosesFit(t, session[Client], authenticated[Client], open)
        BY DEF OpenOK
    <2>3. CloseFits(Head(queue[l]), tasks, open)
        BY <2>1, HeadCloses
    <2>4. t.via = Head(queue[l]).via
        BY <2>1, <2>3 DEF CloseFits, Is
    <2>5. ~authenticated'[Client]
        BY <2>1, <2>2 DEF ClosesFit, Fate, Fares
    <2> QED
        BY <2>1, <2>2, <2>4, <2>5 DEF ClosesFit
<1> QED
    BY <1>1, <1>2, <1>3
       DEF Fate, Drops, Asks, ConnectsAnew, ClosesLast, Quits, Ended, Asking

LEMMA ClosersGoOn ==
    ASSUME Kept, TurnsOK, RunsOK, LeftOK, OpenOK,
           NEW c \in 1..Len(tasks), NEW u, Fate(c, tasks[c], u),
           NEW d \in 1..Len(tasks)
    PROVE  ClosesFit(tasks'[d], session'[Client], authenticated'[Client],
                     open')
<1>1. PICK t : t = tasks[c]
    OBVIOUS
<1>2. Fate(c, t, u)
    BY <1>1
<1>3. tasks'[c] = u /\ (d # c => tasks'[d] = tasks[d])
    BY DEF Fate, Turned
<1>4. CASE d = c
    BY <1>1, <1>2, <1>3, <1>4, ItClosesOn
<1>5. CASE d # c
    <2>1. CASE tasks[d].stage = "closing"
        <3>1. ClosesFit(tasks[d], session'[Client],
                        authenticated'[Client], open')
            BY <1>1, <1>2, <1>5, <2>1, OthersCloseOn
        <3> QED
            BY <1>3, <1>5, <3>1
    <2>2. CASE tasks[d].stage # "closing"
        BY <1>3, <1>5, <2>2 DEF ClosesFit
    <2> QED
        BY <2>1, <2>2
<1> QED
    BY <1>4, <1>5

\* A callback there was: it stays one of a coroutine that waits for it, or of
\* one whose session is closed.
LEMMA CloseStaysFit ==
    ASSUME Kept, TurnsOK, RunsOK, LeftOK, OpenOK,
           NEW c \in 1..Len(tasks), NEW u, Fate(c, tasks[c], u),
           NEW m \in 1..Len(phase), NEW x \in Of(queue[m])
    PROVE  CloseFits(x, tasks', open')
<1>1. SUFFICES ASSUME x.do = "close"
               PROVE  CloseFits(x, tasks', open')
    BY DEF CloseFits
<1>2. PICK t : t = tasks[c]
    OBVIOUS
<1>3. /\ Fate(c, t, u) /\ tasks'[c] = u
      /\ \A d \in 1..Len(tasks) : d # c => tasks'[d] = tasks[d]
    BY <1>2 DEF Fate, Turned
<1>4. /\ x.task \in 1..Len(tasks) /\ CloseFits(x, tasks, open)
      /\ tasks[x.task].stage \in Ended \cup {"closing"}
      /\ x.via \in 1..Len(home)
    BY <1>1, OfFits DEF OpenOK, CallbackFits
<1>5. \A s \in 1..Len(home) : s \notin open => s \notin open'
    <2>1. CASE open' \subseteq open
        BY <2>1
    <2>2. ASSUME NEW l \in 1..Len(phase), ConnectsAnew(c, t, u, l)
          PROVE  open' = open \cup {Len(home) + 1}
        BY <1>2, <2>2, AnewSessions DEF GetsSession
    <2>3. \A s \in 1..Len(home) : s # Len(home) + 1
        BY KeptShape DEF Kept, SessionsOK
    <2> QED
        BY <1>3, <2>1, <2>2, <2>3
           DEF Fate, Drops, Asks, SameSessions, ClosesClient, ClosesNothing,
               ClosesIt, ClosesThere, ClosesLast
<1>6. CASE x.task # c \/ u = t
    <2>1. tasks'[x.task] = tasks[x.task]
        BY <1>2, <1>3, <1>4, <1>6
    <2> QED
        BY <1>1, <1>4, <1>5, <2>1 DEF CloseFits
<1>7. CASE x.task = c /\ u # t
    <2>1. t.stage \in Ended \cup {"closing"}
        BY <1>2, <1>4, <1>7
    <2>2. CASE Drops(c, t, u)
        <3>1. t.stage = "closing"
            BY <2>1, <2>2 DEF Drops, Under
        <3>2. /\ NoneDo(queue, "cancel", c) /\ t.op = "aclose"
              /\ t.handle = Client
            BY <1>2, <3>1, OnlyCloser
        <3> QED
            BY <2>2, <3>2 DEF Drops
    <2>3. ASSUME NEW l \in 1..Len(phase), ClosesThere(c, t, u, l)
          PROVE  CloseFits(x, tasks', open')
        BY <1>1, <1>2, <1>3, <1>4, <1>7, <2>3 DEF ClosesThere, CloseFits
    <2>4. CASE ClosesLast(t, u)
        <3>1. /\ t.stage = "closing" /\ t.sent /\ open' = open
              /\ u.stage # "closing"
            BY <2>4 DEF ClosesLast, Quits, Ended
        <3>2. ClosesFit(t, session[Client], authenticated[Client], open)
            BY <1>2 DEF OpenOK
        <3>3. x.via = t.via
            BY <1>1, <1>2, <1>4, <1>7, <3>1 DEF CloseFits
        <3> QED
            BY <1>1, <1>3, <1>7, <3>1, <3>2, <3>3 DEF CloseFits, ClosesFit
    <2> QED
        BY <1>3, <2>1, <2>2, <2>3, <2>4
           DEF Fate, Asks, ConnectsAnew, ClosesClient, Asking, Ended
<1> QED
    BY <1>6, <1>7

LEMMA ClosesGoOn ==
    ASSUME Kept, TurnsOK, RunsOK, LeftOK, OpenOK,
           NEW c \in 1..Len(tasks), NEW u, Fate(c, tasks[c], u),
           NEW m \in 1..Len(phase), NEW x \in Of(queue'[m])
    PROVE  CloseFits(x, tasks', open')
<1>1. CASE x \in Of(queue[m])
    BY <1>1, CloseStaysFit
<1>2. CASE NoMore
    BY <1>1, <1>2 DEF NoMore
<1>3. CASE x.do # "close"
    BY <1>3 DEF CloseFits
<1>4. PICK t : t = tasks[c]
    OBVIOUS
<1>5. Fate(c, t, u) /\ tasks'[c] = u
    BY <1>4 DEF Fate, Turned
<1>6. ASSUME NEW o, NEW y, Sends(o, y), y.do = "close", y.task = c,
             y.via = u.via, u.stage = "closing"
      PROVE  CloseFits(x, tasks', open')
    BY <1>1, <1>5, <1>6 DEF Sends, CloseFits
<1>7. ASSUME NEW o, NEW y, Sends(o, y), y.do = "request"
      PROVE  CloseFits(x, tasks', open')
    BY <1>1, <1>3, <1>7 DEF Sends
<1>8. CASE Asks(c, t, u)
    BY <1>2, <1>7, <1>8 DEF Asks, Forwarded
<1>9. CASE \E l \in 1..Len(phase) : ClosesClient(c, t, u, l)
    BY <1>2, <1>6, <1>9 DEF ClosesClient, ClosesNothing, ClosesIt
<1> QED
    BY <1>2, <1>5, <1>8, <1>9
       DEF Fate, Drops, ConnectsAnew, ClosesThere, ClosesLast

\* While close() ends its loop nothing connects the client.
LEMMA GoneConnectsNot ==
    ASSUME Kept, TurnsOK, LeftOK,
           NEW a \in Callers, Gone(call[a], tasks),
           NEW c \in 1..Len(tasks), Under(tasks[c]),
           tasks[c].op = "connect"
    PROVE  FALSE
<1>1. /\ call[a].pc \in {"closing", "stop", "join"}
      /\ Cleared(call[a], tasks)
    BY DEF Gone, Cleared, Under, Handed, Ended
<1>2. ~Mine(call[a], c)
    BY DEF Gone, Mine, Waits
<1>3. ASSUME NEW b \in Callers, Mine(call[b], c)
      PROVE  FALSE
    <2>1. ~At(a, "idle") /\ ~At(b, "idle")
        BY <1>1, <1>3 DEF At, Mine, Waits
    <2> QED
        BY <1>2, <1>3, <2>1 DEF TurnsOK
<1>4. PICK b \in Callers : Undoes(call[b], tasks[c])
    BY <1>3 DEF LeftOK, LeftOver
<1>5. b = a
    <2>1. ~At(a, "idle") /\ ~At(b, "idle")
        BY <1>1, <1>4 DEF At, Undoes
    <2> QED
        BY <2>1 DEF TurnsOK
<1>6. Clears(call[a], c, tasks) /\ tasks[c].loop = call[a].loop
    BY <1>4, <1>5 DEF LeftOK, Undoes
<1> QED
    BY <1>1, <1>2, <1>6 DEF Clears

\* What the coroutine of close() has done once it has ended.
LEMMA GoneGoesOn ==
    ASSUME Kept, TurnsOK, RunsOK, LeftOK, OpenOK, call' = call,
           NEW c \in 1..Len(tasks), NEW t, t = tasks[c], NEW u,
           Fate(c, t, u), NEW a \in Callers, Gone(call[a], tasks')
    PROVE  session'[Client] = None
<1>1. /\ tasks'[c] = u
      /\ \A d \in 1..Len(tasks) : d # c => tasks'[d] = tasks[d]
    BY DEF Fate, Turned
<1>2. CASE Gone(call[a], tasks)
    <2>1. session[Client] = None
        BY <1>2 DEF OpenOK
    <2>2. CASE session' = session
        BY <2>1, <2>2
    <2>3. CASE Forgotten
        BY <2>3, ForgottenSessions
    <2>4. ASSUME NEW l \in 1..Len(phase), ConnectsAnew(c, t, u, l)
          PROVE  FALSE
        <3>1. GetsSession(t, l)
            BY <2>4, AnewSessions
        <3> QED
            BY <1>2, <3>1, GoneConnectsNot DEF GetsSession
    <2> QED
        BY <2>2, <2>3, <2>4
           DEF Fate, Drops, Asks, SameSessions, ClosesClient, ClosesNothing,
               ClosesIt, ClosesThere, ClosesLast
<1>3. CASE ~Gone(call[a], tasks)
    <2>1. /\ call[a].pc = "closing" /\ call[a].handle = Client
          /\ Under(tasks[call[a].task]) /\ ~Under(tasks'[call[a].task])
        BY <1>3 DEF Gone
    <2>2. /\ call[a].task = Len(tasks)
          /\ tasks[call[a].task].op = "aclose"
          /\ tasks[call[a].task].handle = Client
          /\ NoneDo(queue, "cancel", call[a].task)
        BY <2>1 DEF RunsOK, OwnTask, Waits, Runs
    <2>3. call[a].task \in 1..Len(tasks)
        BY <2>2, KeptShape
    <2>4. call[a].task = c
        BY <1>1, <2>1, <2>3
    <2>5. /\ Under(t) /\ ~Under(u) /\ t.op = "aclose" /\ t.handle = Client
          /\ NoneDo(queue, "cancel", c)
        BY <1>1, <2>1, <2>2, <2>4
    <2>6. Forgotten
        BY <2>5
           DEF Fate, Drops, Asks, ConnectsAnew, ClosesClient, ClosesNothing,
               ClosesIt, ClosesThere, ClosesLast, Under, Asking, Ended
    <2> QED
        BY <2>6, ForgottenSessions
<1> QED
    BY <1>2, <1>3

LEMMA OpenGoesOn ==
    ASSUME Kept, TurnsOK, RunsOK, LeftOK, OpenOK, GoOnStep
    PROVE  OpenOK'
<1>1. PICK p : p = phase'
    OBVIOUS
<1>2. p = phase /\ phase' = phase /\ call' = call /\ live' = live
    BY <1>1, GoingOn DEF GoesOnBy
<1>3. CASE Idles
    <2>1. /\ UNCHANGED <<tasks, home, open, session, authenticated>>
          /\ \A m \in 1..Len(phase) : Of(queue'[m]) \subseteq Of(queue[m])
        BY <1>3 DEF Idles, NoMore
    <2>2. Referred' /\ HomeRuns'
        BY <1>2, <2>1 DEF OpenOK, Referred, HomeRuns
    <2>3. /\ \A l \in 1..Len(p) : \A x \in Of(queue'[l]) :
                 CloseFits(x, tasks, open)
          /\ \A c \in 1..Len(tasks) :
                 ClosesFit(tasks[c], session[Client], authenticated[Client],
                           open)
          /\ \A a \in Callers :
                 Gone(call[a], tasks) => session[Client] = None
        BY <1>2, <2>1 DEF OpenOK
    <2> QED
        BY <1>1, <1>2, <2>1, <2>2, <2>3 DEF OpenOK
<1>4. ASSUME NEW c \in 1..Len(tasks), NEW u \in Tasks,
             Fate(c, tasks[c], u)
      PROVE  OpenOK'
    <2>1. Len(tasks') = Len(tasks)
        BY <1>4 DEF Fate, Turned
    <2>2. PICK t : t = tasks[c]
        OBVIOUS
    <2>3. Referred' /\ HomeRuns'
        BY <1>2, <1>4, <2>2, ReferredGoesOn, HomeRunsOn
    <2>4. \A d \in 1..Len(tasks') :
              ClosesFit(tasks'[d], session'[Client], authenticated'[Client],
                        open')
        BY <1>4, <2>1, ClosersGoOn
    <2>5. \A m \in 1..Len(p) : \A x \in Of(queue'[m]) :
              CloseFits(x, tasks', open')
        BY <1>2, <1>4, ClosesGoOn
    <2>6. \A a \in Callers :
              Gone(call'[a], tasks') => session'[Client] = None
        BY <1>2, <1>4, <2>2, GoneGoesOn
    <2> QED
        BY <1>1, <2>3, <2>4, <2>5, <2>6 DEF OpenOK
<1> QED
    BY <1>3, <1>4, HowItGoes

LEMMA InitOpen ==
    ASSUME Init
    PROVE  OpenOK
<1>1. /\ Len(tasks) = 0 /\ Len(phase) = 1 /\ queue[1] = <<>> /\ open = {}
      /\ \A a \in Callers : call[a].pc = "idle"
    BY DEF Init, NoCall
<1>2. Of(<<>>) = {}
    BY DEF Of
<1> QED
    BY <1>1, <1>2 DEF OpenOK, Referred, HomeRuns, Gone

LEMMA OpenKeeps ==
    ASSUME Kept, Careful, TurnsOK, RunsOK, SyncOK, LeftOK, OpenOK,
           [Next]_vars
    PROVE  OpenOK'
BY OtherStays, OpenStays, OpenGoesOn, NextKeeps

\* Callers that take turns: an open session has a client or a view that refers
\* to it, the client's is on a loop that runs, and only the client's own
\* aclose() closes it, which stops it being authenticated before; once close()
\* has come to stop its loop the client has none (qclient.py, aclose and
\* close).
THEOREM CarefulSessionsAreReferredTo == Spec => [](Careful => OpenOK)
<1>1. Init => (Careful => OpenOK)
    BY InitOpen
<1>2. /\ Kept /\ (Careful => TurnsOK) /\ (Careful => RunsOK)
      /\ (Careful => SyncOK) /\ (Careful => LeftOK) /\ (Careful => OpenOK)
      /\ [Next]_vars
      => (Careful => OpenOK)'
    BY OpenKeeps, CarefulStays
<1> QED
    BY <1>1, <1>2, KeptAlways, CarefulCallersTakeTurns,
       CarefulCallersWaitForTheirOwn, CarefulCellsDoNotBlockTheirLoop,
       WhatIsLeftIsCancelledFirst, PTL DEF Spec

\* With callers that take turns, between calls every open session is one that
\* the client or a view refers to, and every loop that is not closed is the
\* client's or the application's (qclient.py, close and aclose).
THEOREM NothingIsEverLeaked == Spec => []NothingIsLeaked
<1>1. (Careful => TurnsOK) /\ (Careful => OpenOK) /\ Kept => NothingIsLeaked
    <2>1. SUFFICES ASSUME Careful, Quiet, TurnsOK, OpenOK, Kept
                   PROVE  /\ open \subseteq {session[h] :
                                                h \in live \cup {Client}}
                          /\ \A l \in DOMAIN phase \ {App} :
                                Closed(l) \/ loopThread[Client] = l
        BY DEF NothingIsLeaked
    <2>2. open \subseteq {session[h] : h \in live \cup {Client}}
        BY <2>1 DEF OpenOK, Referred
    <2>3. ASSUME NEW l \in DOMAIN phase, l # App
          PROVE  Closed(l) \/ loopThread[Client] = l
        <3>1. l \in 1..Len(phase)
            BY <2>1, <2>3, KeptShape
        <3>2. \A a \in Callers : call[a].pc = "idle"
            BY <2>1 DEF Quiet, At
        <3> QED
            BY <2>1, <2>3, <3>1, <3>2 DEF TurnsOK, LoopFits, Ends, Closed
    <2> QED
        BY <2>2, <2>3
<1> QED
    BY <1>1, KeptAlways, CarefulCallersTakeTurns,
       CarefulSessionsAreReferredTo, PTL

-----------------------------------------------------------------------------
(* A client that says it is authenticated is connected, or is about to be  *)
(* closed.                                                                 *)

\* A connect() of the client asks on the session the client has.
Connecting(t, s, O) ==
    (t.op = "connect" /\ t.handle = Client /\ t.stage \in Asking /\ t.sent) =>
        t.via = s /\ s \in O

ConnectedOrClosed ==
    authenticated[Client] =>
        \/ resource[Client] /\ session[Client] \in open
        \/ \E a \in Callers : WillClose(call[a], tasks)

ConnectOK ==
    /\ \A c \in 1..Len(tasks) : Connecting(tasks[c], session[Client], open)
    /\ ConnectedOrClosed

LEMMA ConnectStays ==
    ASSUME ConnectOK, Stays
    PROVE  ConnectOK'
<1>1. /\ open' = open /\ session'[Client] = session[Client]
      /\ authenticated'[Client] = authenticated[Client]
      /\ resource'[Client] = resource[Client]
    BY DEF Stays, SameClient
<1>2. ASSUME NEW c \in 1..Len(tasks')
      PROVE  Connecting(tasks'[c], session[Client], open)
    <2>1. CASE c \in 1..Len(tasks) /\ tasks'[c] = tasks[c]
        BY <2>1 DEF ConnectOK
    <2>2. CASE tasks'[c].stage \notin Asking
        BY <2>2 DEF Connecting
    <2> QED
        BY <1>2, <2>1, <2>2 DEF Stays, NoneAsks
<1>3. ConnectedOrClosed'
    BY <1>1 DEF ConnectOK, ConnectedOrClosed, Stays, CloseStays
<1> QED
    BY <1>1, <1>2, <1>3 DEF ConnectOK

\* A session.close() that nobody waits for has nothing to close.
LEMMA ClosesNone ==
    ASSUME Kept, OpenOK, NEW c \in 1..Len(tasks), NEW t, t = tasks[c], NEW u,
           NEW l \in 1..Len(phase), ClosesThere(c, t, u, l),
           t.stage # "closing"
    PROVE  open' = open /\ session' = session
<1>1. /\ queue[l] # <<>> /\ Is(Head(queue[l]), "close", c)
      /\ open' = open \ {Head(queue[l]).via} /\ session' = session
    BY DEF ClosesThere
<1>2. CloseFits(Head(queue[l]), tasks, open)
    BY <1>1, HeadCloses
<1> QED
    BY <1>1, <1>2 DEF CloseFits, Is

\* The client's session stays as it is and open when a view connects anew.
LEMMA OtherAnew ==
    ASSUME Kept, RunsOK, LeftOK, NEW c \in 1..Len(tasks), NEW t,
           t = tasks[c], NEW u, NEW l \in 1..Len(phase),
           ConnectsAnew(c, t, u, l),
           t.handle # Client \/ authenticated[Client]
               \/ session[Client] \in open
    PROVE  session'[Client] = session[Client] /\ open \subseteq open'
<1>1. GetsSession(t, l) /\ Client \in Handles
    BY AnewSessions DEF Handles
<1> QED
    BY <1>1 DEF GetsSession

\* A connect() that is not the coroutine that goes on.
LEMMA OthersConnect ==
    ASSUME Kept, TurnsOK, RunsOK, LeftOK, OpenOK, ConnectOK,
           NEW c \in 1..Len(tasks), NEW t, t = tasks[c], NEW u,
           Fate(c, t, u), NEW d \in 1..Len(tasks), d # c
    PROVE  Connecting(tasks[d], session'[Client], open')
<1>1. SUFFICES ASSUME tasks[d].op = "connect", tasks[d].handle = Client,
                      tasks[d].stage \in Asking, tasks[d].sent
               PROVE  /\ tasks[d].via = session'[Client]
                      /\ session'[Client] \in open'
    BY DEF Connecting
<1>2. tasks[d].via = session[Client] /\ session[Client] \in open
    BY <1>1 DEF ConnectOK, Connecting
<1>3. Under(tasks[d])
    BY <1>1 DEF Under, Asking, Ended
<1>4. t.stage # "closing"
    BY <1>1, <1>3, OnlyCloser
<1>5. CASE session' = session /\ open' = open
    BY <1>2, <1>5
<1>6. ASSUME NEW l \in 1..Len(phase), ConnectsAnew(c, t, u, l)
      PROVE  session'[Client] = session[Client] /\ open \subseteq open'
    BY <1>2, <1>6, OtherAnew
<1>7. ASSUME NEW l \in 1..Len(phase), ClosesClient(c, t, u, l)
      PROVE  FALSE
    <2>1. /\ queue[l] # <<>> /\ Is(Head(queue[l]), "step", c)
          /\ tasks[c].op = "aclose" /\ tasks[c].stage = "ready"
        BY <1>7 DEF ClosesClient
    <2>2. tasks[d].op = "request"
        BY <1>3, <2>1, OnlyAclose
    <2> QED
        BY <1>1, <2>2
<1>8. ASSUME NEW l \in 1..Len(phase), ClosesThere(c, t, u, l)
      PROVE  open' = open /\ session' = session
    BY <1>4, <1>8, ClosesNone
<1> QED
    BY <1>2, <1>4, <1>5, <1>6, <1>7, <1>8
       DEF Fate, Drops, Asks, SameSessions, ClosesLast

\* The coroutine that goes on.
LEMMA ItConnects ==
    ASSUME Kept, RunsOK, LeftOK,
           NEW c \in 1..Len(tasks), NEW t, t = tasks[c], NEW u,
           Fate(c, t, u)
    PROVE  Connecting(u, session'[Client], open')
<1>1. SUFFICES ASSUME u.op = "connect", u.handle = Client,
                      u.stage \in Asking, u.sent
               PROVE  u.via = session'[Client] /\ session'[Client] \in open'
    BY DEF Connecting
<1>2. CASE Asks(c, t, u)
    BY <1>1, <1>2
       DEF Asks, SameSessions, InPlace, Forwarded, Arrives, SameTask
<1>3. ASSUME NEW l \in 1..Len(phase), ConnectsAnew(c, t, u, l)
      PROVE  u.via = session'[Client] /\ session'[Client] \in open'
    <2>1. u.via = Len(home) + 1 /\ t.handle = Client
        BY <1>1, <1>3 DEF ConnectsAnew, SameTask
    <2>2. GetsSession(t, l) /\ Client \in Handles
        BY <1>3, AnewSessions DEF Handles
    <2> QED
        BY <2>1, <2>2 DEF GetsSession
<1> QED
    BY <1>1, <1>2, <1>3
       DEF Fate, Drops, ClosesClient, ClosesNothing, ClosesIt, ClosesThere,
           ClosesLast, Quits, Asking, Ended, Under

\* The session of a client that stays authenticated stays open.
LEMMA StaysConnected ==
    ASSUME Kept, RunsOK, LeftOK, OpenOK,
           NEW c \in 1..Len(tasks), NEW t, t = tasks[c], NEW u,
           Fate(c, t, u), authenticated[Client], authenticated'[Client],
           session[Client] \in open
    PROVE  session'[Client] \in open'
<1>1. t.stage # "closing"
    BY DEF OpenOK, ClosesFit
<1>2. ASSUME NEW l \in 1..Len(phase), ConnectsAnew(c, t, u, l)
      PROVE  session'[Client] \in open'
    BY <1>2, OtherAnew
<1>3. ASSUME NEW l \in 1..Len(phase), ClosesThere(c, t, u, l)
      PROVE  session'[Client] \in open'
    <2>1. open' = open /\ session' = session
        BY <1>1, <1>3, ClosesNone
    <2> QED
        BY <2>1
<1> QED
    BY <1>1, <1>2, <1>3
       DEF Fate, Drops, Asks, SameSessions, ClosesClient, ClosesLast

\* A call that is going to close the client still is, unless its connect() has
\* come through.
LEMMA StillCloses ==
    ASSUME Kept, RunsOK, RunsOK', LeftOK, OpenOK, ConnectOK,
           NEW c \in 1..Len(tasks), NEW t, t = tasks[c], NEW u,
           Fate(c, t, u), authenticated[Client], authenticated'[Client],
           NEW a \in Callers, WillClose(call[a], tasks)
    PROVE  \/ WillClose(call[a], tasks')
           \/ resource'[Client] /\ session'[Client] \in open'
<1>1. /\ tasks'[c] = u /\ Len(tasks') = Len(tasks)
      /\ \A d \in 1..Len(tasks) : d # c => tasks'[d] = tasks[d]
    BY DEF Fate, Turned
<1>2. PICK k : k = call[a]
    OBVIOUS
<1>3. k.handle = Client /\ WillClose(k, tasks)
    BY <1>2 DEF WillClose
<1>4. CASE k.op = "connect" /\ (k.pc = "close" \/
                                (k.pc = "read" /\ k.loop # None))
    BY <1>2, <1>3, <1>4 DEF WillClose
<1>5. CASE k.pc \in Waits
    <2>1. OwnTask(k, tasks, queue) /\ k.task \in 1..Len(tasks)
        BY <1>2, <1>5, KeptShape DEF RunsOK, OwnTask
    <2>2. CASE tasks'[k.task] = tasks[k.task]
        BY <1>2, <1>3, <2>2 DEF WillClose
    <2>3. CASE k.task = c /\ u # t
        <3>1. /\ Under(t) /\ t.handle = Client /\ t.op = Runs(k)
              /\ NoneDo(queue, "cancel", c)
            <4>1. Under(t)
                BY <2>3
                   DEF Fate, Drops, Asks, ConnectsAnew, ClosesClient,
                       ClosesThere, ClosesLast, Under, Asking, Ended
            <4> QED
                BY <1>3, <1>5, <2>1, <2>3, <4>1 DEF OwnTask
        <3>2. CASE /\ k.op = "connect" /\ k.pc \in {"wait", "await"}
                   /\ t.stage \in {"resource", "raised", "cancelled"}
            <4>1. t.stage = "resource" /\ t.op = "connect"
                BY <3>1, <3>2 DEF Under, Ended, Runs, Coroutine
            <4>2. CASE u.stage \in {"resource", "raised", "cancelled"}
                BY <1>1, <1>2, <1>3, <2>3, <3>2, <4>2 DEF WillClose
            <4>3. CASE t.sent /\ resource'[Client]
                <5>1. Connecting(t, session[Client], open)
                    BY DEF ConnectOK
                <5>2. session[Client] \in open
                    BY <3>1, <4>1, <4>3, <5>1 DEF Connecting, Asking
                <5> QED
                    BY <4>3, <5>2, StaysConnected
            <4> QED
                BY <3>1, <4>1, <4>2, <4>3 DEF Fate, Fares
        <3>3. CASE /\ k.pc \in {"closing", "unwind"}
                   /\ t.stage \in Handed \cup {"ready"}
            <4>1. t.op = "aclose"
                BY <3>1, <3>3 DEF Runs
            <4>2. Kind(u)
                BY <1>1 DEF RunsOK, Reached
            <4>3. ~Asks(c, t, u)
                <5>1. SUFFICES ASSUME u.stage \in Asking, u.op = "aclose"
                               PROVE  FALSE
                    BY <4>1
                       DEF Asks, InPlace, Forwarded, Arrives, SameTask
                <5> QED
                    BY <4>2, <5>1 DEF Kind, Asking, Ended
            <4> QED
                BY <3>1, <3>3, <4>1, <4>3
                   DEF Fate, Drops, ConnectsAnew, ClosesClient, ClosesThere,
                       ClosesLast, Handed
        <3> QED
            BY <1>3, <1>5, <2>3, <3>2, <3>3 DEF WillClose, Waits
    <2> QED
        BY <1>1, <2>1, <2>2, <2>3
<1> QED
    BY <1>3, <1>4, <1>5 DEF WillClose, Waits

\* A client that becomes authenticated: its connect() is waited for, or was
\* interrupted and is being undone.
LEMMA NewlyConnected ==
    ASSUME Kept, RunsOK, LeftOK,
           NEW c \in 1..Len(tasks), NEW t, t = tasks[c], NEW u,
           Fate(c, t, u), ~authenticated[Client], authenticated'[Client]
    PROVE  \E a \in Callers : WillClose(call[a], tasks')
<1>1. /\ tasks'[c] = u
      /\ \A d \in 1..Len(tasks) : d # c => tasks'[d] = tasks[d]
    BY DEF Fate, Turned
<1>2. /\ t.stage = "auth" /\ t.handle = Client
      /\ u.stage \in {"resource", "raised"}
    BY DEF Fate, Fares
<1>3. Under(t) /\ t.op = "connect"
    BY <1>2 DEF Under, Ended, RunsOK, Reached, Kind
<1>4. ASSUME NEW a \in Callers, Mine(call[a], c)
      PROVE  WillClose(call[a], tasks')
    <2>1. PICK k : k = call[a]
        OBVIOUS
    <2>2. k.task = c /\ k.pc \in Waits /\ OwnTask(k, tasks, queue)
        BY <1>4, <2>1 DEF Mine, RunsOK
    <2>3. k.handle = Client /\ Runs(k) = "connect"
        BY <1>2, <1>3, <2>2 DEF OwnTask
    <2>4. k.pc \in {"wait", "await"} /\ k.op = "connect"
        BY <2>2, <2>3 DEF Runs, Waits, Coroutine
    <2> QED
        BY <1>1, <1>2, <2>1, <2>2, <2>3, <2>4 DEF WillClose
<1>5. ASSUME \A a \in Callers : ~Mine(call[a], c)
      PROVE  \E a \in Callers : WillClose(call[a], tasks')
    <2>1. LeftOver(c, t, call, queue)
        BY DEF LeftOK
    <2>2. PICK a \in Callers : Undoes(call[a], t)
        BY <1>3, <1>5, <2>1 DEF LeftOver
    <2>3. PICK k : k = call[a]
        OBVIOUS
    <2>4. /\ k.op = "connect" /\ k.pc \in {"read", "close", "closing"}
          /\ k.handle = Client /\ k.loop = t.loop
        BY <1>2, <2>2, <2>3 DEF Undoes
    <2>5. k.loop # None
        BY <2>4, TaskShape, LoopsShape
    <2>6. CASE k.pc \in {"read", "close"}
        BY <2>3, <2>4, <2>5, <2>6 DEF WillClose
    <2>7. CASE k.pc = "closing"
        <3>1. Clears(k, c, tasks) /\ ~Mine(k, c)
            BY <1>5, <2>3 DEF LeftOK
        <3>2. tasks[k.task].stage \in Handed \cup {"ready"}
            BY <1>3, <2>4, <2>7, <3>1 DEF Clears, Cleared
        <3>3. k.task \in 1..Len(tasks)
            BY <2>3, <2>7, KeptShape DEF RunsOK, OwnTask, Waits
        <3>4. tasks'[k.task] = tasks[k.task]
            BY <1>1, <1>2, <3>2, <3>3 DEF Handed
        <3> QED
            BY <2>3, <2>4, <2>7, <3>2, <3>4 DEF WillClose
    <2> QED
        BY <2>4, <2>6, <2>7
<1> QED
    BY <1>4, <1>5

LEMMA ConnectGoesOn ==
    ASSUME Kept, TurnsOK, RunsOK, RunsOK', LeftOK, OpenOK, ConnectOK,
           GoOnStep
    PROVE  ConnectOK'
<1>1. call' = call
    BY GoingOn DEF GoesOnBy
<1>2. CASE Idles
    <2>1. UNCHANGED <<tasks, open, session, authenticated, resource>>
        BY <1>2 DEF Idles
    <2> QED
        BY <1>1, <2>1 DEF ConnectOK, ConnectedOrClosed
<1>3. ASSUME NEW c \in 1..Len(tasks), NEW u \in Tasks,
             Fate(c, tasks[c], u)
      PROVE  ConnectOK'
    <2>1. PICK t : t = tasks[c]
        OBVIOUS
    <2>2. Fate(c, t, u)
        BY <1>3, <2>1
    <2>3. /\ tasks'[c] = u /\ Len(tasks') = Len(tasks)
          /\ \A d \in 1..Len(tasks) : d # c => tasks'[d] = tasks[d]
        BY <2>2 DEF Fate, Turned
    <2>4. ASSUME NEW d \in 1..Len(tasks)
          PROVE  Connecting(tasks'[d], session'[Client], open')
        <3>1. CASE d = c
            BY <2>1, <2>2, <2>3, <3>1, ItConnects
        <3>2. CASE d # c
            <4>1. Connecting(tasks[d], session'[Client], open')
                BY <2>1, <2>2, <3>2, OthersConnect
            <4> QED
                BY <2>3, <3>2, <4>1
        <3> QED
            BY <3>1, <3>2
    <2>5. ConnectedOrClosed'
        <3>1. SUFFICES ASSUME authenticated'[Client]
                       PROVE  \/ /\ resource'[Client]
                                 /\ session'[Client] \in open'
                              \/ \E a \in Callers :
                                     WillClose(call[a], tasks')
            BY <1>1 DEF ConnectedOrClosed
        <3>2. CASE ~authenticated[Client]
            BY <2>1, <2>2, <3>1, <3>2, NewlyConnected
        <3>3. CASE /\ authenticated[Client] /\ resource[Client]
                   /\ session[Client] \in open
            <4>1. session'[Client] \in open'
                BY <2>1, <2>2, <3>1, <3>3, StaysConnected
            <4> QED
                BY <2>2, <3>3, <4>1 DEF Fate, Fares
        <3>4. ASSUME authenticated[Client],
                     NEW a \in Callers, WillClose(call[a], tasks)
              PROVE  \/ WillClose(call[a], tasks')
                     \/ resource'[Client] /\ session'[Client] \in open'
            BY <2>1, <2>2, <3>1, <3>4, StillCloses
        <3> QED
            BY <3>2, <3>3, <3>4 DEF ConnectOK, ConnectedOrClosed
    <2> QED
        BY <2>3, <2>4, <2>5 DEF ConnectOK
<1> QED
    BY <1>2, <1>3, HowItGoes

LEMMA InitConnect ==
    ASSUME Init
    PROVE  ConnectOK
<1>1. Len(tasks) = 0 /\ ~authenticated[Client]
    BY DEF Init, Handles
<1> QED
    BY <1>1 DEF ConnectOK, ConnectedOrClosed

LEMMA ConnectKeeps ==
    ASSUME Kept, Careful, TurnsOK, RunsOK, SyncOK, LeftOK, OpenOK, ConnectOK,
           [Next]_vars
    PROVE  ConnectOK'
BY OtherStays, ConnectStays, ConnectGoesOn, RunsKeep

\* Callers that take turns: a connect() of the client asks on the session that
\* the client has, and once its token is accepted the client is connected, or
\* the call under way closes it if the rest fails (qclient.py, _connect,
\* connect and __aenter__).
THEOREM CarefulClientsAreConnectedOrClosed == Spec => [](Careful => ConnectOK)
<1>1. Init => (Careful => ConnectOK)
    BY InitConnect
<1>2. /\ Kept /\ (Careful => TurnsOK) /\ (Careful => RunsOK)
      /\ (Careful => SyncOK) /\ (Careful => LeftOK) /\ (Careful => OpenOK)
      /\ (Careful => ConnectOK) /\ [Next]_vars
      => (Careful => ConnectOK)'
    BY ConnectKeeps, CarefulStays
<1> QED
    BY <1>1, <1>2, KeptAlways, CarefulCallersTakeTurns,
       CarefulCallersWaitForTheirOwn, CarefulCellsDoNotBlockTheirLoop,
       WhatIsLeftIsCancelledFirst, CarefulSessionsAreReferredTo,
       PTL DEF Spec

\* With callers that take turns, between calls a client that says it is
\* authenticated has its resource, and its session is open on a loop that runs
\* (qclient.py, connect, aclose and close).
THEOREM AuthenticatedIsAlwaysConnected == Spec => []AuthenticatedIsConnected
<1>1. (Careful => ConnectOK) /\ (Careful => OpenOK) /\ Kept =>
          AuthenticatedIsConnected
    <2>1. SUFFICES ASSUME Careful, Quiet, authenticated[Client],
                          ConnectOK, OpenOK, Kept
                   PROVE  /\ resource[Client] /\ session[Client] \in open
                          /\ phase[Owner(Client)] = "running"
        BY DEF AuthenticatedIsConnected
    <2>2. \A a \in Callers : ~WillClose(call[a], tasks)
        BY <2>1 DEF Quiet, At, WillClose
    <2>3. resource[Client] /\ session[Client] \in open
        BY <2>1, <2>2 DEF ConnectOK, ConnectedOrClosed
    <2>4. Owner(Client) = home[session[Client]]
        BY <2>1, <2>3, SessionShape DEF Owner
    <2> QED
        BY <2>1, <2>3, <2>4 DEF OpenOK, HomeRuns
<1> QED
    BY <1>1, KeptAlways, CarefulClientsAreConnectedOrClosed,
       CarefulSessionsAreReferredTo, PTL

=============================================================================
