--------------------------- MODULE QClientSession ---------------------------
(***************************************************************************)
(* The life of a QClient of src/qheappe_client/qclient.py: the HTTP        *)
(* session, the event loop it is bound to, the loop thread behind the      *)
(* synchronous API, the views that share them, and the callers that        *)
(* connect, request, bind and close, on a thread of their own or as        *)
(* coroutines of an application's event loop (a notebook cell).            *)
(*                                                                         *)
(* An event loop runs its callbacks in the order they were scheduled, and  *)
(* a coroutine is cut where it waits for the network.                      *)
(***************************************************************************)
EXTENDS Naturals, Sequences, FiniteSets

CONSTANTS
    Threads,      \* callers with a thread of their own: the synchronous API
    Cells,        \* callers on the application's event loop: both APIs
    Client,       \* the connected client
    Views,        \* what bind() may return
    None,
    Scenarios,    \* sets of things that may happen in one behaviour
    MaxCalls,     \* bounds on the calls in a behaviour, of callers that take
    MaxOverlapping \* turns and of callers that do not

\* A request fails; Ctrl-C in a synchronous call, or in close(); a coroutine
\* is cancelled; a caller does not wait for the call of another.
Mishaps == {"http", "interrupt", "interrupt close", "cancel", "overlap"}

ASSUME SessionAssumption ==
    /\ Threads \cap Cells = {}
    /\ Client \notin Views
    /\ None \notin Views \cup {Client}
    /\ None \notin Nat
    /\ Scenarios \subseteq SUBSET Mishaps
    /\ MaxCalls \in Nat /\ MaxOverlapping \in Nat

Callers == Threads \cup Cells
Handles == {Client} \cup Views

VARIABLES
    \* event loops, in the order they were made; the first is the application's
    phase,          \* how far each has come
    queue,          \* the callbacks scheduled on each
    \* HTTP sessions, in the order they were made
    home,           \* the loop each is bound to
    open,           \* those that are not closed
    \* the fields of the client and of its views
    loopThread, authenticated, session, resource,
    live,           \* the views that bind() has returned
    \* coroutines handed to a loop, in the order they were
    tasks,
    \* where each caller is, and how many calls there were
    call, calls,
    \* what may go wrong
    mishaps

loopVars == <<phase, queue>>
sessionVars == <<home, open>>
fields == <<loopThread, authenticated, session, resource, live>>
callVars == <<call, calls, mishaps>>
vars == <<phase, queue, home, open, loopThread, authenticated, session,
          resource, live, tasks, call, calls, mishaps>>

May(mishap) == mishap \in mishaps

\* The callers take turns, and let close() run to its end.
Careful == ~May("overlap") /\ ~May("interrupt close")

-----------------------------------------------------------------------------
(* Event loops. *)

App == 1

\* The caller is inside a synchronous call: its thread does nothing else.
Blocking(a) == call[a].pc \notin {"idle", "await", "unwind"}

Closed(l) == phase[l] = "closed"

\* Whether the loop thread of a field takes work.
Alive(l) == l # None /\ ~Closed(l)

\* A loop takes callbacks until it is closed, also while it winds down; the
\* application's does not while a cell of it blocks.
Turning(l) ==
    /\ phase[l] \in {"running", "stopping", "draining"}
    /\ l = App => \A a \in Cells : ~Blocking(a)

Callback(do, c) == [do |-> do, task |-> c, via |-> None]

Closing(c, s) == [do |-> "close", task |-> c, via |-> s]

Holds(l, do) ==
    /\ Turning(l)
    /\ queue[l] # <<>>
    /\ Head(queue[l]).do = do

Rest(l) == [queue EXCEPT ![l] = Tail(@)]

-----------------------------------------------------------------------------
(* Coroutines.  `loop' is the loop a coroutine runs on, `at' the one its   *)
(* request or its closing of the session runs on, once that is `sent', and *)
(* `via' the session used.                                                 *)

Task(op, h, l, stage) ==
    [op |-> op, handle |-> h, loop |-> l, stage |-> stage,
     at |-> l, sent |-> FALSE, via |-> None]

Ended == {"returned", "raised", "cancelled"}

\* Started on its loop, and waiting there for its turn or for the network.
Pending(c) ==
    tasks[c].stage \in {"ready", "auth", "resource", "request", "closing"}

\* Nothing but the outcome matters of a coroutine that has ended.
Over(how) == Task("none", Client, App, how)

End(c, how) == tasks' = [tasks EXCEPT ![c] = Over(how)]

Owner(h) == IF session[h] = None THEN None ELSE home[session[h]]

\* `_require_session' where the request runs, then the request itself.
Sent(t, stage, l) ==
    IF session[t.handle] \in open
    THEN [t EXCEPT !.stage = stage, !.at = l, !.sent = TRUE,
                   !.via = session[t.handle]]
    ELSE Over("raised")

\* mutant: every request in place, as if a session had no loop
RequestInPlace(c, stage, q) ==
    /\ tasks' = [tasks EXCEPT ![c] = Sent(tasks[c], stage, tasks[c].loop)]
    /\ queue' = q

\* A request: in place when this loop owns the session or nobody does,
\* otherwise forwarded to the loop that does.
Request(c, stage, q) ==
    LET t == tasks[c]
        owner == Owner(t.handle)
    IN  \/ /\ owner \in {None, t.loop}
           /\ tasks' = [tasks EXCEPT ![c] = Sent(t, stage, t.loop)]
           /\ queue' = q
        \/ /\ owner \notin {None, t.loop}
           /\ Closed(owner)
           /\ End(c, "raised")
           /\ queue' = q
        \/ /\ owner \notin {None, t.loop}
           /\ ~Closed(owner)
           /\ tasks' = [tasks EXCEPT ![c].stage = stage, ![c].at = owner,
                                     ![c].sent = FALSE]
           /\ queue' = [q EXCEPT ![owner] = Append(@, Callback("request", c))]

-----------------------------------------------------------------------------
(* The first turn of each coroutine. *)

\* _connect: done if connected before; otherwise with the session there is,
\* or with a new one bound to this loop.
ConnectAgain(c, l) ==
    /\ authenticated[tasks[c].handle]
    /\ End(c, "returned")
    /\ queue' = Rest(l)
    /\ UNCHANGED <<home, open, session>>

ConnectAnew(c, l) ==
    LET h == tasks[c].handle
        s == Len(home) + 1
    IN  /\ ~authenticated[h]
        /\ session[h] \notin open
        /\ home' = Append(home, l)
        /\ open' = open \cup {s}
        /\ session' = [session EXCEPT ![h] = s]
        /\ tasks' = [tasks EXCEPT ![c].stage = "auth", ![c].sent = TRUE,
                                  ![c].via = s]
        /\ queue' = Rest(l)

ConnectReusing(c, l) ==
    /\ ~authenticated[tasks[c].handle]
    /\ session[tasks[c].handle] \in open
    /\ Request(c, "auth", Rest(l))
    /\ UNCHANGED <<home, open, session>>

Connect(c, l) ==
    /\ tasks[c].op = "connect"
    /\ \/ ConnectAgain(c, l)
       \/ ConnectAnew(c, l)
       \/ ConnectReusing(c, l)
    /\ UNCHANGED authenticated

\* aclose: a view only forgets; the session is closed on its own loop, and
\* given up if that loop is gone.
CloseView(c, l) ==
    /\ tasks[c].handle # Client
    /\ End(c, "returned")
    /\ queue' = Rest(l)
    /\ UNCHANGED <<open, session>>

CloseNothing(c, l) ==
    /\ tasks[c].handle = Client
    /\ \/ session[Client] \notin open
       \/ /\ session[Client] \in open
          /\ Closed(Owner(Client))
    /\ session' = [session EXCEPT ![Client] = None]
    /\ End(c, "returned")
    /\ queue' = Rest(l)
    /\ UNCHANGED open

\* mutant: forgets the session without closing it
CloseHereForgetting(c, l) ==
    /\ tasks[c].handle = Client
    /\ session[Client] \in open
    /\ Owner(Client) = l
    /\ session' = [session EXCEPT ![Client] = None]
    /\ End(c, "returned")
    /\ queue' = Rest(l)
    /\ UNCHANGED open

CloseHere(c, l) ==
    /\ tasks[c].handle = Client
    /\ session[Client] \in open
    /\ Owner(Client) = l
    /\ open' = open \ {session[Client]}
    /\ tasks' = [tasks EXCEPT ![c].stage = "closing", ![c].sent = TRUE,
                              ![c].via = session[Client]]
    /\ queue' = Rest(l)
    /\ UNCHANGED session

\* mutant: session.close() is scheduled where aclose() runs
CloseWhereCalled(c, l) ==
    /\ tasks[c].handle = Client
    /\ session[Client] \in open
    /\ Owner(Client) # l
    /\ ~Closed(Owner(Client))
    /\ tasks' = [tasks EXCEPT ![c].stage = "closing",
                              ![c].via = session[Client]]
    /\ queue' = [queue EXCEPT ![l] =
                    Append(Tail(@), Closing(c, session[Client]))]
    /\ UNCHANGED <<open, session>>

CloseElsewhere(c, l) ==
    LET owner == Owner(Client)
    IN  /\ tasks[c].handle = Client
        /\ session[Client] \in open
        /\ owner # l
        /\ ~Closed(owner)
        /\ tasks' = [tasks EXCEPT ![c].stage = "closing", ![c].at = owner,
                                  ![c].via = session[Client]]
        /\ queue' = [Rest(l) EXCEPT ![owner] =
                        Append(@, Closing(c, session[Client]))]
        /\ UNCHANGED <<open, session>>

Close(c, l) ==
    /\ tasks[c].op = "aclose"
    /\ authenticated' = [authenticated EXCEPT ![tasks[c].handle] = FALSE]
    /\ \/ CloseView(c, l)
       \/ CloseNothing(c, l)
       \/ CloseHere(c, l)
       \/ CloseElsewhere(c, l)
    /\ UNCHANGED home

\* Any other call: _validate_backend, and a request on the session.
Validated(h) == authenticated[h] /\ resource[h]

Use(c, l) ==
    LET h == tasks[c].handle
    IN  /\ tasks[c].op = "request"
        /\ \/ /\ Validated(h)
              /\ Request(c, "request", Rest(l))
           \/ /\ ~Validated(h)
              /\ End(c, "raised")
              /\ queue' = Rest(l)
        /\ UNCHANGED <<home, open, session, authenticated>>

-----------------------------------------------------------------------------
(* The turns of a loop. *)

\* run_coroutine_threadsafe: the callback makes the task, whose first step is
\* a callback of its own; a caller that gave up before has it cancelled then.
Start(l) ==
    LET c == Head(queue[l]).task
        step == Callback("step", c)
    IN  /\ Holds(l, "start")
        /\ queue' = [queue EXCEPT ![l] =
             Tail(@) \o (IF tasks[c].stage = "dropped"
                         THEN <<step, Callback("cancel", c)>> ELSE <<step>>)]
        /\ tasks' = [tasks EXCEPT ![c].stage = "ready"]
        /\ UNCHANGED <<phase, sessionVars, fields, callVars>>

Step(l) ==
    LET c == Head(queue[l]).task
    IN  /\ Holds(l, "step")
        /\ tasks[c].stage = "ready"
        /\ \/ Connect(c, l)
           \/ Close(c, l)
           \/ Use(c, l)
        /\ UNCHANGED <<phase, loopThread, resource, live, callVars>>

Cancel(l) ==
    LET c == Head(queue[l]).task
    IN  /\ Holds(l, "cancel")
        /\ queue' = Rest(l)
        /\ IF Pending(c) THEN End(c, "cancelled") ELSE UNCHANGED tasks
        /\ UNCHANGED <<phase, sessionVars, fields, callVars>>

\* What a coroutine of another loop sent here: a request, or session.close(),
\* which has closed the session by the time its sender can be cancelled.
ForwardedRequest(l) ==
    LET c == Head(queue[l]).task
    IN  /\ Holds(l, "request")
        /\ queue' = Rest(l)
        /\ tasks' = IF Pending(c)
                    THEN [tasks EXCEPT ![c] = Sent(@, @.stage, l)]
                    ELSE tasks
        /\ UNCHANGED <<phase, sessionVars, fields, callVars>>

ForwardedClose(l) ==
    LET c == Head(queue[l]).task
    IN  /\ Holds(l, "close")
        /\ queue' = Rest(l)
        /\ open' = open \ {Head(queue[l]).via}
        /\ tasks' = IF Pending(c)
                    THEN [tasks EXCEPT ![c].sent = TRUE] ELSE tasks
        /\ UNCHANGED <<phase, home, fields, callVars>>

\* A step of a task that was cancelled meanwhile.
SkipStep(l) ==
    /\ Holds(l, "step")
    /\ tasks[Head(queue[l]).task].stage # "ready"
    /\ queue' = Rest(l)
    /\ UNCHANGED <<phase, sessionVars, fields, tasks, callVars>>

\* loop.close() drops what is scheduled.
Shut(l) ==
    /\ phase' = [phase EXCEPT ![l] = "closed"]
    /\ queue' = [queue EXCEPT ![l] = <<>>]

\* loop.stop(): run_forever ends with this round of callbacks; winding down
\* ends as it is.
Stop(l) ==
    /\ Holds(l, "stop")
    /\ \/ /\ phase[l] = "draining"
          /\ Shut(l)
       \/ /\ phase[l] # "draining"
          /\ phase' = [phase EXCEPT ![l] = "stopping"]
          /\ queue' = Rest(l)
    /\ UNCHANGED <<sessionVars, fields, tasks, callVars>>

\* _main after run_forever: everything under way here is cancelled, ...
Drain(l) ==
    /\ phase[l] = "stopping"
    /\ phase' = [phase EXCEPT ![l] = "draining"]
    /\ tasks' = [c \in DOMAIN tasks |->
          IF /\ Pending(c)
             /\ tasks[c].loop = l \/ (tasks[c].sent /\ tasks[c].at = l)
          THEN Over("cancelled") ELSE tasks[c]]
    /\ UNCHANGED <<queue, sessionVars, fields, callVars>>

\* ... and the loop is closed once that is done, with whatever came since.
CloseLoop(l) ==
    /\ phase[l] = "draining"
    /\ Shut(l)
    /\ UNCHANGED <<sessionVars, fields, tasks, callVars>>

LoopStep(l) ==
    \/ Start(l)  \/ Step(l)  \/ SkipStep(l)  \/ Cancel(l)
    \/ ForwardedRequest(l)  \/ ForwardedClose(l)
    \/ Stop(l)  \/ Drain(l)  \/ CloseLoop(l)

-----------------------------------------------------------------------------
(* Answers from the network. *)

Answered(c) ==
    /\ Pending(c)
    /\ tasks[c].sent
    /\ Turning(tasks[c].at)
    /\ Turning(tasks[c].loop)

\* The token and the project are accepted; the resource is asked for next.
Authenticate(c) ==
    /\ Answered(c)
    /\ tasks[c].stage = "auth"
    /\ authenticated' = [authenticated EXCEPT ![tasks[c].handle] = TRUE]
    /\ Request(c, "resource", queue)
    /\ UNCHANGED <<phase, sessionVars, loopThread, session, resource, live,
                   callVars>>

\* The resource is known; clusters that cannot be reached do not matter.
FindResource(c) ==
    /\ Answered(c)
    /\ tasks[c].stage = "resource"
    /\ resource' = [resource EXCEPT ![tasks[c].handle] = TRUE]
    /\ End(c, "returned")
    /\ UNCHANGED <<loopVars, sessionVars, loopThread, authenticated, session,
                   live, callVars>>

Serve(c) ==
    /\ Answered(c)
    /\ tasks[c].stage = "request"
    /\ End(c, "returned")
    /\ UNCHANGED <<loopVars, sessionVars, fields, callVars>>

\* An error, or the session was closed under the request.
Refuse(c) ==
    /\ Answered(c)
    /\ tasks[c].stage \in {"auth", "resource", "request"}
    /\ May("http") \/ tasks[c].via \notin open
    /\ End(c, "raised")
    /\ UNCHANGED <<loopVars, sessionVars, fields, callVars>>

\* The connections of the session are gone.
FinishClosing(c) ==
    /\ Answered(c)
    /\ tasks[c].stage = "closing"
    /\ session' = [session EXCEPT ![Client] = None]
    /\ End(c, "returned")
    /\ UNCHANGED <<loopVars, sessionVars, loopThread, authenticated, resource,
                   live, callVars>>

Network(c) ==
    \/ Authenticate(c)  \/ FindResource(c)  \/ Serve(c)
    \/ Refuse(c)  \/ FinishClosing(c)

-----------------------------------------------------------------------------
(* Callers.  A synchronous call is cut where another thread may come        *)
(* between; a cell's own coroutine is not, except where it waits.           *)

NoCall == [pc |-> "idle", op |-> "none", handle |-> Client, task |-> 0,
           loop |-> None]

At(a, pc) == call[a].pc = pc

GoTo(a, pc) == call' = [call EXCEPT ![a].pc = pc]

Return(a) == call' = [call EXCEPT ![a] = NoCall]

MayCall(a, h) ==
    /\ At(a, "idle")
    /\ calls < IF May("overlap") THEN MaxOverlapping ELSE MaxCalls
    /\ h \in live \cup {Client}
    /\ a \in Cells => Turning(App)
    /\ May("overlap") \/ \A b \in Callers : At(b, "idle")

Called(a, op, h, pc) ==
    /\ MayCall(a, h)
    /\ calls' = calls + 1
    /\ call' = [call EXCEPT ![a] = [pc |-> pc, op |-> op, handle |-> h,
                                    task |-> 0, loop |-> None]]

\* A synchronous method, bind() or connect() among them; close().
Call(a, op, h) ==
    /\ op = "bind" => live # Views
    /\ Called(a, op, h, IF op = "close" THEN "read" ELSE "enter")
    /\ UNCHANGED <<loopVars, sessionVars, fields, tasks, mishaps>>

\* Where a call that failed goes: connect() closes the client.
Fail(a) == IF call[a].op = "connect" THEN GoTo(a, "read") ELSE Return(a)

\* mutant: no _check_sync_allowed
SyncAlwaysAllowed(a, h) == TRUE

\* _check_sync_allowed: not from the loop that has to serve the request.
SyncAllowed(a, h) == a \in Cells => Owner(h) # App

\* _run: is there a loop thread?
Enter(a) ==
    LET h == call[a].handle
    IN  /\ At(a, "enter")
        /\ \/ /\ SyncAllowed(a, h)
              /\ loopThread[h] # None
              /\ GoTo(a, "submit")
           \/ /\ SyncAllowed(a, h)
              /\ loopThread[h] = None
              /\ h = Client
              /\ GoTo(a, "create")
           \/ /\ \/ ~SyncAllowed(a, h)
                 \/ (loopThread[h] = None /\ h # Client)
              /\ Fail(a)
        /\ UNCHANGED <<loopVars, sessionVars, fields, tasks, calls, mishaps>>

CreateLoop(a) ==
    /\ At(a, "create")
    /\ phase' = Append(phase, "running")
    /\ queue' = Append(queue, <<>>)
    /\ loopThread' = [loopThread EXCEPT ![Client] = Len(phase) + 1]
    /\ GoTo(a, "submit")
    /\ UNCHANGED <<sessionVars, authenticated, session, resource, live, tasks,
                   calls, mishaps>>

\* mutant: the callback is scheduled for the next coroutine
HandOverNext(a, op, h, l, pc) ==
    /\ tasks' = Append(tasks, Task(op, h, l, "queued"))
    /\ queue' = [queue EXCEPT ![l] =
                    Append(@, Callback("start", Len(tasks) + 2))]
    /\ call' = [call EXCEPT ![a].pc = pc, ![a].task = Len(tasks) + 1,
                            ![a].loop = l]

\* run: the coroutine is handed to the loop, whose end this thread awaits.
HandOver(a, op, h, l, pc) ==
    /\ tasks' = Append(tasks, Task(op, h, l, "queued"))
    /\ queue' = [queue EXCEPT ![l] =
                    Append(@, Callback("start", Len(tasks) + 1))]
    /\ call' = [call EXCEPT ![a].pc = pc, ![a].task = Len(tasks) + 1,
                            ![a].loop = l]

Coroutine(op) == IF op = "connect" THEN "connect" ELSE "request"

Submit(a) ==
    LET h == call[a].handle
        l == loopThread[h]
    IN  /\ At(a, "submit")
        /\ \/ /\ Alive(l)
              /\ HandOver(a, Coroutine(call[a].op), h, l, "wait")
           \/ /\ ~Alive(l)
              /\ Fail(a)
              /\ UNCHANGED <<queue, tasks>>
        /\ UNCHANGED <<phase, sessionVars, fields, calls, mishaps>>

Done(a) == tasks[call[a].task].stage \in Ended

Succeeded(a) == tasks[call[a].task].stage = "returned"

\* bind(): a shallow copy.
Copy(h, v) ==
    /\ live' = live \cup {v}
    /\ loopThread' = [loopThread EXCEPT ![v] = loopThread[h]]
    /\ authenticated' = [authenticated EXCEPT ![v] = authenticated[h]]
    /\ session' = [session EXCEPT ![v] = session[h]]
    /\ resource' = [resource EXCEPT ![v] = resource[h]]

\* The result; bind() copies the fields of the client as they are now.
Finish(a) ==
    /\ At(a, "wait")
    /\ Done(a)
    /\ \/ /\ Succeeded(a)
          /\ call[a].op # "bind"
          /\ Return(a)
          /\ UNCHANGED fields
       \/ /\ ~Succeeded(a)
          /\ Fail(a)
          /\ UNCHANGED fields
       \/ /\ Succeeded(a)
          /\ call[a].op = "bind"
          /\ Return(a)
          /\ \E v \in Views \ live : Copy(call[a].handle, v)
    /\ UNCHANGED <<loopVars, sessionVars, tasks, calls, mishaps>>

\* fut.cancel(): the task is cancelled on its loop, or as soon as it is one.
GiveUp(c) ==
    \/ /\ tasks[c].stage = "queued"
       /\ tasks' = [tasks EXCEPT ![c].stage = "dropped"]
       /\ UNCHANGED queue
    \/ /\ tasks[c].stage # "queued"
       /\ queue' = IF Closed(tasks[c].loop) THEN queue
                   ELSE [queue EXCEPT ![tasks[c].loop] =
                            Append(@, Callback("cancel", c))]
       /\ UNCHANGED tasks

\* Ctrl-C while the caller waits for its result.
Interrupt(a) ==
    /\ May("interrupt")
    /\ At(a, "wait")
    /\ ~Done(a)
    /\ GiveUp(call[a].task)
    /\ Fail(a)
    /\ UNCHANGED <<phase, sessionVars, fields, calls, mishaps>>

-----------------------------------------------------------------------------
(* close(). *)

ReadLoop(a) ==
    LET h == call[a].handle
    IN  /\ At(a, "read")
        /\ IF loopThread[h] = None \/ (h = Client /\ ~SyncAllowed(a, h))
           THEN Return(a)
           ELSE call' = [call EXCEPT ![a].pc = "close",
                                     ![a].loop = loopThread[h]]
        /\ UNCHANGED <<loopVars, sessionVars, fields, tasks, calls, mishaps>>

\* mutant: closing a view stops the loop too
AfterCloseOfAny(a) == GoTo(a, "stop")

\* Only the client stops the loop.
AfterClose(a) == IF call[a].handle = Client THEN GoTo(a, "stop") ELSE Return(a)

SubmitClose(a) ==
    LET h == call[a].handle
        l == call[a].loop
    IN  /\ At(a, "close")
        /\ loopThread' = [loopThread EXCEPT ![h] = None]
        /\ \/ /\ ~Closed(l)
              /\ HandOver(a, "aclose", h, l, "closing")
           \/ /\ Closed(l)
              /\ AfterClose(a)
              /\ UNCHANGED <<queue, tasks>>
        /\ UNCHANGED <<phase, sessionVars, authenticated, session, resource,
                       live, calls, mishaps>>

FinishClose(a) ==
    /\ At(a, "closing")
    /\ Done(a)
    /\ AfterClose(a)
    /\ UNCHANGED <<loopVars, sessionVars, fields, tasks, calls, mishaps>>

InterruptClose(a) ==
    /\ May("interrupt close")
    /\ At(a, "closing")
    /\ ~Done(a)
    /\ GiveUp(call[a].task)
    /\ AfterClose(a)
    /\ UNCHANGED <<phase, sessionVars, fields, calls, mishaps>>

StopLoop(a) ==
    LET l == call[a].loop
    IN  /\ At(a, "stop")
        /\ GoTo(a, "join")
        /\ queue' = IF Closed(l) THEN queue
                    ELSE [queue EXCEPT ![l] = Append(@, Callback("stop", 0))]
        /\ UNCHANGED <<phase, sessionVars, fields, tasks, calls, mishaps>>

Join(a) ==
    /\ At(a, "join")
    /\ Closed(call[a].loop)
    /\ Return(a)
    /\ UNCHANGED <<loopVars, sessionVars, fields, tasks, calls, mishaps>>

-----------------------------------------------------------------------------
(* The asynchronous API: the coroutine is part of the cell's task. *)

Begin(a, op, h) ==
    /\ tasks' = Append(tasks, Task(op, h, App, "ready"))
    /\ queue' = [queue EXCEPT ![App] =
                    Append(@, Callback("step", Len(tasks) + 1))]

\* `async with' (connect), a method, or aclose().
Await(a, op, h) ==
    /\ MayCall(a, h)
    /\ calls' = calls + 1
    /\ call' = [call EXCEPT ![a] = [pc |-> "await", op |-> op, handle |-> h,
                                    task |-> Len(tasks) + 1, loop |-> App]]
    /\ Begin(a, op, h)
    /\ UNCHANGED <<phase, sessionVars, fields, mishaps>>

\* Back in the cell.  __aenter__ and create() close what failed to connect.
Resume(a) ==
    LET unwinds == At(a, "await") /\ call[a].op = "connect" /\ ~Succeeded(a)
    IN  /\ At(a, "await") \/ At(a, "unwind")
        /\ Done(a)
        /\ Turning(App)
        /\ \/ /\ ~unwinds
              /\ Return(a)
              /\ UNCHANGED <<queue, tasks>>
           \/ /\ unwinds
              /\ Begin(a, "aclose", call[a].handle)
              /\ call' = [call EXCEPT ![a].pc = "unwind",
                                      ![a].task = Len(tasks) + 1]
        /\ UNCHANGED <<phase, sessionVars, fields, calls, mishaps>>

\* The cell is cancelled (a timeout of its own) where it waits.
CancelCell(a) ==
    /\ May("cancel")
    /\ At(a, "await")
    /\ Pending(call[a].task)
    /\ tasks[call[a].task].op # "aclose"
    /\ Turning(App)
    /\ End(call[a].task, "cancelled")
    /\ UNCHANGED <<loopVars, sessionVars, fields, callVars>>

-----------------------------------------------------------------------------
Init ==
    /\ phase = <<"running">>
    /\ queue = << <<>> >>
    /\ home = <<>>
    /\ open = {}
    /\ loopThread = [h \in Handles |-> None]
    /\ authenticated = [h \in Handles |-> FALSE]
    /\ session = [h \in Handles |-> None]
    /\ resource = [h \in Handles |-> FALSE]
    /\ live = {}
    /\ tasks = <<>>
    /\ call = [a \in Callers |-> NoCall]
    /\ calls = 0
    /\ mishaps \in Scenarios

\* A call under way goes on; to call, to interrupt and to cancel is up to the
\* users.
Proceed(a) ==
    \/ Enter(a)  \/ CreateLoop(a)  \/ Submit(a)  \/ Finish(a)
    \/ ReadLoop(a)  \/ SubmitClose(a)  \/ FinishClose(a)
    \/ StopLoop(a)  \/ Join(a)  \/ Resume(a)

UserStep(a) ==
    \/ \E op \in {"connect", "request", "bind", "close"} :
          \E h \in Handles : Call(a, op, h)
    \/ Interrupt(a)
    \/ InterruptClose(a)

CellStep(a) ==
    \/ \E op \in {"connect", "request", "aclose"} :
          \E h \in Handles : Await(a, op, h)
    \/ CancelCell(a)

Next ==
    \/ \E a \in Callers : Proceed(a)
    \/ \E a \in Callers : UserStep(a)
    \/ \E a \in Cells : CellStep(a)
    \/ \E l \in DOMAIN phase : LoopStep(l)
    \/ \E c \in DOMAIN tasks : Network(c)

Spec == Init /\ [][Next]_vars

\* The machine does not stop while a thread or a loop has something to do or
\* an answer is due (every request has a timeout).  Which of them goes on is
\* left open: a behaviour has finitely many calls, and a call finitely many
\* steps.
SystemStep ==
    \/ \E a \in Callers : Proceed(a)
    \/ \E l \in DOMAIN phase : LoopStep(l)
    \/ \E c \in DOMAIN tasks : Network(c)

Fairness == WF_vars(SystemStep)

FairSpec == Spec /\ Fairness

-----------------------------------------------------------------------------
(* Properties. *)

\* The fields refer to loops and sessions that exist, and so do callbacks and
\* calls to coroutines; each loop has its queue of callbacks.
SessionTypeOK ==
    /\ phase \in Seq({"running", "stopping", "draining", "closed"})
    /\ Len(queue) = Len(phase)
    /\ \A l \in DOMAIN queue : \A i \in DOMAIN queue[l] :
          queue[l][i] \in
             [do : {"start", "step", "cancel", "request", "close", "stop"},
              task : 0..Len(tasks), via : (1..Len(home)) \cup {None}]
    /\ home \in Seq(1..Len(phase))
    /\ open \subseteq 1..Len(home)
    /\ loopThread \in [Handles -> (2..Len(phase)) \cup {None}]
    /\ authenticated \in [Handles -> BOOLEAN]
    /\ session \in [Handles -> (1..Len(home)) \cup {None}]
    /\ resource \in [Handles -> BOOLEAN]
    /\ live \subseteq Views
    /\ \A a \in Callers : call[a].task \in 0..Len(tasks)
    /\ calls \in Nat
    /\ mishaps \in SUBSET Mishaps

\* No call is under way and nothing a caller gave up is left to be done.
Quiet ==
    /\ \A a \in Callers : At(a, "idle")
    /\ \A l \in DOMAIN phase : Closed(l) \/ queue[l] = <<>>
    /\ \A c \in DOMAIN tasks : tasks[c].stage \in Ended

\* A client that says it is authenticated can serve a request: its resource is
\* known and its session is open on a running loop.  No failure of connect(),
\* no interrupt and no closing of a view may leave it in between.
AuthenticatedIsConnected ==
    (Careful /\ Quiet /\ authenticated[Client]) =>
        /\ resource[Client]
        /\ session[Client] \in open
        /\ phase[Owner(Client)] = "running"

\* Between calls every open session is one that a client still refers to, and
\* every loop thread that runs is the client's, to be stopped by close().
NothingIsLeaked ==
    (Careful /\ Quiet) =>
        /\ open \subseteq {session[h] : h \in live \cup {Client}}
        /\ \A l \in DOMAIN phase \ {App} :
              Closed(l) \/ loopThread[Client] = l

\* A session is closed on the loop it was made on, and so is it used by a
\* request that its coroutine makes in place: whoever calls, whatever fails,
\* and even if the callers do not take turns.
SessionKeepsItsLoop ==
    /\ \A c \in DOMAIN tasks :
          (/\ tasks[c].sent
           /\ tasks[c].stage = "closing" \/ tasks[c].at = tasks[c].loop) =>
              tasks[c].at = home[tasks[c].via]
    /\ \A l \in DOMAIN queue : \A i \in DOMAIN queue[l] :
          queue[l][i].do = "close" => home[queue[l][i].via] = l

\* A session is used on the loop it was made on and no other, whichever loop
\* the call came from, by callers that take turns.  (A forwarded request of
\* callers that do not may find another session than it was forwarded for.)
SessionIsUsedAtHome ==
    Careful => \A c \in DOMAIN tasks :
        tasks[c].sent => tasks[c].at = home[tasks[c].via]

\* Every call comes back to its caller: no loop waits for a thread that waits
\* for it, and what is handed to a loop is done, cancelled or refused.
EveryCarefulCallReturns ==
    \A a \in Callers : (Careful /\ ~At(a, "idle")) ~> At(a, "idle")

\* The same of all callers, as the docstring of run has it: it raises when
\* "the loop is already stopped".
EveryCallReturns ==
    \A a \in Callers : ~At(a, "idle") ~> At(a, "idle")

=============================================================================
