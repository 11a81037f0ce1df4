---------------------------- MODULE FabricServer ----------------------------
(***************************************************************************)
(* The server side of connection set-up in the libfabric transport         *)
(* (net/fabric/src/fabric_server_generic_factory.cpp, pending_cnxns.cpp,   *)
(* open_cnxns.cpp).                                                        *)
(*                                                                         *)
(* Three kinds of actor:                                                   *)
(*  - the listener thread (std::async in the constructor): listen() makes  *)
(*    the control socket, then listen_loop() waits in pselect on the       *)
(*    control socket, the event-queue fd and the end pipe, accepts control *)
(*    connections (sending each client the passive endpoint's name) and    *)
(*    reads one event per wake-up from the event queue, whose CONNREQs the *)
(*    factory's cb() pushes on _pending;                                   *)
(*  - the server thread, which polls get_new_endpoint_unconnected(), opens *)
(*    each endpoint (open_connection, waiting for FI_CONNECTED), closes    *)
(*    connections and finally runs the destructor;                         *)
(*  - clients, which connect to the control socket, receive the name and   *)
(*    send a connection request.                                           *)
(*                                                                         *)
(* EdgeTriggered says how the event-queue fd signals.  FALSE: it is        *)
(* readable while the queue holds an event.  TRUE: it is signalled by each *)
(* arrival and pselect consumes the signal, as the note in Fabric::wait_eq *)
(* (fabric.cpp:300-302) observes; libfabric requires fi_trywait before     *)
(* blocking on the fd, which listen_loop never calls.                      *)
(***************************************************************************)
EXTENDS Naturals, Sequences, SequencesExt

CONSTANTS
    Clients,        \* client processes
    EdgeTriggered,  \* BOOLEAN: the event-queue fd signals edges only
    ListenMayFail,  \* BOOLEAN: make_listener / fi_listen may throw
    CbMayFail,      \* BOOLEAN: constructing a fabric_endpoint_server may throw
    None            \* no endpoint

Fds == {"listen", "eq", "end"}
Event == [kind : {"connreq", "connected"}, c : Clients]


VARIABLES
    lpc,        \* listener thread: "start", "select", "accept", "read_eq", "failed", "exited"
    ready,      \* fds pselect reported readable in this iteration
    run,        \* listen_loop's run
    backlog,    \* control connections not yet accepted
    eq,         \* the fabric event queue (this factory's events)
    eqSignal,   \* the event-queue fd is signalled (edge mode)
    pending,    \* _pending: clients whose unconnected endpoint awaits the server
    dispatched, \* clients whose server endpoint has received FI_CONNECTED
    open,       \* _open: open connections
    cstate,     \* client: "idle", "connecting", "named", "requested"
    spc,        \* server thread: "poll", "open", "expect", "thrown", "join", "done"
    aep,        \* the endpoint the server thread is opening
    endw,       \* the destructor has written the end pipe
    lexc,       \* _listen_exception is set
    everOpen,   \* ghost: clients whose connection was opened
    dropped     \* ghost: clients whose CONNREQ cb swallowed

vars == <<lpc, ready, run, backlog, eq, eqSignal, pending, dispatched, open,
          cstate, spc, aep, endw, lexc, everOpen, dropped>>

TypeOK ==
    /\ lpc \in {"start", "select", "accept", "read_eq", "failed", "exited"}
    /\ ready \subseteq Fds /\ run \in BOOLEAN
    /\ backlog \subseteq Clients
    /\ eq \in Seq(Event) /\ eqSignal \in BOOLEAN
    /\ pending \in Seq(Clients)
    /\ dispatched \subseteq Clients /\ open \subseteq Clients
    /\ cstate \in [Clients -> {"idle", "connecting", "named", "requested"}]
    /\ spc \in {"poll", "open", "expect", "thrown", "join", "done"}
    /\ aep \in Clients \cup {None}
    /\ endw \in BOOLEAN /\ lexc \in BOOLEAN
    /\ dropped \subseteq Clients

Init ==
    /\ lpc = "start" /\ ready = {} /\ run = TRUE
    /\ backlog = {} /\ eq = <<>> /\ eqSignal = FALSE
    /\ pending = <<>> /\ dispatched = {} /\ open = {}
    /\ cstate = [c \in Clients |-> "idle"]
    /\ spc = "poll" /\ aep = None
    /\ endw = FALSE /\ lexc = FALSE /\ everOpen = {} /\ dropped = {}

\* An event arrives on the queue and signals its fd.
Post(e) == eq' = Append(eq, e) /\ eqSignal' = TRUE

EqReadable == IF EdgeTriggered THEN eqSignal ELSE eq # <<>>

\* The fds pselect would report readable now.
Readable ==
    {f \in Fds : /\ f = "listen" => backlog # {}
                 /\ f = "eq" => EqReadable
                 /\ f = "end" => endw}

-----------------------------------------------------------------------------
(***************************************************************************)
(* The listener thread.                                                    *)
(***************************************************************************)
\* listen(), lines 178-200: make_listener and fi_listen may throw; the catch
\* stores the exception in _listen_exception and the thread ends.
listen ==
    /\ lpc = "start"
    /\ \/ lpc' = "select" /\ UNCHANGED lexc
       \/ ListenMayFail /\ lpc' = "failed" /\ lexc' = TRUE
    /\ UNCHANGED <<ready, run, backlog, eq, eqSignal, pending, dispatched, open,
                   cstate, spc, aep, endw, everOpen, dropped>>

\* pselect with the end pipe left out of the read set.
pselect_no_end ==
    /\ lpc = "select"
    /\ LET r == Readable \ {"end"}
       IN  /\ r # {}
           /\ ready' = r /\ run' = TRUE
           /\ eqSignal' = (eqSignal /\ ~("eq" \in r /\ EdgeTriggered))
    /\ lpc' = "accept"
    /\ UNCHANGED <<backlog, eq, pending, dispatched, open, cstate, spc, aep,
                   endw, lexc, everOpen, dropped>>

\* listen_loop, lines 203-235: pselect blocks until one of the three fds
\* is readable (its error returns change nothing and are left out); the
\* loop will end after this iteration if the end pipe is readable.
pselect ==
    /\ lpc = "select"
    /\ LET r == Readable
       IN  /\ r # {}
           /\ ready' = r /\ run' = ("end" \notin r)
           /\ eqSignal' = (eqSignal /\ ~("eq" \in r /\ EdgeTriggered))
    /\ lpc' = "accept"
    /\ UNCHANGED <<backlog, eq, pending, dispatched, open, cstate, spc, aep,
                   endw, lexc, everOpen, dropped>>

\* lines 236-262: accept one control connection and send it the name of
\* the passive endpoint (Fd_control::send_name).
accept ==
    /\ lpc = "accept"
    /\ IF "listen" \in ready
         THEN \E c \in backlog :
                /\ backlog' = backlog \ {c}
                /\ cstate' = [cstate EXCEPT ![c] = "named"]
         ELSE UNCHANGED <<backlog, cstate>>
    /\ lpc' = "read_eq"
    /\ UNCHANGED <<ready, run, eq, eqSignal, pending, dispatched, open, spc,
                   aep, endw, lexc, everOpen, dropped>>

\* read_eq dispatching only to passive endpoints (no aep lookup).
read_eq_pep_only ==
    /\ lpc = "read_eq"
    /\ IF "eq" \in ready /\ eq # <<>>
         THEN LET e == Head(eq) IN
              /\ eq' = Tail(eq)
              /\ pending' = IF e.kind = "connreq" THEN Append(pending, e.c) ELSE pending
              /\ UNCHANGED dispatched
         ELSE UNCHANGED <<eq, pending, dispatched>>
    /\ lpc' = IF run THEN "select" ELSE "exited"
    /\ UNCHANGED <<ready, run, backlog, eqSignal, open, cstate, spc, aep, endw,
                   lexc, everOpen, dropped>>

(***************************************************************************)
(* Fabric_server_generic_factory::cb, lines 99-118, on an event of the     *)
(* passive endpoint: a CONNREQ becomes a fabric_endpoint_server pushed on  *)
(* _pending under _m_pending.  If constructing the endpoint throws         *)
(* (fi_endpoint, memory), the catch only logs: the request is neither      *)
(* queued nor rejected.  cb ignores other events; the passive endpoint    *)
(* receives none in the model.                                             *)
(***************************************************************************)
cb(e) ==
    \/ /\ pending' = Append(pending, e.c)
       /\ UNCHANGED dropped
    \/ /\ CbMayFail
       /\ dropped' = dropped \cup {e.c}
       /\ UNCHANGED pending

(***************************************************************************)
(* Fabric::read_eq, fabric.cpp:366-409: an event read from the queue goes  *)
(* to the consumer registered for its fid in _eq_dispatch_pep, else in     *)
(* _eq_dispatch_aep.  A CONNREQ names the factory's passive endpoint; an   *)
(* FI_CONNECTED names the active endpoint the server thread is opening,    *)
(* which is registered before it accepts.                                  *)
(***************************************************************************)
Dispatch(e) ==
    \/ /\ e.kind = "connreq"
       /\ cb(e)
       /\ UNCHANGED dispatched
    \/ /\ e.kind = "connected"
       /\ dispatched' = dispatched \cup {e.c}
       /\ UNCHANGED <<pending, dropped>>

(***************************************************************************)
(* lines 263-287 and Fabric::read_eq (fabric.cpp:341-424): fi_eq_read      *)
(* takes one event (FI_EAGAIN on an empty queue changes nothing).  An      *)
(* event of the passive endpoint goes to the factory's cb (lines 99-115),  *)
(* which pushes a new unconnected endpoint on _pending; any other goes to  *)
(* the active endpoint it names.  Then the loop goes round or ends.        *)
(***************************************************************************)
read_eq ==
    /\ lpc = "read_eq"
    /\ IF "eq" \in ready /\ eq # <<>>
         THEN /\ eq' = Tail(eq)
              /\ Dispatch(Head(eq))
         ELSE UNCHANGED <<eq, pending, dispatched, dropped>>
    /\ lpc' = IF run THEN "select" ELSE "exited"
    /\ UNCHANGED <<ready, run, backlog, eqSignal, open, cstate, spc, aep, endw,
                   lexc, everOpen>>

-----------------------------------------------------------------------------
(***************************************************************************)
(* The server thread.                                                      *)
(***************************************************************************)
\* get_new_endpoint_unconnected with Pending_cnxns::remove taking the front
\* without popping it.
get_new_endpoint_peek ==
    /\ spc = "poll"
    /\ \/ lexc /\ spc' = "thrown" /\ UNCHANGED <<pending, aep>>
       \/ /\ pending # <<>>
          /\ aep' = Head(pending) /\ UNCHANGED pending
          /\ spc' = "open"
    /\ UNCHANGED <<lpc, ready, run, backlog, eq, eqSignal, dispatched, open,
                   cstate, endw, lexc, everOpen, dropped>>

(***************************************************************************)
(* get_new_endpoint_unconnected, lines 289-298, and Pending_cnxns::remove. *)
(* _listen_exception is read without synchronisation while the listener   *)
(* may write it (a data race); the model orders each read before or after  *)
(* the store, and never lets a read after it see the old value.  A call    *)
(* that finds _pending empty returns nullptr and changes nothing.          *)
(***************************************************************************)
get_new_endpoint_unconnected ==
    /\ spc = "poll"
    /\ \/ lexc /\ spc' = "thrown" /\ UNCHANGED <<pending, aep>>
       \/ /\ pending # <<>>
          /\ aep' = Head(pending) /\ pending' = Tail(pending)
          /\ spc' = "open"
    /\ UNCHANGED <<lpc, ready, run, backlog, eq, eqSignal, dispatched, open,
                   cstate, endw, lexc, everOpen, dropped>>

\* Fabric_server_factory::open_connection (fabric_server_factory.cpp:30-36):
\* the new Fabric_server accepts the request; the provider answers with
\* FI_CONNECTED on the event queue.
open_connection ==
    /\ spc = "open"
    /\ Post([kind |-> "connected", c |-> aep])
    /\ spc' = "expect"
    /\ UNCHANGED <<lpc, ready, run, backlog, pending, dispatched, open, cstate,
                   aep, endw, lexc, everOpen, dropped>>

\* open_connection_generic, lines 301-305: expect_event(FI_CONNECTED)
\* waits until the listener has dispatched the event, then _open.add.
open_connection_generic ==
    /\ spc = "expect" /\ aep \in dispatched
    /\ open' = open \cup {aep}
    /\ everOpen' = everOpen \cup {aep}
    /\ spc' = "poll" /\ aep' = None
    /\ UNCHANGED <<lpc, ready, run, backlog, eq, eqSignal, pending, dispatched,
                   cstate, endw, lexc, dropped>>

\* close_connection, lines 312-315, and Open_cnxns::remove.
close_connection(c) ==
    /\ spc = "poll" /\ c \in open
    /\ open' = open \ {c}
    /\ UNCHANGED <<lpc, ready, run, backlog, eq, eqSignal, pending, dispatched,
                   cstate, spc, aep, endw, lexc, everOpen, dropped>>

\* The destructor, lines 69-86: write one byte to the end pipe, then
\* _listener.get() waits for the listener thread (its exception is caught).
destroy ==
    /\ spc \in {"poll", "thrown"}
    /\ endw' = TRUE /\ spc' = "join"
    /\ UNCHANGED <<lpc, ready, run, backlog, eq, eqSignal, pending, dispatched,
                   open, cstate, aep, lexc, everOpen, dropped>>

join ==
    /\ spc = "join" /\ lpc \in {"failed", "exited"}
    /\ spc' = "done"
    /\ UNCHANGED <<lpc, ready, run, backlog, eq, eqSignal, pending, dispatched,
                   open, cstate, aep, endw, lexc, everOpen, dropped>>

-----------------------------------------------------------------------------
(***************************************************************************)
(* Clients (their side of the protocol is other processes' code).          *)
(***************************************************************************)
client_connect(c) ==
    /\ cstate[c] = "idle"
    /\ cstate' = [cstate EXCEPT ![c] = "connecting"]
    /\ backlog' = backlog \cup {c}
    /\ UNCHANGED <<lpc, ready, run, eq, eqSignal, pending, dispatched, open,
                   spc, aep, endw, lexc, everOpen, dropped>>

client_request(c) ==
    /\ cstate[c] = "named"
    /\ cstate' = [cstate EXCEPT ![c] = "requested"]
    /\ Post([kind |-> "connreq", c |-> c])
    /\ UNCHANGED <<lpc, ready, run, backlog, pending, dispatched, open, spc,
                   aep, endw, lexc, everOpen, dropped>>

\* The factory is gone and the listener has stopped.
Terminated ==
    /\ spc = "done"
    /\ UNCHANGED vars

Listener == listen \/ pselect \/ accept \/ read_eq
Server == get_new_endpoint_unconnected \/ open_connection \/ open_connection_generic

Next ==
    \/ Listener \/ Server
    \/ \E c \in Clients : close_connection(c) \/ client_connect(c) \/ client_request(c)
    \/ destroy \/ join
    \/ Terminated

(***************************************************************************)
(* Fairness: the listener is a thread of its own, so each of its steps     *)
(* that stays enabled is eventually taken; the server thread polls         *)
(* get_new_endpoint_unconnected in a loop (unit_test/                      *)
(* server_grouped_connection.cpp:23) and opens what it gets.  Clients,     *)
(* closes and the destructor are choices, with no fairness.                *)
(***************************************************************************)
Fairness ==
    /\ WF_vars(listen) /\ WF_vars(pselect) /\ WF_vars(accept) /\ WF_vars(read_eq)
    /\ WF_vars(Server) /\ WF_vars(join)

Spec == Init /\ [][Next]_vars /\ Fairness

-----------------------------------------------------------------------------
\* Every connection request a client sends is eventually opened by the
\* server, unless the factory is being destroyed, the listener failed, or
\* cb swallowed that request: the listener reads the request into _pending,
\* the server takes and accepts it, and the listener dispatches the
\* FI_CONNECTED it waits for, and a failed request does not hold up others.
ConnectionEstablished ==
    \A c \in Clients :
        cstate[c] = "requested" ~> (c \in everOpen \/ c \in dropped \/ endw \/ lexc)

\* Where a client's request is: still on the event queue, in _pending, being
\* opened by the server thread, opened, or swallowed by cb.
Copies(c) ==
    Len(SelectSeq(eq, LAMBDA e : e = [kind |-> "connreq", c |-> c]))
    + Len(SelectSeq(pending, LAMBDA x : x = c))
    + (IF aep = c THEN 1 ELSE 0)
    + (IF c \in everOpen THEN 1 ELSE 0)
    + (IF c \in dropped THEN 1 ELSE 0)

\* A connection request is in exactly one place at any time: the event
\* queue, _pending, the server's hands, the open set, or swallowed by cb.  cb, the two
\* mutex-protected queues and open_connection hand it on without losing or
\* duplicating it, whatever the listener and server threads interleave.
RequestAccountedOnce ==
    \A c \in Clients : cstate[c] = "requested" => Copies(c) = 1

\* Once the destructor has written the end pipe, the listener thread
\* ends, so _listener.get() returns.
ShutdownCompletes ==
    endw ~> (lpc \in {"failed", "exited"})

=============================================================================
