-------------------------------- MODULE Fcgi --------------------------------
(***************************************************************************)
(* One FastCGI connection of balde (src/src/sapi/fcgi.c): the server       *)
(* thread that reads records (balde_incoming_callback), the threads of the *)
(* application pool that answer requests (balde_handle_request), and the   *)
(* web server at the other end of the socket, which is external.           *)
(*                                                                         *)
(* The threads share the connection structure (mutex, mutex_cond, cond,    *)
(* the table of requests and the output stream) and the request            *)
(* structures.  A request structure is named by a value of Req, used for   *)
(* one allocation only, so that a dangling pointer is visible; the BEGIN   *)
(* record that makes the server allocate it carries the same value.        *)
(* A critical section of several calls is several steps; one whose effect  *)
(* is a single step is one action that needs the mutex to be free.  The    *)
(* sections of mutex_cond are all of this second kind.                     *)
(*                                                                         *)
(* Undefined behaviour is recorded in the variable fault, and the thread   *)
(* then goes on as if the memory were still there; with Recycle, the       *)
(* allocator may also overwrite the "processed" field of freed memory.     *)
(* A NULL dereference ends the process.                                    *)
(***************************************************************************)
EXTENDS Naturals, Sequences

CONSTANTS
    Req,        \* request structures (and the transactions that create them)
    Id,         \* FastCGI request ids the web server uses
    ManagementId, \* the id 0 of management records
    Worker,     \* threads of the application pool
    NoReq,      \* the NULL request
    NoOne,      \* owner of a free mutex
    Moves,      \* what the web server does, a subset of PeerMove
    Recycle,    \* TRUE if freed memory may be overwritten
    MaxWire,    \* bound: records in flight towards the server
    MaxData,    \* bound: PARAMS/STDIN records with data, per request
    MaxChunks,  \* bound: STDOUT records with data, per response
    MaxOut      \* bound: records written while a stray web server goes on

PeerMove == {"keep", "nokeep", "hangup", "management", "abort", "stray"}

ASSUME ConstantsAssumption ==
    /\ NoReq \notin Req
    /\ NoOne \notin Worker
    /\ ManagementId \notin Id
    /\ Moves \subseteq PeerMove
    /\ Recycle \in BOOLEAN
    /\ {MaxWire, MaxData, MaxChunks, MaxOut} \subseteq Nat

VARIABLES
    \* the web server
    wire,       \* records sent and not yet read, oldest first
    hungup,     \* it closed its end of the connection
    tx,         \* the transaction it last began on each id
    phase,      \* and how much of it has been sent
    used,       \* the transactions begun so far
    sent,       \* data records sent for each transaction
    \* the server thread
    pc, record, request,
    \* the connection
    mutex,      \* owner of conn->mutex
    requests,   \* conn->requests, the table of requests by id
    out,        \* what was written to conn->ostream
    \* the request structures
    life, rid, keep, size, processed,
    \* the application pool
    queue,      \* tasks pushed and not yet taken
    wpc, task,  \* what each thread is doing, and for which request
    left,       \* records of the response still to be written
    fault,      \* the undefined behaviours that happened
    pushed      \* history: the requests handed to the pool

peerVars   == <<hungup, tx, phase, used, sent>>
serverVars == <<pc, record, request>>
memVars    == <<life, rid, keep, size, processed>>
poolVars   == <<wpc, task, left>>
vars == <<wire, peerVars, serverVars, mutex, requests, out, memVars, queue,
          poolVars, fault, pushed>>

-----------------------------------------------------------------------------
(* Records.                                                                *)

RecId == Id \cup {ManagementId}
Role  == {"RESPONDER", "UNSUPPORTED", "OTHER"}

BeginRecord == [type : {"BEGIN"}, id : Id, req : Req, role : Role,
                keep : BOOLEAN, valid : BOOLEAN]
\* "STDIN" carries data, "STDIN_END" is the empty record that ends the body.
PlainType   == {"PARAMS", "STDIN", "STDIN_END", "GET_VALUES", "DATA", "ABORT"}
PlainRecord == [type : PlainType, id : RecId]
Record      == BeginRecord \cup PlainRecord
NoRecord    == [type |-> "NONE"]

OutKind == {"STDOUT", "STDOUT_END", "END", "GET_VALUES_RESULT", "UNKNOWN_TYPE"}
OutRecord == [kind : OutKind, req : Req \cup {NoReq}, id : RecId]

\* The kind of the record that comes out when n records are left to write.
KindAt(n) == CASE n = 1 -> "END"
               [] n = 2 -> "STDOUT_END"
               [] OTHER -> "STDOUT"

\* The END_REQUEST record of r has been written.
Ended(r) == \E j \in DOMAIN out : out[j].kind = "END" /\ out[j].req = r

Closing     == {"cleanup", "hack_cond", "hack_mutex", "done"}
CondCleared == pc \in {"hack_mutex", "done"}    \* g_mutex_clear(mutex_cond)
ConnFreed   == pc = "done"                      \* g_free(conn)
Alive       == pc # "crashed"
MutexFree   == mutex = NoOne

Note(name, happened) == fault' = IF happened THEN fault \cup {name} ELSE fault

Freed(r) == r # NoReq /\ life[r] = "freed"

-----------------------------------------------------------------------------
Init ==
    /\ wire = <<>>
    /\ hungup = FALSE
    /\ tx = [i \in Id |-> NoReq]
    /\ phase = [i \in Id |-> "idle"]
    /\ used = {}
    /\ sent = [r \in Req |-> 0]
    /\ pc = "read"
    /\ record = NoRecord
    /\ request = NoReq
    /\ mutex = NoOne
    /\ requests = [i \in RecId |-> NoReq]
    /\ out = <<>>
    /\ life = [r \in Req |-> "unborn"]
    /\ rid = [r \in Req |-> ManagementId]
    /\ keep = [r \in Req |-> FALSE]
    /\ size = [r \in Req |-> 0]
    /\ processed = [r \in Req |-> FALSE]
    /\ queue = <<>>
    /\ wpc = [w \in Worker |-> "idle"]
    /\ task = [w \in Worker |-> NoReq]
    /\ left = [w \in Worker |-> 0]
    /\ fault = {}
    /\ pushed = {}

-----------------------------------------------------------------------------
(* The web server (external).  Orderly moves follow the protocol: an id is *)
(* begun again only after the END_REQUEST of its last transaction.         *)

Send(rec) ==
    /\ ~hungup
    /\ Len(wire) < MaxWire
    /\ wire' = Append(wire, rec)

PeerUnchanged == UNCHANGED <<serverVars, mutex, requests, out, memVars, queue,
                             poolVars, fault, pushed>>

IdIsFree(i) == phase[i] = "idle" \/ (phase[i] = "ended" /\ Ended(tx[i]))

PeerBegin(i, r, k) ==
    /\ IF k THEN "keep" \in Moves ELSE "nokeep" \in Moves
    /\ IdIsFree(i)
    /\ r \notin used
    /\ Send([type |-> "BEGIN", id |-> i, req |-> r, role |-> "RESPONDER",
             keep |-> k, valid |-> TRUE])
    /\ tx' = [tx EXCEPT ![i] = r]
    /\ phase' = [phase EXCEPT ![i] = "begun"]
    /\ used' = used \cup {r}
    /\ UNCHANGED <<hungup, sent>> /\ PeerUnchanged

PeerData(i, t) ==
    /\ phase[i] = "begun"
    /\ sent[tx[i]] < MaxData
    /\ Send([type |-> t, id |-> i])
    /\ sent' = [sent EXCEPT ![tx[i]] = @ + 1]
    /\ UNCHANGED <<hungup, tx, phase, used>> /\ PeerUnchanged

PeerEnd(i) ==
    /\ phase[i] = "begun"
    /\ Send([type |-> "STDIN_END", id |-> i])
    /\ phase' = [phase EXCEPT ![i] = "ended"]
    /\ UNCHANGED <<hungup, tx, used, sent>> /\ PeerUnchanged

PeerGetValues ==
    /\ "management" \in Moves
    /\ Send([type |-> "GET_VALUES", id |-> ManagementId])
    /\ UNCHANGED peerVars /\ PeerUnchanged

\* The browser went away: the web server aborts the request.
PeerAbort(i) ==
    /\ "abort" \in Moves
    /\ phase[i] \in {"begun", "ended"} \/ "stray" \in Moves
    /\ Send([type |-> "ABORT", id |-> i])
    /\ UNCHANGED peerVars /\ PeerUnchanged

\* A web server that does not follow the protocol.  Bounds: it stops sending
\* data to a request that has MaxData, and requests while MaxWire are queued or
\* after MaxOut records of answers.
PeerStray(rec) ==
    /\ "stray" \in Moves
    /\ rec.type \in {"PARAMS", "STDIN"} => \A r \in Req : size[r] < MaxData
    /\ rec.type = "STDIN_END" => Len(queue) < MaxWire /\ Len(out) < MaxOut
    /\ Send(rec)
    /\ used' = IF rec.type = "BEGIN" THEN used \cup {rec.req} ELSE used
    /\ UNCHANGED <<hungup, tx, phase, sent>> /\ PeerUnchanged

StrayRecord == PlainRecord \cup {b \in BeginRecord : b.req \notin used}

\* An orderly web server closes the connection once everything it began has
\* been answered; with the move "hangup" it does so at any time.
PeerHangup ==
    /\ ~hungup
    /\ "hangup" \in Moves \/ \A i \in Id : IdIsFree(i)
    /\ hungup' = TRUE
    /\ UNCHANGED <<wire, tx, phase, used, sent>> /\ PeerUnchanged

Peer ==
    \/ \E i \in Id, r \in Req, k \in BOOLEAN : PeerBegin(i, r, k)
    \/ \E i \in Id, t \in {"PARAMS", "STDIN"} : PeerData(i, t)
    \/ \E i \in Id : PeerEnd(i) \/ PeerAbort(i)
    \/ PeerGetValues
    \/ \E rec \in StrayRecord : PeerStray(rec)
    \/ PeerHangup

-----------------------------------------------------------------------------
(* The server thread: balde_incoming_callback.                             *)

\* Mutant: the table is looked up without the mutex.
ReadRecordUnlocked ==
    /\ pc = "read"
    /\ wire # <<>>
    /\ record' = Head(wire)
    /\ wire' = Tail(wire)
    /\ request' = requests[Head(wire).id]
    /\ pc' = "handle"
    /\ UNCHANGED <<peerVars, mutex, requests, out, memVars, queue, poolVars,
                   fault, pushed>>

\* Read a record, then look its id up under the mutex.  The pointer found is
\* used after the mutex was released.
ReadRecord ==
    /\ pc = "read"
    /\ wire # <<>>
    /\ MutexFree
    /\ record' = Head(wire)
    /\ wire' = Tail(wire)
    /\ request' = requests[Head(wire).id]
    /\ pc' = "handle"
    /\ UNCHANGED <<peerVars, mutex, requests, out, memVars, queue, poolVars,
                   fault, pushed>>

\* read_header finds the end of the stream: request keeps the value the
\* previous record left in it.
ReadEof ==
    /\ pc = "read"
    /\ wire = <<>>
    /\ hungup
    /\ pc' = "cleanup"
    /\ UNCHANGED <<wire, peerVars, record, request, mutex, requests, out,
                   memVars, queue, poolVars, fault, pushed>>

Handling(types) == pc = "handle" /\ record.type \in types

\* A record other than BEGIN and GET_VALUES for an id that has no request.
DropUnexpected ==
    /\ Handling(PlainType \ {"GET_VALUES"})
    /\ request = NoReq
    /\ pc' = "cleanup"
    /\ record' = NoRecord
    /\ UNCHANGED <<wire, peerVars, request, mutex, requests, out,
                   memVars, queue, poolVars, fault, pushed>>

\* BEGIN for an id in use (the message prints request->id) or of a bad size.
DropBegin ==
    /\ Handling({"BEGIN"})
    /\ request # NoReq \/ ~record.valid
    /\ pc' = "cleanup"
    /\ record' = NoRecord
    /\ Note("request_use", Freed(request))
    /\ UNCHANGED <<wire, peerVars, request, mutex, requests, out,
                   memVars, queue, poolVars, pushed>>

AcceptsBegin(role) ==
    /\ Handling({"BEGIN"})
    /\ request = NoReq
    /\ record.valid
    /\ record.role = role

BeginResponder ==
    /\ AcceptsBegin("RESPONDER")
    /\ MutexFree
    /\ LET r == record.req IN
        /\ request' = r
        /\ requests' = [requests EXCEPT ![record.id] = r]
        /\ life' = [life EXCEPT ![r] = "live"]
        /\ rid' = [rid EXCEPT ![r] = record.id]
        /\ keep' = [keep EXCEPT ![r] = record.keep]
        /\ processed' = [processed EXCEPT ![r] = FALSE]
        /\ size' = [size EXCEPT ![r] = 0]
    /\ pc' = "read"
    /\ record' = NoRecord
    /\ UNCHANGED <<wire, peerVars, mutex, out, queue, poolVars, fault,
                   pushed>>

\* The answer to an unsupported role reads request->id, and request is NULL.
BeginUnsupported ==
    /\ AcceptsBegin("UNSUPPORTED")
    /\ MutexFree
    /\ pc' = "crashed"
    /\ record' = NoRecord
    /\ Note("null_request", TRUE)
    /\ UNCHANGED <<wire, peerVars, request, mutex, requests, out,
                   memVars, queue, poolVars, pushed>>

\* A role the switch does not name: the record is ignored.
BeginIgnored ==
    /\ AcceptsBegin("OTHER")
    /\ pc' = "read"
    /\ record' = NoRecord
    /\ UNCHANGED <<wire, peerVars, request, mutex, requests, out,
                   memVars, queue, poolVars, fault, pushed>>

\* Mutant: the data of the record is dropped.
AppendNothing ==
    /\ Handling({"PARAMS", "STDIN"})
    /\ request # NoReq
    /\ UNCHANGED size
    /\ pc' = "read"
    /\ record' = NoRecord
    /\ Note("request_use", Freed(request))
    /\ UNCHANGED <<wire, peerVars, request, mutex, requests, out, life,
                   rid, keep, processed, queue, poolVars, pushed>>

\* PARAMS and STDIN with data are appended to the request, with no lock.
AppendData ==
    /\ Handling({"PARAMS", "STDIN"})
    /\ request # NoReq
    /\ size' = [size EXCEPT ![request] = @ + 1]
    /\ pc' = "read"
    /\ record' = NoRecord
    /\ Note("request_use", Freed(request))
    /\ UNCHANGED <<wire, peerVars, request, mutex, requests, out, life,
                   rid, keep, processed, queue, poolVars, pushed>>

\* Mutant: a STDIN record with data ends the body too.
DispatchAny ==
    /\ Handling({"STDIN", "STDIN_END"})
    /\ request # NoReq
    /\ queue' = Append(queue, request)
    /\ pushed' = pushed \cup {request}
    /\ record' = NoRecord
    /\ IF keep[request]
       THEN pc' = "read" /\ request' = NoReq
       ELSE pc' = "wait" /\ UNCHANGED request
    /\ Note("request_use", Freed(request))
    /\ UNCHANGED <<wire, peerVars, mutex, requests, out, memVars,
                   poolVars>>

\* Mutant: request still points to the request after the push.
DispatchKept ==
    /\ Handling({"STDIN_END"})
    /\ request # NoReq
    /\ queue' = Append(queue, request)
    /\ pushed' = pushed \cup {request}
    /\ record' = NoRecord
    /\ IF keep[request]
       THEN pc' = "read" /\ UNCHANGED request
       ELSE pc' = "wait" /\ UNCHANGED request
    /\ Note("request_use", Freed(request))
    /\ UNCHANGED <<wire, peerVars, mutex, requests, out, memVars,
                   poolVars>>

\* Mutant: request is set to NULL before the task is filled.
DispatchNull ==
    /\ Handling({"STDIN_END"})
    /\ request # NoReq
    /\ queue' = Append(queue, NoReq)
    /\ UNCHANGED pushed
    /\ record' = NoRecord
    /\ IF keep[request]
       THEN pc' = "read" /\ request' = NoReq
       ELSE pc' = "wait" /\ UNCHANGED request
    /\ Note("request_use", Freed(request))
    /\ UNCHANGED <<wire, peerVars, mutex, requests, out, memVars,
                   poolVars>>

\* The empty STDIN: the request goes to the pool.  If its flags ask to close
\* the connection, the server thread waits for it to be processed.
Dispatch ==
    /\ Handling({"STDIN_END"})
    /\ request # NoReq
    /\ queue' = Append(queue, request)
    /\ pushed' = pushed \cup {request}
    /\ record' = NoRecord
    /\ IF keep[request]
       THEN pc' = "read" /\ request' = NoReq
       ELSE pc' = "wait" /\ UNCHANGED request
    /\ Note("request_use", Freed(request))
    /\ UNCHANGED <<wire, peerVars, mutex, requests, out, memVars,
                   poolVars>>

\* Mutant: request still points to the request after the wait.
WaitKept ==
    /\ pc = "wait"
    /\ IF processed[request]
       THEN pc' = "cleanup" /\ UNCHANGED request
       ELSE pc' = "asleep" /\ UNCHANGED request
    /\ Note("processed_use", Freed(request))
    /\ UNCHANGED <<wire, peerVars, record, mutex, requests, out, memVars,
                   queue, poolVars, pushed>>

\* One turn of the wait loop, under mutex_cond: leave it, or sleep on cond.
Wait ==
    /\ pc = "wait"
    /\ IF processed[request]
       THEN pc' = "cleanup" /\ request' = NoReq
       ELSE pc' = "asleep" /\ UNCHANGED request
    /\ Note("processed_use", Freed(request))
    /\ UNCHANGED <<wire, peerVars, record, mutex, requests, out, memVars,
                   queue, poolVars, pushed>>

\* Mutant: the wait is an if instead of a loop.
WakeupLeaves ==
    /\ pc = "asleep"
    /\ pc' = "cleanup"
    /\ UNCHANGED <<wire, peerVars, record, request, mutex, requests, out,
                   memVars, queue, poolVars, fault, pushed>>

\* g_cond_wait may return without a signal.
SpuriousWakeup ==
    /\ pc = "asleep"
    /\ pc' = "wait"
    /\ UNCHANGED <<wire, peerVars, record, request, mutex, requests, out,
                   memVars, queue, poolVars, fault, pushed>>

Reply(kind) ==
    /\ MutexFree
    /\ out' = Append(out, [kind |-> kind, req |-> NoReq, id |-> ManagementId])
    /\ pc' = "cleanup"
    /\ record' = NoRecord
    /\ UNCHANGED <<wire, peerVars, request, mutex, requests, memVars,
                   queue, poolVars, fault, pushed>>

ReplyValues == Handling({"GET_VALUES"}) /\ Reply("GET_VALUES_RESULT")

ReplyUnknown ==
    /\ Handling({"ABORT"})
    /\ request # NoReq
    /\ Reply("UNKNOWN_TYPE")

IgnoreData ==
    /\ Handling({"DATA"})
    /\ request # NoReq
    /\ pc' = "cleanup"
    /\ record' = NoRecord
    /\ UNCHANGED <<wire, peerVars, request, mutex, requests, out,
                   memVars, queue, poolVars, fault, pushed>>

\* cleanup: frees what is left in request; the table is not updated.
Cleanup ==
    /\ pc = "cleanup"
    /\ life' = IF request = NoReq THEN life
                                  ELSE [life EXCEPT ![request] = "freed"]
    /\ Note("double_free", Freed(request))
    /\ request' = NoReq
    /\ pc' = "hack_cond"
    /\ UNCHANGED <<wire, peerVars, record, mutex, requests, out, rid, keep,
                   size, processed, queue, poolVars, pushed>>

\* Lock, unlock and clear mutex_cond.
HackCond ==
    /\ pc = "hack_cond"
    /\ pc' = "hack_mutex"
    /\ UNCHANGED <<wire, peerVars, record, request, mutex, requests, out,
                   memVars, queue, poolVars, fault, pushed>>

\* Mutant: the mutex is cleared without waiting for it.
HackMutexBusy ==
    /\ pc = "hack_mutex"
    /\ pc' = "done"
    /\ UNCHANGED <<wire, peerVars, record, request, mutex, requests, out,
                   memVars, queue, poolVars, fault, pushed>>

\* Lock, unlock and clear mutex; free conn and close the stream.
HackMutex ==
    /\ pc = "hack_mutex"
    /\ MutexFree
    /\ pc' = "done"
    /\ UNCHANGED <<wire, peerVars, record, request, mutex, requests, out,
                   memVars, queue, poolVars, fault, pushed>>

Server ==
    \/ ReadRecord \/ ReadEof
    \/ DropUnexpected \/ DropBegin
    \/ BeginResponder \/ BeginUnsupported \/ BeginIgnored
    \/ AppendData \/ Dispatch \/ Wait
    \/ ReplyValues \/ ReplyUnknown \/ IgnoreData
    \/ Cleanup \/ HackCond \/ HackMutex

-----------------------------------------------------------------------------
(* A thread of the application pool: balde_handle_request.                 *)

\* Take a task, parse the request and run the main loop, whose response is
\* cut in n records.
TakeTask(w) ==
    /\ wpc[w] = "idle"
    /\ queue # <<>>
    /\ queue' = Tail(queue)
    /\ task' = [task EXCEPT ![w] = Head(queue)]
    /\ \E n \in 0..MaxChunks : left' = [left EXCEPT ![w] = n + 2]
    /\ wpc' = [wpc EXCEPT ![w] = "lock"]
    /\ Note("request_use", Freed(Head(queue)))
    /\ UNCHANGED <<wire, peerVars, serverVars, mutex, requests, out, memVars,
                   pushed>>

\* Mutant: the response is written without the mutex.
LockBusy(w) ==
    /\ wpc[w] = "lock"
    /\ ~ConnFreed
    /\ mutex' = w
    /\ wpc' = [wpc EXCEPT ![w] = "write"]
    /\ Note("request_use", Freed(task[w]))
    /\ UNCHANGED <<wire, peerVars, serverVars, requests, out, memVars, queue,
                   task, left, pushed>>

\* request->id is read for the records, then the mutex is taken.
Lock(w) ==
    /\ wpc[w] = "lock"
    /\ ~ConnFreed
    /\ MutexFree
    /\ mutex' = w
    /\ wpc' = [wpc EXCEPT ![w] = "write"]
    /\ Note("request_use", Freed(task[w]))
    /\ UNCHANGED <<wire, peerVars, serverVars, requests, out, memVars, queue,
                   task, left, pushed>>

\* The write goes out piece by piece: the web server sees a record before
\* the next one is written.
Write(w) ==
    /\ wpc[w] = "write"
    /\ out' = Append(out, [kind |-> KindAt(left[w]), req |-> task[w],
                           id |-> rid[task[w]]])
    /\ left' = [left EXCEPT ![w] = @ - 1]
    /\ wpc' = [wpc EXCEPT ![w] = IF left[w] = 1 THEN "remove" ELSE "write"]
    /\ UNCHANGED <<wire, peerVars, serverVars, mutex, requests, memVars, queue,
                   task, fault, pushed>>

\* Mutant: the mutex is not released.
RemoveLocked(w) ==
    /\ wpc[w] = "remove"
    /\ LET i == rid[task[w]]
           found == requests[i] IN
        /\ requests' = [requests EXCEPT ![i] = NoReq]
        /\ life' = IF found = NoReq THEN life
                                    ELSE [life EXCEPT ![found] = "freed"]
        /\ Note("double_free", Freed(found))
    /\ UNCHANGED mutex
    /\ wpc' = [wpc EXCEPT ![w] = "signal"]
    /\ UNCHANGED <<wire, peerVars, serverVars, out, rid, keep, size, processed,
                   queue, task, left, pushed>>

\* g_hash_table_remove frees the request the table holds; then unlock.
Remove(w) ==
    /\ wpc[w] = "remove"
    /\ LET i == rid[task[w]]
           found == requests[i] IN
        /\ requests' = [requests EXCEPT ![i] = NoReq]
        /\ life' = IF found = NoReq THEN life
                                    ELSE [life EXCEPT ![found] = "freed"]
        /\ Note("double_free", Freed(found))
    /\ mutex' = NoOne
    /\ wpc' = [wpc EXCEPT ![w] = "signal"]
    /\ UNCHANGED <<wire, peerVars, serverVars, out, rid, keep, size, processed,
                   queue, task, left, pushed>>

\* Mutant: the condition is not signalled.
SignalSilent(w) ==
    /\ wpc[w] = "signal"
    /\ ~CondCleared
    /\ processed' = [processed EXCEPT ![task[w]] = TRUE]
    /\ UNCHANGED pc
    /\ wpc' = [wpc EXCEPT ![w] = "idle"]
    /\ task' = [task EXCEPT ![w] = NoReq]
    /\ Note("processed_use", Freed(task[w]))
    /\ UNCHANGED <<wire, peerVars, record, request, mutex, requests, out, life,
                   rid, keep, size, queue, left, pushed>>

\* Under mutex_cond: processed is set, in memory Remove just freed, and the
\* server thread is woken up if it sleeps.
Signal(w) ==
    /\ wpc[w] = "signal"
    /\ ~CondCleared
    /\ processed' = [processed EXCEPT ![task[w]] = TRUE]
    /\ pc' = IF pc = "asleep" THEN "wait" ELSE pc
    /\ wpc' = [wpc EXCEPT ![w] = "idle"]
    /\ task' = [task EXCEPT ![w] = NoReq]
    /\ Note("processed_use", Freed(task[w]))
    /\ UNCHANGED <<wire, peerVars, record, request, mutex, requests, out, life,
                   rid, keep, size, queue, left, pushed>>

\* The thread goes for a mutex of a connection that was released.
UseReleased(w) ==
    /\ \/ wpc[w] = "lock" /\ ConnFreed
       \/ wpc[w] = "signal" /\ CondCleared
    /\ wpc' = [wpc EXCEPT ![w] = "idle"]
    /\ task' = [task EXCEPT ![w] = NoReq]
    /\ Note("conn_use", TRUE)
    /\ UNCHANGED <<wire, peerVars, serverVars, mutex, requests, out, memVars,
                   queue, left, pushed>>

WorkerStep(w) ==
    \/ TakeTask(w) \/ Lock(w) \/ Write(w) \/ Remove(w) \/ Signal(w)
    \/ UseReleased(w)

\* The allocator hands freed memory out again.  The field is read by the
\* server thread that waits for r and by no other, so that an overwrite
\* matters only then.
Overwrite(r) ==
    /\ Recycle
    /\ Freed(r)
    /\ request = r
    /\ \E b \in BOOLEAN : processed' = [processed EXCEPT ![r] = b]
    /\ UNCHANGED <<wire, peerVars, serverVars, mutex, requests, out, life, rid,
                   keep, size, queue, poolVars, fault, pushed>>

-----------------------------------------------------------------------------
\* The connection is over, or the process is.
Terminated ==
    /\ Alive => /\ pc = "done" /\ queue = <<>>
                /\ \A w \in Worker : wpc[w] = "idle"
    /\ UNCHANGED vars

Next ==
    \/ /\ Alive
       /\ \/ Peer
          \/ Server
          \/ SpuriousWakeup
          \/ \E w \in Worker : WorkerStep(w)
          \/ \E r \in Req : Overwrite(r)
    \/ Terminated

Spec == Init /\ [][Next]_vars

\* Threads that can run do run; the web server, spurious wake-ups and the
\* allocator owe nothing.
Fairness ==
    /\ WF_vars(Alive /\ Server)
    /\ \A w \in Worker : WF_vars(Alive /\ WorkerStep(w))

FairSpec == Spec /\ Fairness

-----------------------------------------------------------------------------
(* Properties.                                                             *)

\* The type of every variable.
TypeOK ==
    /\ wire \in Seq(Record)
    /\ hungup \in BOOLEAN
    /\ tx \in [Id -> Req \cup {NoReq}]
    /\ phase \in [Id -> {"idle", "begun", "ended"}]
    /\ used \in SUBSET Req
    /\ sent \in [Req -> Nat]
    /\ pc \in {"read", "handle", "wait", "asleep", "crashed"} \cup Closing
    /\ record \in Record \cup {NoRecord}
    /\ request \in Req \cup {NoReq}
    /\ mutex \in Worker \cup {NoOne}
    /\ requests \in [RecId -> Req \cup {NoReq}]
    /\ out \in Seq(OutRecord)
    /\ life \in [Req -> {"unborn", "live", "freed"}]
    /\ rid \in [Req -> RecId]
    /\ keep \in [Req -> BOOLEAN]
    /\ size \in [Req -> Nat]
    /\ processed \in [Req -> BOOLEAN]
    /\ queue \in Seq(Req)
    /\ wpc \in [Worker -> {"idle", "lock", "write", "remove", "signal"}]
    /\ task \in [Worker -> Req \cup {NoReq}]
    /\ left \in [Worker -> Nat]
    /\ fault \subseteq {"request_use", "null_request", "double_free",
                        "processed_use", "conn_use"}
    /\ pushed \in SUBSET Req

\* A response is written in one piece: after a record that is not the last of
\* its response comes the next record of the same response, whatever the
\* other pool threads and the server thread write to the same stream.  It
\* holds for every web server (fcgi.c:372-390, 503-506, 542-544, 555-557).
Framed ==
    \A j \in 1..(Len(out) - 1) :
        /\ out[j].kind = "STDOUT" =>
               /\ out[j + 1].req = out[j].req
               /\ out[j + 1].kind \in {"STDOUT", "STDOUT_END"}
        /\ out[j].kind = "STDOUT_END" =>
               /\ out[j + 1].req = out[j].req
               /\ out[j + 1].kind = "END"

\* The stream is never closed on a response that is partly written: this much
\* the lock-and-unlock hack of the cleanup does ensure (fcgi.c:570-580).
Whole == out = <<>> \/ out[Len(out)].kind \notin {"STDOUT", "STDOUT_END"}
NotCutShort == pc = "done" => Whole

\* Why they hold, an inductive invariant: only the owner of the mutex writes a
\* response, it has as many records left as the last one written calls for,
\* and the mutex is not given away before the response is whole.
Follows(n, r) ==
    LET last == out[Len(out)] IN
    /\ out # <<>>
    /\ last.req = r
    /\ \/ last.kind = "STDOUT" /\ n >= 2
       \/ last.kind = "STDOUT_END" /\ n = 1
WriterInv ==
    /\ \A w \in Worker :
        /\ wpc[w] # "idle" => task[w] \in Req
        /\ wpc[w] \in {"write", "remove"} <=> mutex = w
        /\ wpc[w] = "lock" => left[w] >= 2
        /\ wpc[w] = "write" =>
               (Whole /\ left[w] >= 2) \/ Follows(left[w], task[w])
    /\ (\A w \in Worker : wpc[w] # "write") => Whole
    /\ pc = "done" => mutex = NoOne

\* With a web server that follows the protocol, a request that the pool still
\* has to answer is alive, is the one the table holds for its id, and is in
\* one place only: queued once or held by one thread.  So no thread uses or
\* frees a request twice, even if the web server hangs up at any moment.
InPool(r) ==
    \E w \in Worker : task[w] = r /\ wpc[w] \in {"lock", "write", "remove"}
PoolOwnsRequests ==
    /\ \A r \in Req : (\E j \in DOMAIN queue : queue[j] = r) \/ InPool(r) =>
           life[r] = "live" /\ requests[rid[r]] = r
    /\ \A j, k \in DOMAIN queue : queue[j] = queue[k] => j = k
    /\ \A j \in DOMAIN queue : ~InPool(queue[j])
    /\ \A v, w \in Worker :
           v # w /\ wpc[v] # "idle" /\ wpc[w] # "idle" => task[v] # task[w]

\* With such a web server the only undefined behaviours left are the use of
\* the connection after its release and of request->processed after the
\* table freed the request.
FewFaults == fault \subseteq {"processed_use", "conn_use"}

\* An END_REQUEST arrives on the id of the transaction it answers, which the
\* web server has then submitted and not begun anew, and arrives once.
AnswersMatch ==
    \A j \in DOMAIN out : out[j].kind = "END" =>
        LET r == out[j].req IN
        /\ r \in pushed
        /\ out[j].id = rid[r]
        /\ \A k \in DOMAIN out : out[k].kind = "END" /\ out[k].req = r => k = j
        /\ \E i \in Id : i = rid[r] /\ (tx[i] = r => phase[i] = "ended")

\* The request a pool thread parses holds every PARAMS and STDIN record the
\* web server sent for it, and no record of another transaction on that id.
RequestComplete == \A r \in pushed : size[r] = sent[r]

\* The connection is given up only for a reason the web server knows: it hung
\* up, or a request without FCGI_KEEP_CONN has been answered in full.  An id
\* that is begun again right after its END_REQUEST never breaks it.
ClosedForAReason ==
    pc \in Closing => hungup \/ \E r \in Req : Ended(r) /\ ~keep[r]

\* The server thread releases the connection only when no pool thread goes on
\* to use it, as the comment of the cleanup says (fcgi.c:570-571).
ReleasedAfterUse == "conn_use" \notin fault

-----------------------------------------------------------------------------
(* The service the connection implements.                                  *)

Status(r) ==
    CASE Ended(r) -> "answered"
      [] ~Ended(r) /\ r \in pushed -> "submitted"
      [] ~Ended(r) /\ r \notin pushed /\ life[r] # "unborn" -> "begun"
      [] OTHER -> "none"

Service == INSTANCE FcgiService WITH
    status <- [r \in Req |-> Status(r)],
    keep <- keep,
    gone <- hungup,
    open <- (pc # "done")

\* The connection implements the service, step by step.
ImplementsService == Service!Safe

\* And it keeps its liveness promises, if threads that can run do run.
ServesAll == Service!Spec

\* A connection that is closing because a request without FCGI_KEEP_CONN was
\* dispatched is closed in the end: no wake-up of the server thread is lost.
NoLostWakeup == (pc \in {"wait", "asleep"}) ~> (pc = "done")

=============================================================================
