---------------------------- MODULE Fcgi_proofs ----------------------------
(***************************************************************************)
(* Proofs about Fcgi, for any number of requests, ids and threads of the   *)
(* pool and any bounds: first with any web server, then with one that      *)
(* follows the protocol.                                                   *)
(***************************************************************************)
EXTENDS Fcgi, FiniteSetTheorems, FunctionTheorems, TLAPS

\* The fields of the two kinds of records.
LEMMA RecordFields ==
    ASSUME NEW rec \in Record
    PROVE  /\ rec.id \in RecId
           /\ rec.type = "BEGIN" => rec \in BeginRecord
           /\ rec.type # "BEGIN" => rec \in PlainRecord
    BY DEF Record, BeginRecord, PlainRecord, PlainType, RecId

-----------------------------------------------------------------------------
(* Type correctness.                                                       *)

LEMMA TypeInit == Init => TypeOK
<1> SUFFICES ASSUME Init PROVE TypeOK
    OBVIOUS
<1>1. wire \in Seq(Record) /\ out \in Seq(OutRecord) /\ queue \in Seq(Req)
    BY DEF Init
<1>2. /\ tx \in [Id -> Req \cup {NoReq}]
      /\ phase \in [Id -> {"idle", "begun", "ended"}]
      /\ sent \in [Req -> Nat] /\ size \in [Req -> Nat]
    BY DEF Init
<1>3. /\ requests \in [RecId -> Req \cup {NoReq}]
      /\ rid \in [Req -> RecId]
      /\ life \in [Req -> {"unborn", "live", "freed"}]
    BY DEF Init, RecId
<1>4. keep \in [Req -> BOOLEAN] /\ processed \in [Req -> BOOLEAN]
    BY DEF Init
<1>5. /\ wpc \in [Worker -> {"idle", "lock", "write", "remove", "signal"}]
      /\ task \in [Worker -> Req \cup {NoReq}]
      /\ left \in [Worker -> Nat]
    BY DEF Init
<1> QED
    BY <1>1, <1>2, <1>3, <1>4, <1>5 DEF Init, TypeOK

\* The moves of the web server.
LEMMA TypePeer == TypeOK /\ Peer => TypeOK'
<1> SUFFICES ASSUME TypeOK, Peer PROVE TypeOK'
    OBVIOUS
<1> USE DEF TypeOK, PeerUnchanged, Send, serverVars, memVars, poolVars, peerVars
<1>1. ASSUME NEW i \in Id, NEW r \in Req, NEW k \in BOOLEAN, PeerBegin(i, r, k)
      PROVE  TypeOK'
    <2> DEFINE rec == [type |-> "BEGIN", id |-> i, req |-> r,
                       role |-> "RESPONDER", keep |-> k, valid |-> TRUE]
    <2>1. rec \in Record
        BY DEF Record, BeginRecord, Role
    <2> HIDE DEF rec
    <2>2. wire' \in Seq(Record)
        BY <1>1, <2>1 DEF PeerBegin, rec
    <2>3. used' \in SUBSET Req
        BY <1>1 DEF PeerBegin
    <2>4. tx' \in [Id -> Req \cup {NoReq}]
        BY <1>1 DEF PeerBegin
    <2>5. phase' \in [Id -> {"idle", "begun", "ended"}]
        BY <1>1 DEF PeerBegin
    <2>6. UNCHANGED <<hungup, sent>> /\ PeerUnchanged
        BY <1>1 DEF PeerBegin
    <2> QED
        BY <2>2, <2>3, <2>4, <2>5, <2>6
<1>2. ASSUME NEW i \in Id, NEW t \in {"PARAMS", "STDIN"}, PeerData(i, t)
      PROVE  TypeOK'
    <2>1. [type |-> t, id |-> i] \in Record
        BY DEF Record, PlainRecord, PlainType, RecId
    <2>2. wire' \in Seq(Record)
        BY <1>2, <2>1 DEF PeerData
    <2>3. sent' \in [Req -> Nat]
        <3>1. sent' = [r \in Req |-> IF r = tx[i] THEN sent[r] + 1 ELSE sent[r]]
            BY <1>2 DEF PeerData
        <3>2. \A r \in Req : sent[r] \in Nat /\ sent[r] + 1 \in Nat
            OBVIOUS
        <3> QED
            BY <3>1, <3>2
    <2>4. UNCHANGED <<hungup, tx, phase, used>> /\ PeerUnchanged
        BY <1>2 DEF PeerData
    <2> QED
        BY <2>2, <2>3, <2>4
<1>3. ASSUME NEW i \in Id, PeerEnd(i) PROVE TypeOK'
    BY <1>3 DEF PeerEnd, Record, PlainRecord, PlainType, RecId
<1>4. ASSUME NEW i \in Id, PeerAbort(i) PROVE TypeOK'
    BY <1>4 DEF PeerAbort, Record, PlainRecord, PlainType, RecId
<1>5. CASE PeerGetValues
    BY <1>5 DEF PeerGetValues, Record, PlainRecord, PlainType, RecId
<1>6. ASSUME NEW rec \in StrayRecord, PeerStray(rec) PROVE TypeOK'
    <2>1. rec \in Record
        BY DEF StrayRecord, Record
    <2>2. rec.type = "BEGIN" => rec.req \in Req
        BY DEF StrayRecord, BeginRecord, PlainRecord, PlainType
    <2>3. used' \in SUBSET Req
        BY <1>6, <2>2 DEF PeerStray
    <2>4. wire' \in Seq(Record)
        BY <1>6, <2>1 DEF PeerStray
    <2>5. UNCHANGED <<hungup, tx, phase, sent>> /\ PeerUnchanged
        BY <1>6 DEF PeerStray
    <2> QED
        BY <2>3, <2>4, <2>5
<1>7. CASE PeerHangup
    <2>1. hungup' = TRUE /\ UNCHANGED <<wire, tx, phase, used, sent>>
        BY <1>7 DEF PeerHangup
    <2>2. PeerUnchanged
        BY <1>7 DEF PeerHangup
    <2> QED
        BY <2>1, <2>2
<1> HIDE DEF TypeOK
<1> QED
    BY <1>1, <1>2, <1>3, <1>4, <1>5, <1>6, <1>7 DEF Peer

\* The steps of the server thread.
LEMMA TypeServer == TypeOK /\ (Server \/ SpuriousWakeup) => TypeOK'
<1> SUFFICES ASSUME TypeOK, Server \/ SpuriousWakeup PROVE TypeOK'
    OBVIOUS
<1> USE DEF TypeOK, serverVars, memVars, poolVars, peerVars, Note, Handling,
            Closing
<1>1. CASE ReadRecord
    <2>1. Head(wire) \in Record /\ wire' \in Seq(Record)
        BY <1>1 DEF ReadRecord
    <2>2. requests[Head(wire).id] \in Req \cup {NoReq}
        BY <2>1, RecordFields
    <2> QED
        BY <1>1, <2>1, <2>2 DEF ReadRecord
<1>2. CASE ReadEof
    BY <1>2 DEF ReadEof
<1>3. CASE DropUnexpected
    BY <1>3 DEF DropUnexpected
<1>4. CASE DropBegin
    BY <1>4 DEF DropBegin
<1>5. CASE BeginResponder
    <2>1. record \in BeginRecord
        BY <1>5, RecordFields DEF BeginResponder, AcceptsBegin, NoRecord
    <2>2. record.req \in Req /\ record.id \in RecId /\ record.keep \in BOOLEAN
        BY <2>1 DEF BeginRecord, RecId
    <2> QED
        BY <1>5, <2>2 DEF BeginResponder
<1>6. CASE BeginUnsupported
    BY <1>6 DEF BeginUnsupported
<1>7. CASE BeginIgnored
    BY <1>7 DEF BeginIgnored
<1>8. CASE AppendData
    <2>1. size' \in [Req -> Nat]
        BY <1>8 DEF AppendData
    <2> QED
        BY <1>8, <2>1 DEF AppendData
<1>9. CASE Dispatch
    <2>1. request \in Req
        BY <1>9 DEF Dispatch
    <2> QED
        BY <1>9, <2>1 DEF Dispatch
<1>10. CASE Wait
    BY <1>10 DEF Wait
<1>11. CASE ReplyValues \/ ReplyUnknown
    <2>1. ASSUME NEW kind \in OutKind, Reply(kind) PROVE TypeOK'
        <3>1. [kind |-> kind, req |-> NoReq, id |-> ManagementId] \in OutRecord
            BY DEF OutRecord, RecId
        <3>2. out' \in Seq(OutRecord)
            BY <2>1, <3>1 DEF Reply
        <3> QED
            BY <2>1, <3>2 DEF Reply
    <2> QED
        BY <1>11, <2>1 DEF ReplyValues, ReplyUnknown, OutKind
<1>12. CASE IgnoreData
    BY <1>12 DEF IgnoreData
<1>13. CASE Cleanup
    BY <1>13 DEF Cleanup
<1>14. CASE HackCond
    BY <1>14 DEF HackCond
<1>15. CASE HackMutex
    BY <1>15 DEF HackMutex
<1>16. CASE SpuriousWakeup
    BY <1>16 DEF SpuriousWakeup
<1> HIDE DEF TypeOK
<1> QED
    BY <1>1, <1>2, <1>3, <1>4, <1>5, <1>6, <1>7, <1>8, <1>9, <1>10, <1>11,
       <1>12, <1>13, <1>14, <1>15, <1>16 DEF Server

\* The steps of a thread of the pool, and of the allocator.
LEMMA TypeWorker ==
    ASSUME TypeOK, WriterInv, NEW w \in Worker, WorkerStep(w)
    PROVE  TypeOK'
<1> USE DEF TypeOK, serverVars, memVars, poolVars, peerVars, Note
<1>1. CASE TakeTask(w)
    <2>1. Head(queue) \in Req /\ queue' \in Seq(Req)
        BY <1>1 DEF TakeTask
    <2>2. left' \in [Worker -> Nat]
        BY <1>1, ConstantsAssumption DEF TakeTask
    <2> QED
        BY <1>1, <2>1, <2>2 DEF TakeTask
<1>2. CASE Lock(w)
    BY <1>2 DEF Lock
<1>3. CASE Write(w)
    <2>1. task[w] \in Req /\ left[w] >= 1
        BY <1>3 DEF Write, WriterInv, Follows
    <2>2. [kind |-> KindAt(left[w]), req |-> task[w],
           id |-> rid[task[w]]] \in OutRecord
        BY <2>1 DEF OutRecord, OutKind, KindAt
    <2>3. out' \in Seq(OutRecord)
        BY <1>3, <2>2 DEF Write
    <2>4. left' \in [Worker -> Nat]
        BY <1>3, <2>1 DEF Write
    <2> QED
        BY <1>3, <2>3, <2>4 DEF Write
<1>4. CASE Remove(w)
    BY <1>4 DEF Remove
<1>5. CASE Signal(w)
    BY <1>5 DEF Signal, Closing
<1>6. CASE UseReleased(w)
    BY <1>6 DEF UseReleased
<1> HIDE DEF TypeOK
<1> QED
    BY <1>1, <1>2, <1>3, <1>4, <1>5, <1>6 DEF WorkerStep

LEMMA TypeOverwrite ==
    ASSUME TypeOK, NEW r \in Req, Overwrite(r)
    PROVE  TypeOK'
    BY DEF TypeOK, Overwrite, serverVars, memVars, poolVars, peerVars

-----------------------------------------------------------------------------
(* Responses are written whole.                                            *)

\* A record may be appended if the last response is whole or if the record is
\* the next one of that response.
LEMMA FramedAppend ==
    ASSUME out \in Seq(OutRecord), Framed, NEW rec \in OutRecord,
           out' = Append(out, rec),
           Whole \/ \E n \in Nat : Follows(n, rec.req) /\ rec.kind = KindAt(n)
    PROVE  Framed'
<1> SUFFICES ASSUME NEW j \in 1..(Len(out') - 1)
             PROVE  /\ out'[j].kind = "STDOUT" =>
                        /\ out'[j + 1].req = out'[j].req
                        /\ out'[j + 1].kind \in {"STDOUT", "STDOUT_END"}
                    /\ out'[j].kind = "STDOUT_END" =>
                        /\ out'[j + 1].req = out'[j].req
                        /\ out'[j + 1].kind = "END"
    BY DEF Framed
<1>1. Len(out') = Len(out) + 1 /\ out'[Len(out')] = rec
    OBVIOUS
<1>2. CASE j < Len(out)
    <2>1. /\ out'[j] = out[j] /\ out'[j + 1] = out[j + 1]
          /\ j \in 1..(Len(out) - 1)
        BY <1>2
    <2> QED
        BY <2>1 DEF Framed
<1>3. CASE j = Len(out)
    <2>1. out'[j] = out[Len(out)] /\ out'[j + 1] = rec /\ out # <<>>
        BY <1>1, <1>3
    <2> QED
        BY <2>1 DEF Whole, Follows, KindAt
<1> QED
    BY <1>1, <1>2, <1>3

IInv == TypeOK /\ WriterInv /\ Framed

\* A step that writes nothing, does not touch the mutex and leaves the pool
\* threads where they are.
LEMMA WriterOther ==
    ASSUME WriterInv, Framed, UNCHANGED <<mutex, out, poolVars>>,
           pc' = "done" => pc = "done" \/ mutex = NoOne
    PROVE  WriterInv' /\ Framed'
<1>1. Whole' = Whole /\ \A n, r : Follows(n, r)' = Follows(n, r)
    BY DEF Whole, Follows
<1>2. Framed'
    BY DEF Framed
<1> QED
    BY <1>1, <1>2 DEF WriterInv, poolVars

\* The server thread writes a whole answer of one record.
LEMMA WriterReply ==
    ASSUME TypeOK, WriterInv, Framed, NEW kind \in OutKind, Reply(kind),
           kind \in {"GET_VALUES_RESULT", "UNKNOWN_TYPE"}
    PROVE  WriterInv' /\ Framed'
<1> DEFINE rec == [kind |-> kind, req |-> NoReq, id |-> ManagementId]
<1>1. rec \in OutRecord /\ rec.kind = kind
    BY DEF OutRecord, RecId
<1>2. out' = Append(out, rec) /\ out \in Seq(OutRecord)
    BY DEF Reply, TypeOK
<1>3. \A w \in Worker : wpc[w] \notin {"write", "remove"}
    BY ConstantsAssumption DEF Reply, WriterInv, MutexFree
<1>4. Whole
    BY <1>3 DEF WriterInv
<1> HIDE DEF rec
<1>5. Framed'
    BY <1>1, <1>2, <1>4, FramedAppend
<1>6. Whole'
    BY <1>1, <1>2 DEF Whole
<1>7. UNCHANGED <<wpc, task, left, mutex>> /\ pc' = "cleanup"
    BY DEF Reply, poolVars
<1> QED
    BY <1>3, <1>5, <1>6, <1>7 DEF WriterInv

LEMMA WriterServer ==
    ASSUME TypeOK, WriterInv, Framed, Server \/ SpuriousWakeup
    PROVE  WriterInv' /\ Framed'
<1>1. CASE ReplyValues \/ ReplyUnknown
    BY <1>1, WriterReply DEF ReplyValues, ReplyUnknown, OutKind
<1>2. CASE ~(ReplyValues \/ ReplyUnknown)
    <2>1. UNCHANGED <<mutex, out, poolVars>>
        BY <1>2 DEF Server, SpuriousWakeup, ReadRecord, ReadEof, DropUnexpected,
            DropBegin, BeginResponder, BeginUnsupported, BeginIgnored,
            AppendData, Dispatch, Wait, IgnoreData, Cleanup, HackCond, HackMutex
    <2>2. pc' = "done" => mutex = NoOne
        BY <1>2 DEF Server, SpuriousWakeup, ReadRecord, ReadEof, DropUnexpected,
            DropBegin, BeginResponder, BeginUnsupported, BeginIgnored,
            AppendData, Dispatch, Wait, IgnoreData, Cleanup, HackCond,
            HackMutex, MutexFree
    <2> QED
        BY <2>1, <2>2, WriterOther
<1> QED
    BY <1>1, <1>2

LEMMA WriterWorker ==
    ASSUME TypeOK, WriterInv, Framed, NEW w \in Worker, WorkerStep(w)
    PROVE  WriterInv' /\ Framed'
<1> USE DEF serverVars
<1>1. CASE TakeTask(w)
    <2>1. UNCHANGED <<mutex, out, pc>> /\ wpc[w] = "idle"
        BY <1>1 DEF TakeTask
    <2>2. Framed' /\ Whole' = Whole /\ \A n, r : Follows(n, r)' = Follows(n, r)
        BY <2>1 DEF Framed, Whole, Follows
    <2>3. wpc'[w] = "lock" /\ task'[w] \in Req /\ left'[w] >= 2
        BY <1>1, ConstantsAssumption DEF TakeTask, TypeOK
    <2>4. \A v \in Worker \ {w} :
              wpc'[v] = wpc[v] /\ task'[v] = task[v] /\ left'[v] = left[v]
        BY <1>1 DEF TakeTask, TypeOK
    <2> QED
        BY <2>1, <2>2, <2>3, <2>4 DEF WriterInv
<1>2. CASE Lock(w)
    <2>1. UNCHANGED <<out, pc, task, left>> /\ wpc[w] = "lock" /\ mutex = NoOne
          /\ mutex' = w /\ pc # "done"
        BY <1>2 DEF Lock, MutexFree, ConnFreed
    <2>2. Framed' /\ Whole' = Whole /\ \A n, r : Follows(n, r)' = Follows(n, r)
        BY <2>1 DEF Framed, Whole, Follows
    <2>3. \A v \in Worker : wpc[v] \notin {"write", "remove"}
        BY <2>1, ConstantsAssumption DEF WriterInv
    <2>4. wpc'[w] = "write" /\ \A v \in Worker \ {w} : wpc'[v] = wpc[v]
        BY <1>2 DEF Lock, TypeOK
    <2>5. Whole /\ left[w] >= 2 /\ task[w] \in Req
        BY <2>1, <2>3 DEF WriterInv
    <2> QED
        BY <2>1, <2>2, <2>3, <2>4, <2>5 DEF WriterInv
<1>3. CASE Write(w)
    <2> DEFINE rec == [kind |-> KindAt(left[w]), req |-> task[w],
                       id |-> rid[task[w]]]
    <2>1. wpc[w] = "write" /\ task[w] \in Req /\ left[w] \in Nat /\ left[w] >= 1
          /\ mutex = w
        BY <1>3 DEF Write, WriterInv, Follows, TypeOK
    <2>2. rec \in OutRecord /\ rec.kind = KindAt(left[w]) /\ rec.req = task[w]
        BY <2>1 DEF OutRecord, OutKind, KindAt, TypeOK
    <2>3. out \in Seq(OutRecord) /\ out' = Append(out, rec)
        BY <1>3 DEF Write, TypeOK
    <2> HIDE DEF rec
    <2>4. (Whole /\ left[w] >= 2) \/ Follows(left[w], task[w])
        BY <2>1 DEF WriterInv
    <2>5. Framed'
        BY <2>1, <2>2, <2>3, <2>4, FramedAppend
    <2>6. \A v \in Worker \ {w} :
              wpc[v] \notin {"write", "remove"} /\ wpc'[v] = wpc[v]
        BY <1>3, <2>1 DEF Write, WriterInv, TypeOK
    <2>7. UNCHANGED <<mutex, pc, task>> /\ left'[w] = left[w] - 1
          /\ \A v \in Worker \ {w} : left'[v] = left[v]
        BY <1>3 DEF Write, TypeOK
    <2>8. pc # "done"
        BY <2>1, ConstantsAssumption DEF WriterInv
    <2>9. out'[Len(out')] = rec /\ out' # <<>>
        BY <2>3
    <2>10. CASE left[w] = 1
        <3>1. Whole' /\ wpc'[w] = "remove"
            BY <1>3, <2>2, <2>9, <2>10 DEF Write, Whole, KindAt, TypeOK
        <3> QED
            BY <2>1, <2>5, <2>6, <2>7, <2>8, <3>1 DEF WriterInv
    <2>11. CASE left[w] # 1
        <3>1. wpc'[w] = "write"
            BY <1>3, <2>11 DEF Write, TypeOK
        <3>2. Follows(left[w], task[w])'
            BY <2>1, <2>2, <2>7, <2>9, <2>11 DEF Follows, KindAt
        <3> QED
            BY <2>1, <2>5, <2>6, <2>7, <2>8, <3>1, <3>2 DEF WriterInv
    <2> QED
        BY <2>10, <2>11
<1>4. CASE Remove(w)
    <2>1. /\ UNCHANGED <<out, pc, task, left>>
          /\ wpc[w] = "remove" /\ mutex' = NoOne
        BY <1>4 DEF Remove
    <2>2. Framed' /\ Whole' = Whole /\ \A n, r : Follows(n, r)' = Follows(n, r)
        BY <2>1 DEF Framed, Whole, Follows
    <2>3. wpc'[w] = "signal" /\ \A v \in Worker \ {w} : wpc'[v] = wpc[v]
        BY <1>4 DEF Remove, TypeOK
    <2>4. \A v \in Worker : v # w => wpc[v] \notin {"write", "remove"}
        BY <2>1 DEF WriterInv
    <2>5. Whole /\ task[w] \in Req
        BY <2>1, <2>4 DEF WriterInv
    <2> QED
        BY <2>1, <2>2, <2>3, <2>4, <2>5, ConstantsAssumption DEF WriterInv
<1>5. CASE Signal(w) \/ UseReleased(w)
    <2>1. UNCHANGED <<out, mutex, left>> /\ wpc[w] \in {"lock", "signal"}
        BY <1>5 DEF Signal, UseReleased
    <2>2. Framed' /\ Whole' = Whole /\ \A n, r : Follows(n, r)' = Follows(n, r)
        BY <2>1 DEF Framed, Whole, Follows
    <2>3. wpc'[w] = "idle" /\ \A v \in Worker \ {w} :
                                  wpc'[v] = wpc[v] /\ task'[v] = task[v]
        BY <1>5 DEF Signal, UseReleased, TypeOK
    <2>4. pc' = "done" => pc = "done"
        BY <1>5 DEF Signal, UseReleased
    <2> QED
        BY <2>1, <2>2, <2>3, <2>4 DEF WriterInv
<1> QED
    BY <1>1, <1>2, <1>3, <1>4, <1>5 DEF WorkerStep

\* The invariant, for every constant.
THEOREM Invariant == Spec => []IInv
<1>1. Init => IInv
    <2> SUFFICES ASSUME Init PROVE IInv
        OBVIOUS
    <2>1. TypeOK
        BY TypeInit
    <2>2. Framed
        BY DEF Init, Framed
    <2>3. WriterInv
        BY ConstantsAssumption DEF Init, WriterInv, Whole
    <2> QED
        BY <2>1, <2>2, <2>3 DEF IInv
<1>2. IInv /\ [Next]_vars => IInv'
    <2> SUFFICES ASSUME IInv, [Next]_vars PROVE IInv'
        OBVIOUS
    <2> USE DEF IInv
    <2>1. CASE Peer
        <3>1. UNCHANGED <<mutex, out, poolVars, pc>>
            BY <2>1 DEF Peer, PeerBegin, PeerData, PeerEnd, PeerAbort,
                PeerGetValues, PeerStray, PeerHangup, PeerUnchanged, serverVars
        <3> QED
            BY <2>1, <3>1, TypePeer, WriterOther
    <2>2. CASE Server \/ SpuriousWakeup
        BY <2>2, TypeServer, WriterServer
    <2>3. ASSUME NEW w \in Worker, WorkerStep(w) PROVE IInv'
        BY <2>3, TypeWorker, WriterWorker
    <2>4. ASSUME NEW r \in Req, Overwrite(r) PROVE IInv'
        <3>1. UNCHANGED <<mutex, out, poolVars, pc>>
            BY <2>4 DEF Overwrite, serverVars
        <3> QED
            BY <2>4, <3>1, TypeOverwrite, WriterOther
    <2>5. CASE UNCHANGED vars
        <3>1. TypeOK'
            BY <2>5 DEF TypeOK, vars, peerVars, serverVars, memVars, poolVars
        <3>2. UNCHANGED <<mutex, out, poolVars, pc>>
            BY <2>5 DEF vars, serverVars
        <3> QED
            BY <3>1, <3>2, WriterOther
    <2> QED
        BY <2>1, <2>2, <2>3, <2>4, <2>5 DEF Next, Terminated
<1> QED
    BY <1>1, <1>2, PTL DEF Spec

\* The variables keep their types.
THEOREM TypeCorrect == Spec => []TypeOK
    BY Invariant, PTL DEF IInv

\* Whatever the web server sends and however many threads answer, each
\* response goes out in one piece.
THEOREM ResponsesFramed == Spec => []Framed
    BY Invariant, PTL DEF IInv

\* And the connection is not released in the middle of one.
THEOREM ResponsesNotCutShort == Spec => []NotCutShort
<1>1. IInv => NotCutShort
    BY ConstantsAssumption DEF IInv, WriterInv, NotCutShort
<1> QED
    BY <1>1, Invariant, PTL

-----------------------------------------------------------------------------
(* A web server that follows the protocol: it keeps the connection or not  *)
(* and hangs up when it likes.                                             *)

Orderly == Moves \subseteq {"keep", "nokeep", "hangup"}

-----------------------------------------------------------------------------
(* The invariant.                                                          *)

Reading == pc \in {"read", "handle"}

\* What may be on its way to the server thread: a record of the transaction
\* last begun on its id, which has not been submitted.
Sent(rec) ==
    /\ rec.id \in Id
    /\ rec.type \in {"BEGIN", "PARAMS", "STDIN", "STDIN_END"}
    /\ phase[rec.id] # "idle" /\ tx[rec.id] \notin pushed
    /\ rec.type = "BEGIN" =>
          /\ rec.role = "RESPONDER" /\ rec.valid
          /\ rec.req = tx[rec.id] /\ life[rec.req] = "unborn"
    /\ rec.type = "STDIN_END" => phase[rec.id] = "ended"

\* On each id BEGIN comes first and the end of the body last.
InOrder(a, b) == a.id = b.id => a.type # "STDIN_END" /\ b.type # "BEGIN"

\* The record that is handled, or one that is on the wire.
Flying(b) ==
    \/ pc = "handle" /\ b = record
    \/ \E j \in 1..Len(wire) : b = wire[j]

WireInv ==
    /\ \A b \in Record : Flying(b) => Sent(b)
    /\ pc = "handle" => record \in Record
    /\ \A j, k \in 1..Len(wire) : j < k => InOrder(wire[j], wire[k])
    /\ pc = "handle" => \A k \in 1..Len(wire) : InOrder(record, wire[k])

\* A BEGIN on i has been sent and not been handled.
Begins(i) ==
    \/ pc = "handle" /\ record.id = i /\ record.type = "BEGIN"
    \/ \E j \in 1..Len(wire) : wire[j].id = i /\ wire[j].type = "BEGIN"

\* A thread of the pool is about to take r out of the table.
Removing(r) == \E w \in Worker : wpc[w] = "remove" /\ task[w] = r

\* The transaction of an id, and the request the table holds for it.
IdInv ==
    \A i \in Id :
        /\ phase[i] = "idle" <=> tx[i] = NoReq
        /\ phase[i] = "idle" => requests[i] = NoReq
        /\ tx[i] # NoReq =>
              tx[i] \in used /\ \A k \in Id : tx[k] = tx[i] => k = i
        /\ tx[i] \in pushed => phase[i] = "ended"
        /\ phase[i] # "idle" /\ ~Begins(i) =>
              /\ life[tx[i]] # "unborn" /\ rid[tx[i]] = i
              /\ tx[i] \notin pushed /\ Reading =>
                    life[tx[i]] = "live" /\ requests[i] = tx[i]
        /\ requests[i] # NoReq =>
              /\ rid[requests[i]] = i /\ life[requests[i]] # "unborn"
              /\ requests[i] = tx[i] \/ Removing(requests[i])
              /\ Ended(requests[i]) => Removing(requests[i])

ServerInv ==
    /\ pc = "handle" =>
          IF record.type = "BEGIN" THEN request = NoReq /\ requests[record.id] = NoReq
                                   ELSE request = tx[record.id]
    /\ pc \in {"read", "cleanup"} /\ request # NoReq =>
          request \notin pushed /\ life[request] = "live"
    /\ pc \in {"wait", "asleep"} => request \in pushed /\ ~keep[request]
    /\ pc \in {"hack_cond", "hack_mutex", "done"} => request = NoReq
    /\ pc # "crashed"
    /\ ClosedForAReason

\* A request that the pool still has to answer.
Owned(r) == life[r] = "live" /\ r \in pushed /\ rid[r] \in Id /\ requests[rid[r]] = r

PoolInv ==
    /\ \A r \in pushed :
          /\ life[r] # "unborn" /\ rid[r] \in Id
          /\ life[r] = "freed" => Ended(r)
    /\ \A r \in Req : life[r] # "unborn" => r \in used
    /\ \A r \in Req : Ended(r) => r \in pushed
    /\ \A r \in Req : processed[r] => Ended(r)
    /\ \A j \in 1..Len(queue) :
          /\ Owned(queue[j]) /\ ~Ended(queue[j])
          /\ \A w \in Worker : task[w] # queue[j]
    /\ \A j, k \in 1..Len(queue) : queue[j] = queue[k] => j = k
    /\ \A w \in Worker :
          /\ wpc[w] = "idle" => task[w] = NoReq
          /\ wpc[w] # "idle" =>
                task[w] \in pushed /\ \A v \in Worker : task[v] = task[w] => v = w
          /\ wpc[w] \in {"lock", "write", "remove"} => Owned(task[w])
          /\ wpc[w] \in {"lock", "write"} => ~Ended(task[w])
          /\ wpc[w] \in {"remove", "signal"} => Ended(task[w])

OrderInv == WireInv /\ IdInv /\ ServerInv /\ PoolInv

\* The answers on the stream.
AnswerInv ==
    \A j \in 1..Len(out) : out[j].kind = "END" =>
        /\ out[j].req \in pushed /\ out[j].id = rid[out[j].req]
        /\ \A k \in 1..Len(out) :
               out[k].kind = "END" /\ out[k].req = out[j].req => k = j

-----------------------------------------------------------------------------
(* Sequences and records.                                                  *)

LEMMA AppendAt ==
    ASSUME NEW S, NEW s \in Seq(S), NEW e \in S
    PROVE  /\ Append(s, e) \in Seq(S) /\ Len(Append(s, e)) = Len(s) + 1
           /\ \A j \in 1..Len(s) : Append(s, e)[j] = s[j]
           /\ Append(s, e)[Len(s) + 1] = e
    OBVIOUS

LEMMA TailAt ==
    ASSUME NEW S, NEW s \in Seq(S), s # <<>>
    PROVE  /\ Head(s) \in S /\ Head(s) = s[1] /\ 1 \in 1..Len(s)
           /\ Tail(s) \in Seq(S) /\ Len(Tail(s)) = Len(s) - 1
           /\ \A j \in 1..Len(Tail(s)) : j + 1 \in 1..Len(s) /\ Tail(s)[j] = s[j + 1]
    OBVIOUS

LEMMA BeginsFlies ==
    ASSUME NEW i
    PROVE  Begins(i) <=> \E b : Flying(b) /\ b.id = i /\ b.type = "BEGIN"
    BY DEF Begins, Flying

\* A record is sent: it is in order after all those that are on their way.
LEMMA WireAppend ==
    ASSUME WireInv, wire \in Seq(Record), NEW rec \in Record, wire' = Append(wire, rec),
           UNCHANGED <<pc, record>>, Sent(rec)',
           \A b \in Record : Flying(b) /\ Sent(b) => Sent(b)' /\ InOrder(b, rec)
    PROVE  /\ WireInv'
           /\ \A i : Begins(i)' <=> Begins(i) \/ (rec.id = i /\ rec.type = "BEGIN")
<1>1. /\ Len(wire) \in Nat /\ Len(wire') = Len(wire) + 1
      /\ \A j \in 1..Len(wire) : wire[j] \in Record /\ wire'[j] = wire[j]
      /\ wire'[Len(wire) + 1] = rec
      /\ \A j \in 1..Len(wire') : j \in 1..Len(wire) \/ j = Len(wire) + 1
      /\ \A j \in 1..Len(wire) : j \in 1..Len(wire')
      /\ Len(wire) + 1 \in 1..Len(wire')
    BY AppendAt
<1>2. \A b : Flying(b)' <=> Flying(b) \/ b = rec
    BY <1>1 DEF Flying
<1>3. \A b \in Record : Flying(b)' => Sent(b)'
    BY <1>2 DEF WireInv
<1>4. \A j \in 1..Len(wire) : InOrder(wire[j], rec)
    BY <1>1 DEF WireInv, Flying
<1>5. pc = "handle" => record \in Record /\ InOrder(record, rec)
    BY DEF WireInv, Flying
<1>6. \A j, k \in 1..Len(wire') : j < k => InOrder(wire'[j], wire'[k])
    <2> SUFFICES ASSUME NEW j \in 1..Len(wire'), NEW k \in 1..Len(wire'), j < k
                 PROVE  InOrder(wire'[j], wire'[k])
        OBVIOUS
    <2>1. j \in 1..Len(wire)
        BY <1>1
    <2> QED
        BY <1>1, <1>4, <2>1 DEF WireInv
<1>7. pc' = "handle" => \A k \in 1..Len(wire') : InOrder(record', wire'[k])
    BY <1>1, <1>5 DEF WireInv
<1>8. WireInv'
    BY <1>3, <1>5, <1>6, <1>7 DEF WireInv
<1>9. \A i : Begins(i)' <=> Begins(i) \/ (rec.id = i /\ rec.type = "BEGIN")
    BY <1>1 DEF Begins
<1> QED
    BY <1>8, <1>9

\* No record moves on the wire; the one that is handled may be done with.
LEMMA WireSame ==
    ASSUME WireInv, UNCHANGED wire,
           pc' = "handle" => pc = "handle" /\ record' = record,
           \A b \in Record : Flying(b) /\ Sent(b) /\ Flying(b)' => Sent(b)'
    PROVE  WireInv'
<1>1. \A b : Flying(b)' => Flying(b)
    BY DEF Flying
<1> QED
    BY <1>1 DEF WireInv

-----------------------------------------------------------------------------
(* The moves of an orderly web server.                                     *)

\* What they leave alone.
LEMMA PeerKeeps ==
    ASSUME PeerUnchanged
    PROVE  /\ UNCHANGED <<pc, record, request, mutex, requests, out, life, rid, keep, size,
                          processed, queue, wpc, task, left, pushed>>
           /\ \A r : Ended(r)' = Ended(r) /\ Removing(r)' = Removing(r)
<1>1. UNCHANGED <<pc, record, request, mutex, requests, out, life, rid, keep, size,
                  processed, queue, wpc, task, left, pushed>>
    BY DEF PeerUnchanged, serverVars, memVars, poolVars
<1>2. \A r : Ended(r)' = Ended(r) /\ Removing(r)' = Removing(r)
    BY <1>1 DEF Ended, Removing
<1> QED
    BY <1>1, <1>2

\* An id that is free has nothing on its way.
LEMMA FreeIdIsQuiet ==
    ASSUME WireInv, IdInv, PoolInv, TypeOK, NEW i \in Id, IdIsFree(i)
    PROVE  /\ \A b \in Record : Flying(b) => b.id # i
           /\ ~Begins(i)
<1>1. phase[i] = "idle" \/ tx[i] \in pushed
    BY DEF IdIsFree, IdInv, PoolInv, TypeOK
<1>2. \A b \in Record : Flying(b) => b.id # i
    BY <1>1 DEF WireInv, Sent
<1>3. \A b : Flying(b) => b \in Record
    BY DEF Flying, WireInv, TypeOK
<1> QED
    BY <1>2, <1>3, BeginsFlies

LEMMA OrderPeerBegin ==
    ASSUME TypeOK, OrderInv, NEW i \in Id, NEW r \in Req, NEW k \in BOOLEAN,
           PeerBegin(i, r, k)
    PROVE  OrderInv'
<1> DEFINE rec == [type |-> "BEGIN", id |-> i, req |-> r, role |-> "RESPONDER",
                   keep |-> k, valid |-> TRUE]
<1>1. /\ wire' = Append(wire, rec)
      /\ tx' = [tx EXCEPT ![i] = r] /\ phase' = [phase EXCEPT ![i] = "begun"]
      /\ used' = used \cup {r} /\ IdIsFree(i) /\ r \notin used
      /\ UNCHANGED <<hungup, sent>>
      /\ UNCHANGED <<pc, record, request, mutex, requests, out, life, rid, keep, size,
                     processed, queue, wpc, task, left, pushed>>
      /\ \A x : Ended(x)' = Ended(x) /\ Removing(x)' = Removing(x)
    BY PeerKeeps DEF PeerBegin, Send
<1>2. rec \in Record /\ rec.id = i /\ rec.type = "BEGIN" /\ rec.req = r
      /\ rec.role = "RESPONDER" /\ rec.valid
    BY DEF Record, BeginRecord, Role
<1> HIDE DEF rec
<1>3. (\A b \in Record : Flying(b) => b.id # i) /\ ~Begins(i)
    BY <1>1, FreeIdIsQuiet DEF OrderInv
<1>4. life[r] = "unborn" /\ r \notin pushed /\ r # NoReq /\ \A m \in Id : tx[m] # r
    BY <1>1, ConstantsAssumption DEF OrderInv, PoolInv, IdInv, TypeOK
<1>5. /\ tx'[i] = r /\ phase'[i] = "begun"
      /\ \A m \in Id \ {i} : tx'[m] = tx[m] /\ phase'[m] = phase[m]
    BY <1>1 DEF TypeOK
<1>6. Sent(rec)'
    BY <1>1, <1>2, <1>4, <1>5 DEF Sent
<1>7. \A b \in Record : Flying(b) /\ Sent(b) => Sent(b)' /\ InOrder(b, rec)
    BY <1>1, <1>2, <1>3, <1>5 DEF Sent, InOrder
<1>8. WireInv' /\ \A m : Begins(m)' <=> Begins(m) \/ m = i
    BY <1>1, <1>2, <1>6, <1>7, WireAppend DEF OrderInv, TypeOK
<1>9. IdInv'
    <2>1. Reading' = Reading
        BY <1>1 DEF Reading
    <2>2. requests[i] # NoReq =>
              /\ rid[requests[i]] = i /\ life[requests[i]] # "unborn" /\ Removing(requests[i])
        <3>1. phase[i] = "idle" => requests[i] = NoReq
            BY DEF OrderInv, IdInv
        <3>2. phase[i] # "idle" => Ended(tx[i])
            BY <1>1 DEF IdIsFree
        <3> QED
            BY <3>1, <3>2 DEF OrderInv, IdInv
    <2> QED
        BY <1>1, <1>4, <1>5, <1>8, <2>1, <2>2 DEF OrderInv, IdInv
<1>10. ServerInv'
    <2>1. pc = "handle" => record \in Record /\ record.id \in Id /\ record.id # i
        BY <1>3 DEF OrderInv, WireInv, Flying, Sent
    <2> QED
        BY <1>1, <1>5, <2>1 DEF OrderInv, ServerInv, ClosedForAReason
<1>11. PoolInv'
    BY <1>1 DEF OrderInv, PoolInv, Owned
<1> QED
    BY <1>8, <1>9, <1>10, <1>11 DEF OrderInv

\* A record of a transaction that was begun and not ended.
LEMMA OrderPeerMore ==
    ASSUME TypeOK, OrderInv, NEW i \in Id,
           (\E t \in {"PARAMS", "STDIN"} : PeerData(i, t)) \/ PeerEnd(i)
    PROVE  OrderInv'
<1>1. PICK t \in {"PARAMS", "STDIN", "STDIN_END"} :
          /\ wire' = Append(wire, [type |-> t, id |-> i])
          /\ phase' = IF t = "STDIN_END" THEN [phase EXCEPT ![i] = "ended"] ELSE phase
          /\ phase[i] = "begun"
          /\ UNCHANGED <<hungup, tx, used>>
          /\ UNCHANGED <<pc, record, request, mutex, requests, out, life, rid, keep, size,
                         processed, queue, wpc, task, left, pushed>>
          /\ \A x : Ended(x)' = Ended(x) /\ Removing(x)' = Removing(x)
    BY PeerKeeps DEF PeerData, PeerEnd, Send
<1> DEFINE rec == [type |-> t, id |-> i]
<1>2. rec \in Record /\ rec.id = i /\ rec.type = t
    BY DEF Record, PlainRecord, PlainType, RecId
<1> HIDE DEF rec
<1>3. tx[i] \notin pushed /\ tx[i] # NoReq
    BY <1>1 DEF OrderInv, IdInv
<1>4. phase'[i] = (IF t = "STDIN_END" THEN "ended" ELSE "begun")
      /\ \A m \in Id \ {i} : phase'[m] = phase[m]
    BY <1>1 DEF TypeOK
<1>5. Sent(rec)'
    BY <1>1, <1>2, <1>3, <1>4 DEF Sent
<1>6. \A b \in Record : Flying(b) /\ Sent(b) => Sent(b)' /\ InOrder(b, rec)
    BY <1>1, <1>2, <1>4 DEF Sent, InOrder
<1>7. WireInv' /\ \A m : Begins(m)' <=> Begins(m)
    BY <1>1, <1>2, <1>5, <1>6, WireAppend DEF OrderInv, TypeOK, rec
<1>8. IdInv'
    <2>1. Reading' = Reading
        BY <1>1 DEF Reading
    <2> QED
        BY <1>1, <1>3, <1>4, <1>7, <2>1 DEF OrderInv, IdInv
<1>9. ServerInv'
    BY <1>1 DEF OrderInv, ServerInv, ClosedForAReason
<1>10. PoolInv'
    BY <1>1 DEF OrderInv, PoolInv, Owned
<1> QED
    BY <1>7, <1>8, <1>9, <1>10 DEF OrderInv

\* It does nothing else but hang up.
LEMMA OrderPeer ==
    ASSUME Orderly, TypeOK, OrderInv, Peer
    PROVE  OrderInv'
<1>1. ASSUME NEW rec \in StrayRecord PROVE ~PeerStray(rec)
    BY DEF PeerStray, Orderly
<1>2. ASSUME NEW i \in Id PROVE ~PeerAbort(i)
    BY DEF PeerAbort, Orderly
<1>3. ~PeerGetValues
    BY DEF PeerGetValues, Orderly
<1>4. CASE PeerHangup
    <2>1. /\ UNCHANGED <<wire, tx, phase, used, sent>>
          /\ UNCHANGED <<pc, record, request, mutex, requests, out, life, rid, keep, size,
                         processed, queue, wpc, task, left, pushed>>
          /\ \A x : Ended(x)' = Ended(x) /\ Removing(x)' = Removing(x)
          /\ hungup'
        BY <1>4, PeerKeeps DEF PeerHangup
    <2>2. WireInv'
        BY <2>1, WireSame DEF OrderInv, Sent
    <2>3. \A m : Begins(m)' = Begins(m) /\ Reading' = Reading
        BY <2>1 DEF Begins, Reading
    <2>4. IdInv'
        BY <2>1, <2>3 DEF OrderInv, IdInv
    <2>5. ServerInv'
        BY <2>1 DEF OrderInv, ServerInv, ClosedForAReason
    <2>6. PoolInv'
        BY <2>1 DEF OrderInv, PoolInv, Owned
    <2> QED
        BY <2>2, <2>4, <2>5, <2>6 DEF OrderInv
<1> QED
    BY <1>1, <1>2, <1>3, <1>4, OrderPeerBegin, OrderPeerMore DEF Peer

-----------------------------------------------------------------------------
(* The server thread.                                                      *)

\* The request of a record that is handled: a BEGIN finds none, and any other
\* record the one it was sent for, that the pool does not have yet.
LEMMA HandledRequest ==
    ASSUME TypeOK, OrderInv, pc = "handle"
    PROVE  /\ record \in Record /\ Sent(record) /\ record.id \in Id /\ Reading
           /\ IF record.type = "BEGIN"
              THEN /\ request = NoReq /\ requests[record.id] = NoReq
                   /\ record \in BeginRecord /\ Begins(record.id)
                   /\ \A j \in 1..Len(wire) :
                          ~(wire[j].id = record.id /\ wire[j].type = "BEGIN")
              ELSE /\ request = tx[record.id] /\ request \in Req /\ request \notin pushed
                   /\ life[request] = "live" /\ rid[request] = record.id
                   /\ requests[record.id] = request /\ ~Begins(record.id)
<1>1. record \in Record /\ Sent(record) /\ record.id \in Id /\ Reading
    BY DEF OrderInv, WireInv, Flying, Sent, Reading
<1>2. \A j \in 1..Len(wire) : ~(wire[j].id = record.id /\ wire[j].type = "BEGIN")
    BY DEF OrderInv, WireInv, InOrder
<1>3. CASE record.type = "BEGIN"
    BY <1>1, <1>2, <1>3, RecordFields DEF OrderInv, ServerInv, Begins
<1>4. CASE record.type # "BEGIN"
    <2>1. ~Begins(record.id)
        BY <1>2, <1>4 DEF Begins
    <2>2. request = tx[record.id] /\ request \notin pushed /\ phase[record.id] # "idle"
        BY <1>1, <1>4 DEF OrderInv, ServerInv, Sent
    <2>3. request \in Req
        BY <1>1, <2>2 DEF OrderInv, IdInv, TypeOK
    <2> QED
        BY <1>1, <1>4, <2>1, <2>2, <2>3 DEF OrderInv, IdInv
<1> QED
    BY <1>1, <1>3, <1>4

LEMMA OrderReadRecord ==
    ASSUME TypeOK, WriterInv, OrderInv, ReadRecord
    PROVE  OrderInv'
<1>1. /\ pc = "read" /\ pc' = "handle" /\ mutex = NoOne
      /\ record' = wire[1] /\ wire' = Tail(wire) /\ request' = requests[record'.id]
      /\ UNCHANGED <<hungup, tx, phase, used, sent, requests, out, life, rid, keep, size,
                     processed, queue, wpc, task, left, pushed>>
      /\ record' \in Record
      /\ Len(wire) \in Nat /\ Len(wire') = Len(wire) - 1 /\ 1 \in 1..Len(wire)
      /\ \A j \in 1..Len(wire') : j + 1 \in 1..Len(wire) /\ wire'[j] = wire[j + 1]
    BY TailAt DEF ReadRecord, MutexFree, peerVars, memVars, poolVars, TypeOK
<1>2. \A b : Flying(b)' <=> Flying(b)
    <2>1. \A j \in 1..Len(wire) : j = 1 \/ (j - 1 \in 1..Len(wire') /\ wire[j] = wire'[j - 1])
        BY <1>1
    <2> QED
        BY <1>1, <2>1 DEF Flying
<1>3. \A i : Begins(i)' = Begins(i)
    <2>1. \A i : Begins(i)' <=> \E b : Flying(b)' /\ b.id = i /\ b.type = "BEGIN"
        BY DEF Begins, Flying
    <2> QED
        BY <1>2, <2>1, BeginsFlies
<1>4. (\A r : Ended(r)' = Ended(r) /\ Removing(r)' = Removing(r)) /\ Reading' = Reading
    BY <1>1 DEF Ended, Removing, Reading
<1>5. WireInv'
    <2>1. \A b \in Record : Flying(b)' => Sent(b)'
        BY <1>1, <1>2 DEF OrderInv, WireInv, Sent
    <2>2. \A j, k \in 1..Len(wire') : j < k => InOrder(wire'[j], wire'[k])
        <3> SUFFICES ASSUME NEW j \in 1..Len(wire'), NEW k \in 1..Len(wire'), j < k
                     PROVE  InOrder(wire'[j], wire'[k])
            OBVIOUS
        <3>1. j + 1 \in 1..Len(wire) /\ k + 1 \in 1..Len(wire) /\ j + 1 < k + 1
            BY <1>1
        <3>2. InOrder(wire[j + 1], wire[k + 1])
            BY <3>1 DEF OrderInv, WireInv
        <3> QED
            BY <1>1, <3>2
    <2>3. \A k \in 1..Len(wire') : InOrder(record', wire'[k])
        <3> SUFFICES ASSUME NEW k \in 1..Len(wire') PROVE InOrder(record', wire'[k])
            OBVIOUS
        <3>1. k + 1 \in 1..Len(wire) /\ 1 < k + 1
            BY <1>1
        <3>2. InOrder(wire[1], wire[k + 1])
            BY <1>1, <3>1 DEF OrderInv, WireInv
        <3> QED
            BY <1>1, <3>2
    <2> QED
        BY <1>1, <2>1, <2>2, <2>3 DEF WireInv
<1>6. IdInv'
    BY <1>1, <1>3, <1>4 DEF OrderInv, IdInv
<1>7. ServerInv'
    <2>1. Flying(record') /\ Sent(record')
        BY <1>1 DEF Flying, OrderInv, WireInv
    <2>2. record'.id \in Id /\ phase[record'.id] # "idle" /\ tx[record'.id] \notin pushed
          /\ Reading
        BY <1>1, <2>1 DEF Sent, Reading
    <2>3. CASE record'.type = "BEGIN"
        <3>1. record'.req = tx[record'.id] /\ life[tx[record'.id]] = "unborn"
            BY <2>1, <2>3 DEF Sent
        <3>2. \A r : ~Removing(r)
            BY <1>1, ConstantsAssumption DEF Removing, WriterInv
        <3>3. requests[record'.id] = NoReq
            BY <2>2, <3>1, <3>2 DEF OrderInv, IdInv
        <3> QED
            BY <1>1, <2>3, <3>3 DEF OrderInv, ServerInv, ClosedForAReason, Closing
    <2>4. CASE record'.type # "BEGIN"
        <3>1. ~Begins(record'.id)
            <4> SUFFICES ASSUME NEW j \in 1..Len(wire), wire[j].id = record'.id,
                                wire[j].type = "BEGIN"
                         PROVE  FALSE
                BY <1>1 DEF Begins
            <4>1. 1 < j
                BY <1>1, <2>4
            <4> QED
                BY <1>1, <4>1 DEF OrderInv, WireInv, InOrder
        <3>2. request' = tx[record'.id]
            BY <1>1, <2>2, <3>1 DEF OrderInv, IdInv
        <3> QED
            BY <1>1, <2>4, <3>2 DEF OrderInv, ServerInv, ClosedForAReason, Closing
    <2> QED
        BY <2>3, <2>4
<1>8. PoolInv'
    BY <1>1, <1>4 DEF OrderInv, PoolInv, Owned
<1> QED
    BY <1>5, <1>6, <1>7, <1>8 DEF OrderInv

LEMMA OrderBeginResponder ==
    ASSUME TypeOK, OrderInv, BeginResponder
    PROVE  OrderInv'
<1> DEFINE r == record.req
           i == record.id
<1>1. /\ pc = "handle" /\ pc' = "read" /\ record.type = "BEGIN" /\ record' = NoRecord
      /\ request' = r /\ requests' = [requests EXCEPT ![i] = r]
      /\ life' = [life EXCEPT ![r] = "live"] /\ rid' = [rid EXCEPT ![r] = i]
      /\ keep' = [keep EXCEPT ![r] = record.keep]
      /\ processed' = [processed EXCEPT ![r] = FALSE]
      /\ UNCHANGED <<wire, hungup, tx, phase, used, sent, out, queue, wpc, task, left,
                     pushed>>
    BY DEF BeginResponder, AcceptsBegin, Handling, peerVars, poolVars
<1>2. /\ record \in BeginRecord /\ i \in Id /\ r \in Req
      /\ r = tx[i] /\ life[r] = "unborn" /\ r \notin pushed /\ phase[i] # "idle"
      /\ requests[i] = NoReq
      /\ \A j \in 1..Len(wire) : ~(wire[j].id = i /\ wire[j].type = "BEGIN")
      /\ Reading
    BY <1>1, HandledRequest DEF Sent, BeginRecord
<1> HIDE DEF r, i
<1>3. /\ requests'[i] = r /\ life'[r] = "live" /\ rid'[r] = i /\ ~processed'[r]
      /\ \A m \in RecId \ {i} : requests'[m] = requests[m]
      /\ \A x \in Req \ {r} : /\ life'[x] = life[x] /\ rid'[x] = rid[x]
                              /\ keep'[x] = keep[x] /\ processed'[x] = processed[x]
    BY <1>1, <1>2 DEF TypeOK, RecId
<1>4. /\ r \in used /\ ~Ended(r) /\ r # NoReq
      /\ \A m \in Id : tx[m] = r => m = i
      /\ \A m \in Id : requests[m] # r
    BY <1>2, ConstantsAssumption DEF OrderInv, IdInv, PoolInv
<1>5. \A x : Ended(x)' = Ended(x) /\ Removing(x)' = Removing(x)
    BY <1>1 DEF Ended, Removing
<1>6. (\A m : Begins(m)' <=> Begins(m) /\ m # i) /\ Reading'
    BY <1>1, <1>2 DEF Begins, Reading, i
<1>7. WireInv'
    <2>1. ASSUME NEW b \in Record, Flying(b), Sent(b), Flying(b)' PROVE Sent(b)'
        <3>1. b.type = "BEGIN" => b.id # i
            BY <1>1, <1>2, <2>1 DEF Flying
        <3>2. b.type = "BEGIN" => tx[b.id] # r /\ tx[b.id] \in Req
            BY <1>4, <2>1, <3>1 DEF Sent, OrderInv, IdInv, TypeOK
        <3> QED
            BY <1>1, <1>3, <2>1, <3>2 DEF Sent
    <2> QED
        BY <1>1, <2>1, WireSame DEF OrderInv
<1>8. IdInv'
    <2> SUFFICES ASSUME NEW m \in Id
                 PROVE  /\ phase'[m] = "idle" <=> tx'[m] = NoReq
                        /\ phase'[m] = "idle" => requests'[m] = NoReq
                        /\ tx'[m] # NoReq =>
                              tx'[m] \in used' /\ \A k \in Id : tx'[k] = tx'[m] => k = m
                        /\ tx'[m] \in pushed' => phase'[m] = "ended"
                        /\ phase'[m] # "idle" /\ ~Begins(m)' =>
                              /\ life'[tx'[m]] # "unborn" /\ rid'[tx'[m]] = m
                              /\ tx'[m] \notin pushed' /\ Reading' =>
                                    life'[tx'[m]] = "live" /\ requests'[m] = tx'[m]
                        /\ requests'[m] # NoReq =>
                              /\ rid'[requests'[m]] = m /\ life'[requests'[m]] # "unborn"
                              /\ requests'[m] = tx'[m] \/ Removing(requests'[m])
                              /\ Ended(requests'[m]) => Removing(requests'[m])
        BY <1>5 DEF IdInv
    <2>1. m \in RecId /\ tx[m] \in Req \cup {NoReq} /\ requests[m] \in Req \cup {NoReq}
        BY DEF TypeOK, RecId
    <2>2. CASE m = i
        BY <1>1, <1>2, <1>3, <1>4, <2>2 DEF OrderInv, IdInv
    <2>3. CASE m # i
        <3>1. tx[m] # r /\ requests[m] # r /\ requests'[m] = requests[m]
            BY <1>3, <1>4, <2>1, <2>3
        <3> QED
            BY <1>1, <1>2, <1>3, <1>6, <2>1, <2>3, <3>1 DEF OrderInv, IdInv
    <2> QED
        BY <2>2, <2>3
<1>9. ServerInv'
    BY <1>1, <1>2, <1>3 DEF OrderInv, ServerInv, ClosedForAReason, Closing
<1>10. PoolInv'
    <2>1. \A x \in pushed : x \in Req /\ x # r
        BY <1>2 DEF TypeOK
    <2>2. \A x : Owned(x) => Owned(x)'
        <3> SUFFICES ASSUME NEW x, Owned(x) PROVE Owned(x)'
            OBVIOUS
        <3>1. x \in pushed /\ x \in Req /\ x # r /\ rid[x] \in Id /\ requests[rid[x]] = x
            BY <2>1 DEF Owned
        <3>2. rid[x] # i /\ rid[x] \in RecId
            BY <1>2, <3>1, ConstantsAssumption DEF RecId
        <3> QED
            BY <1>1, <1>3, <3>1, <3>2 DEF Owned
    <2> QED
        BY <1>1, <1>2, <1>3, <1>4, <1>5, <2>1, <2>2 DEF OrderInv, PoolInv
<1> QED
    BY <1>7, <1>8, <1>9, <1>10 DEF OrderInv

LEMMA OrderAppendData ==
    ASSUME TypeOK, OrderInv, AppendData
    PROVE  OrderInv'
<1>1. /\ pc = "handle" /\ pc' = "read" /\ record.type # "BEGIN"
      /\ UNCHANGED <<wire, hungup, tx, phase, used, sent, request, requests, out, life, rid,
                     keep, processed, queue, wpc, task, left, pushed>>
    BY DEF AppendData, Handling, peerVars, poolVars
<1>2. \A x : Ended(x)' = Ended(x) /\ Removing(x)' = Removing(x)
    BY <1>1 DEF Ended, Removing
<1>3. (\A m : Begins(m)' <=> Begins(m)) /\ Reading' = Reading
    BY <1>1 DEF Begins, Reading
<1>4. WireInv'
    BY <1>1, WireSame DEF OrderInv, Sent
<1>5. IdInv'
    BY <1>1, <1>2, <1>3 DEF OrderInv, IdInv
<1>6. ServerInv'
    BY <1>1, HandledRequest DEF OrderInv, ServerInv, ClosedForAReason, Closing
<1>7. PoolInv'
    BY <1>1, <1>2 DEF OrderInv, PoolInv, Owned
<1> QED
    BY <1>4, <1>5, <1>6, <1>7 DEF OrderInv

LEMMA OrderDispatch ==
    ASSUME TypeOK, OrderInv, Dispatch
    PROVE  OrderInv'
<1> DEFINE r == request
           i == record.id
<1>1. /\ pc = "handle" /\ record.type = "STDIN_END" /\ record' = NoRecord
      /\ pc' = (IF keep[r] THEN "read" ELSE "wait")
      /\ request' = (IF keep[r] THEN NoReq ELSE r)
      /\ queue' = Append(queue, r) /\ pushed' = pushed \cup {r}
      /\ UNCHANGED <<wire, hungup, tx, phase, used, sent, requests, out, life, rid,
                     keep, processed, wpc, task, left>>
    BY DEF Dispatch, Handling, peerVars, memVars, poolVars
<1>2. /\ i \in Id /\ r = tx[i] /\ r \in Req /\ r \notin pushed /\ life[r] = "live"
      /\ rid[r] = i /\ requests[i] = r /\ phase[i] = "ended" /\ Reading
      /\ \A j \in 1..Len(wire) : wire[j].id # i
    <2>1. \A j \in 1..Len(wire) : wire[j].id # i
        BY <1>1 DEF OrderInv, WireInv, InOrder
    <2> QED
        BY <1>1, <2>1, HandledRequest DEF Sent
<1>3. /\ Len(queue) \in Nat /\ Len(queue') = Len(queue) + 1
      /\ \A j \in 1..Len(queue) : queue'[j] = queue[j] /\ queue[j] \in pushed
      /\ queue'[Len(queue) + 1] = r
      /\ \A j \in 1..Len(queue') : j \in 1..Len(queue) \/ j = Len(queue) + 1
    <2>1. \A j \in 1..Len(queue) : queue[j] \in pushed
        BY DEF OrderInv, PoolInv, Owned
    <2> QED
        BY <1>1, <1>2, <2>1, AppendAt DEF TypeOK
<1> HIDE DEF r, i
<1>4. /\ ~Ended(r) /\ r # NoReq
      /\ \A m \in Id : tx[m] = r => m = i
      /\ \A w \in Worker : task[w] # r
    BY <1>2, ConstantsAssumption DEF OrderInv, IdInv, PoolInv
<1>5. \A x : Ended(x)' = Ended(x) /\ Removing(x)' = Removing(x)
    BY <1>1 DEF Ended, Removing
<1>6. (\A m : Begins(m)' <=> Begins(m)) /\ (Reading' => Reading)
    BY <1>1, <1>2 DEF Begins, Reading
<1>7. WireInv'
    <2>1. ASSUME NEW b \in Record, Flying(b), Sent(b), Flying(b)' PROVE Sent(b)'
        <3>1. b.id # i
            BY <1>1, <1>2, <2>1 DEF Flying
        <3> QED
            BY <1>1, <1>4, <2>1, <3>1 DEF Sent
    <2> QED
        BY <1>1, <2>1, WireSame DEF OrderInv
<1>8. IdInv'
    BY <1>1, <1>2, <1>4, <1>5, <1>6 DEF OrderInv, IdInv
<1>9. ServerInv'
    BY <1>1, <1>2 DEF OrderInv, ServerInv, ClosedForAReason, Closing, r
<1>10. PoolInv'
    <2>1. \A x : Owned(x) => Owned(x)'
        BY <1>1 DEF Owned
    <2>2. \A x : x = r => Owned(x)'
        BY <1>1, <1>2 DEF Owned
    <2>3. \A j \in 1..Len(queue') :
             /\ Owned(queue[j])' /\ ~Ended(queue[j])'
             /\ \A w \in Worker : task'[w] # queue'[j]
        <3> SUFFICES ASSUME NEW j \in 1..Len(queue'), NEW x, x = queue'[j]
                     PROVE  Owned(x)' /\ ~Ended(x) /\ \A w \in Worker : task[w] # x
            BY <1>1, <1>5
        <3>1. CASE j \in 1..Len(queue)
            BY <1>3, <2>1, <3>1 DEF OrderInv, PoolInv
        <3>2. CASE j = Len(queue) + 1
            BY <1>3, <1>4, <2>2, <3>2
        <3> QED
            BY <1>3, <3>1, <3>2
    <2>4. \A j, k \in 1..Len(queue') : queue'[j] = queue'[k] => j = k
        BY <1>2, <1>3 DEF OrderInv, PoolInv
    <2>5. \A x \in pushed' : /\ life'[x] # "unborn" /\ rid'[x] \in Id
                             /\ life'[x] = "freed" => Ended(x)'
        BY <1>1, <1>2, <1>5 DEF OrderInv, PoolInv
    <2>6. \A w \in Worker :
             /\ wpc'[w] = "idle" => task'[w] = NoReq
             /\ wpc'[w] # "idle" =>
                   task'[w] \in pushed' /\ \A v \in Worker : task'[v] = task'[w] => v = w
             /\ wpc'[w] \in {"lock", "write", "remove"} => Owned(task[w])'
             /\ wpc'[w] \in {"lock", "write"} => ~Ended(task[w])'
             /\ wpc'[w] \in {"remove", "signal"} => Ended(task[w])'
        BY <1>1, <1>5, <2>1 DEF OrderInv, PoolInv
    <2> QED
        BY <1>1, <1>5, <2>3, <2>4, <2>5, <2>6 DEF OrderInv, PoolInv
<1> QED
    BY <1>7, <1>8, <1>9, <1>10 DEF OrderInv

\* The steps that neither read a record nor touch the table.
LEMMA OrderWait ==
    ASSUME TypeOK, OrderInv, ReadEof \/ Wait \/ SpuriousWakeup \/ HackCond \/ HackMutex
    PROVE  OrderInv'
<1>1. /\ pc # "handle" /\ pc' # "handle" /\ (Reading' => Reading)
      /\ UNCHANGED <<wire, hungup, tx, phase, used, sent, requests, out, life, rid, keep, size,
                     processed, queue, wpc, task, left, pushed>>
    BY DEF ReadEof, Wait, SpuriousWakeup, HackCond, HackMutex, Reading, peerVars, memVars,
        poolVars
<1>2. \A x : Ended(x)' = Ended(x) /\ Removing(x)' = Removing(x)
    BY <1>1 DEF Ended, Removing
<1>3. \A m : Begins(m)' <=> Begins(m)
    BY <1>1 DEF Begins
<1>4. WireInv'
    BY <1>1, WireSame DEF OrderInv, Sent
<1>5. IdInv'
    BY <1>1, <1>2, <1>3 DEF OrderInv, IdInv
<1>6. PoolInv'
    BY <1>1, <1>2 DEF OrderInv, PoolInv, Owned
<1>7. ServerInv'
    <2> USE DEF OrderInv, ServerInv, ClosedForAReason, Closing
    <2>1. CASE ReadEof
        BY <1>1, <2>1 DEF ReadEof
    <2>2. CASE Wait /\ processed[request]
        <3>1. request \in Req /\ Ended(request) /\ ~keep[request]
            BY <2>2 DEF Wait, PoolInv, TypeOK
        <3>2. pc' = "cleanup" /\ request' = NoReq
            BY <2>2 DEF Wait
        <3> QED
            BY <1>1, <1>2, <3>1, <3>2
    <2>3. CASE (Wait /\ ~processed[request]) \/ SpuriousWakeup
        BY <1>1, <1>2, <2>3 DEF Wait, SpuriousWakeup
    <2>4. CASE HackCond \/ HackMutex
        BY <1>1, <1>2, <2>4 DEF HackCond, HackMutex
    <2> QED
        BY <2>1, <2>2, <2>3, <2>4
<1> QED
    BY <1>4, <1>5, <1>6, <1>7 DEF OrderInv

\* What is freed here was never handed to the pool.
LEMMA OrderCleanup ==
    ASSUME TypeOK, OrderInv, Cleanup
    PROVE  OrderInv'
<1>1. /\ pc = "cleanup" /\ pc' = "hack_cond" /\ request' = NoReq
      /\ life' = (IF request = NoReq THEN life ELSE [life EXCEPT ![request] = "freed"])
      /\ UNCHANGED <<wire, hungup, tx, phase, used, sent, requests, out, rid, keep, size,
                     processed, queue, wpc, task, left, pushed>>
    BY DEF Cleanup, peerVars, poolVars
<1>2. request # NoReq => request \notin pushed /\ life[request] = "live"
    BY <1>1 DEF OrderInv, ServerInv
<1>3. \A x \in Req : life'[x] = life[x]
                     \/ (x \notin pushed /\ life[x] = "live" /\ life'[x] = "freed")
    BY <1>1, <1>2 DEF TypeOK
<1>4. \A x : Ended(x)' = Ended(x) /\ Removing(x)' = Removing(x)
    BY <1>1 DEF Ended, Removing
<1>5. (\A m : Begins(m)' <=> Begins(m)) /\ ~Reading'
    BY <1>1 DEF Begins, Reading
<1>6. WireInv'
    <2>1. ASSUME NEW b \in Record, Flying(b), Sent(b), Flying(b)' PROVE Sent(b)'
        <3>1. b.type = "BEGIN" => b.req \in Req
            BY <2>1, RecordFields DEF BeginRecord
        <3> QED
            BY <1>1, <1>3, <2>1, <3>1 DEF Sent
    <2> QED
        BY <1>1, <2>1, WireSame DEF OrderInv
<1>7. \A x \in Req : life'[x] = "unborn" <=> life[x] = "unborn"
    BY <1>3
<1>8. IdInv'
    <2>1. \A m \in Id : /\ tx[m] \in Req \cup {NoReq}
                        /\ requests[m] \in Req \cup {NoReq}
                        /\ tx[m] # NoReq <=> phase[m] # "idle"
        BY DEF TypeOK, RecId, OrderInv, IdInv
    <2> QED
        BY <1>1, <1>4, <1>5, <1>7, <2>1 DEF OrderInv, IdInv
<1>9. ServerInv'
    BY <1>1, <1>4 DEF OrderInv, ServerInv, ClosedForAReason, Closing
<1>10. PoolInv'
    <2>1. \A x \in pushed : x \in Req /\ life'[x] = life[x]
        BY <1>3 DEF TypeOK
    <2>2. \A x : Owned(x) => Owned(x)'
        BY <1>1, <2>1 DEF Owned
    <2> QED
        BY <1>1, <1>4, <1>7, <2>1, <2>2 DEF OrderInv, PoolInv
<1> QED
    BY <1>6, <1>8, <1>9, <1>10 DEF OrderInv

\* The records that make the thread give up, or crash, are not sent to it.
LEMMA ServerActs ==
    ASSUME TypeOK, OrderInv, Server \/ SpuriousWakeup
    PROVE  \/ ReadRecord \/ BeginResponder \/ AppendData \/ Dispatch \/ Cleanup
           \/ ReadEof \/ Wait \/ SpuriousWakeup \/ HackCond \/ HackMutex
<1>1. ~DropUnexpected /\ ~DropBegin /\ ~BeginUnsupported /\ ~BeginIgnored
      /\ ~ReplyValues /\ ~ReplyUnknown /\ ~IgnoreData
    <2> SUFFICES ASSUME pc = "handle"
                 PROVE  ~DropUnexpected /\ ~DropBegin /\ ~BeginUnsupported /\ ~BeginIgnored
                        /\ ~ReplyValues /\ ~ReplyUnknown /\ ~IgnoreData
        BY DEF DropUnexpected, DropBegin, BeginUnsupported, BeginIgnored, ReplyValues,
            ReplyUnknown, IgnoreData, AcceptsBegin, Handling
    <2>1. Sent(record)
        BY HandledRequest
    <2>2. CASE record.type = "BEGIN"
        BY <2>1, <2>2, HandledRequest
           DEF Sent, DropUnexpected, DropBegin, BeginUnsupported, BeginIgnored, ReplyValues,
               ReplyUnknown, IgnoreData, AcceptsBegin, Handling, PlainType
    <2>3. CASE record.type # "BEGIN"
        BY <2>1, <2>3, HandledRequest, ConstantsAssumption
           DEF Sent, DropUnexpected, DropBegin, BeginUnsupported, BeginIgnored, ReplyValues,
               ReplyUnknown, IgnoreData, AcceptsBegin, Handling
    <2> QED
        BY <2>2, <2>3
<1> QED
    BY <1>1 DEF Server

LEMMA OrderServer ==
    ASSUME TypeOK, WriterInv, OrderInv, Server \/ SpuriousWakeup
    PROVE  OrderInv'
    BY ServerActs, OrderReadRecord, OrderBeginResponder, OrderAppendData, OrderDispatch,
       OrderWait, OrderCleanup

-----------------------------------------------------------------------------
(* The threads of the pool.                                                *)

\* A step that changes neither the table nor what is on its way.
LEMMA OrderPool ==
    ASSUME TypeOK, OrderInv, PoolInv', \A x : Removing(x) => Removing(x)',
           \A x : Ended(x) => Ended(x)',
           \A x \in Req : Ended(x)' => Ended(x) \/ Removing(x)',
           UNCHANGED <<wire, hungup, tx, phase, used, pushed, record, request, requests, life,
                       rid, keep>>,
           pc' = pc \/ (pc = "asleep" /\ pc' = "wait")
    PROVE  OrderInv'
<1>1. (\A m : Begins(m)' <=> Begins(m)) /\ Reading' = Reading
    BY DEF Begins, Reading
<1>2. WireInv'
    BY WireSame DEF OrderInv, Sent
<1>3. \A m \in Id : requests[m] \in Req \cup {NoReq}
    BY DEF TypeOK, RecId
<1>4. IdInv'
    BY <1>1, <1>3 DEF OrderInv, IdInv
<1>5. ServerInv'
    BY DEF OrderInv, ServerInv, ClosedForAReason, Closing
<1> QED
    BY <1>2, <1>4, <1>5 DEF OrderInv

LEMMA OrderTakeTask ==
    ASSUME TypeOK, OrderInv, NEW w \in Worker, TakeTask(w)
    PROVE  OrderInv'
<1> DEFINE r == queue[1]
<1>1. /\ wpc[w] = "idle" /\ wpc' = [wpc EXCEPT ![w] = "lock"]
      /\ task' = [task EXCEPT ![w] = r] /\ queue' = Tail(queue)
      /\ UNCHANGED <<wire, hungup, tx, phase, used, sent, pc, record, request, requests, out,
                     life, rid, keep, size, processed, pushed>>
      /\ Len(queue) \in Nat /\ Len(queue') = Len(queue) - 1 /\ 1 \in 1..Len(queue)
      /\ \A j \in 1..Len(queue') : j + 1 \in 1..Len(queue) /\ queue'[j] = queue[j + 1]
    BY TailAt DEF TakeTask, peerVars, serverVars, memVars, TypeOK
<1>2. Owned(r) /\ ~Ended(r) /\ \A v \in Worker : task[v] # r
    BY <1>1 DEF OrderInv, PoolInv
<1>3. \A j \in 1..Len(queue') : queue'[j] # r
    <2> SUFFICES ASSUME NEW j \in 1..Len(queue') PROVE queue'[j] # r
        OBVIOUS
    <2>1. j + 1 \in 1..Len(queue) /\ queue'[j] = queue[j + 1] /\ j + 1 # 1
        BY <1>1
    <2>2. \A m, n \in 1..Len(queue) : queue[m] = queue[n] => m = n
        BY DEF OrderInv, PoolInv
    <2> QED
        BY <1>1, <2>1, <2>2
<1> HIDE DEF r
<1>4. /\ wpc'[w] = "lock" /\ task'[w] = r
      /\ \A v \in Worker \ {w} : wpc'[v] = wpc[v] /\ task'[v] = task[v]
    BY <1>1 DEF TypeOK
<1>5. (\A x : Ended(x)' = Ended(x)) /\ (\A x : Removing(x) => Removing(x)')
    BY <1>1, <1>4 DEF Ended, Removing
<1>6. \A x : Owned(x)' = Owned(x)
    BY <1>1 DEF Owned
<1>7. PoolInv'
    <2>1. \A j \in 1..Len(queue') :
             /\ Owned(queue[j])' /\ ~Ended(queue[j])'
             /\ \A v \in Worker : task'[v] # queue'[j]
        <3> SUFFICES ASSUME NEW j \in 1..Len(queue'), NEW x, x = queue'[j]
                     PROVE  Owned(x) /\ ~Ended(x) /\ \A v \in Worker : task'[v] # x
            BY <1>5, <1>6
        <3>1. j + 1 \in 1..Len(queue) /\ x = queue[j + 1] /\ x # r
            BY <1>1, <1>3
        <3>2. Owned(x) /\ ~Ended(x) /\ \A v \in Worker : task[v] # x
            BY <3>1 DEF OrderInv, PoolInv
        <3> QED
            BY <1>4, <3>1, <3>2
    <2>2. \A j, k \in 1..Len(queue') : queue'[j] = queue'[k] => j = k
        <3> SUFFICES ASSUME NEW j \in 1..Len(queue'), NEW k \in 1..Len(queue'),
                            queue'[j] = queue'[k]
                     PROVE  j = k
            OBVIOUS
        <3>1. /\ j + 1 \in 1..Len(queue) /\ k + 1 \in 1..Len(queue)
              /\ queue[j + 1] = queue[k + 1]
            BY <1>1
        <3>2. j + 1 = k + 1
            BY <3>1 DEF OrderInv, PoolInv
        <3> QED
            BY <3>2
    <2>3. \A v \in Worker :
             /\ wpc'[v] = "idle" => task'[v] = NoReq
             /\ wpc'[v] # "idle" =>
                   task'[v] \in pushed' /\ \A u \in Worker : task'[u] = task'[v] => u = v
             /\ wpc'[v] \in {"lock", "write", "remove"} => Owned(task[v])'
             /\ wpc'[v] \in {"lock", "write"} => ~Ended(task[v])'
             /\ wpc'[v] \in {"remove", "signal"} => Ended(task[v])'
        <3> SUFFICES ASSUME NEW v \in Worker, NEW x, x = task'[v]
                     PROVE
             /\ wpc'[v] = "idle" => x = NoReq
             /\ wpc'[v] # "idle" => x \in pushed /\ \A u \in Worker : task'[u] = x => u = v
             /\ wpc'[v] \in {"lock", "write", "remove"} => Owned(x)
             /\ wpc'[v] \in {"lock", "write"} => ~Ended(x)
             /\ wpc'[v] \in {"remove", "signal"} => Ended(x)
            BY <1>1, <1>5, <1>6
        <3>1. CASE v = w
            BY <1>2, <1>4, <3>1 DEF Owned
        <3>2. CASE v # w
            BY <1>2, <1>4, <3>2 DEF OrderInv, PoolInv
        <3> QED
            BY <3>1, <3>2
    <2> QED
        BY <1>1, <1>5, <2>1, <2>2, <2>3 DEF OrderInv, PoolInv
<1> QED
    BY <1>1, <1>5, <1>7, OrderPool

\* What the pool says of w when a step changes no more than where w is.
LEMMA PoolMoves ==
    ASSUME TypeOK, OrderInv, NEW w \in Worker,
           UNCHANGED <<queue, pushed, used, life, rid, requests>>,
           \A v \in Worker \ {w} : wpc'[v] = wpc[v] /\ task'[v] = task[v],
           task'[w] = task[w], wpc'[w] # "idle",
           \A x \in Req : Ended(x)' <=> Ended(x) \/ (x = task[w] /\ wpc'[w] = "remove"),
           UNCHANGED processed,
           \/ wpc[w] = "lock" /\ wpc'[w] = "write"
           \/ wpc[w] = "write" /\ wpc'[w] \in {"write", "remove"}
    PROVE  PoolInv'
<1>1. /\ task[w] \in pushed /\ \A v \in Worker : task[v] = task[w] => v = w
      /\ Owned(task[w]) /\ ~Ended(task[w])
    BY DEF OrderInv, PoolInv
<1>2. /\ \A j \in 1..Len(queue) : queue[j] \in Req /\ queue[j] # task[w]
      /\ \A v \in Worker : wpc[v] # "idle" => task[v] \in Req
      /\ task[w] \in Req /\ \A x \in pushed : x \in Req
    BY DEF OrderInv, PoolInv, TypeOK
<1>3. \A x : Owned(x)' = Owned(x)
    BY DEF Owned
<1>4. \A v \in Worker : wpc'[v] = "idle" <=> wpc[v] = "idle"
    OBVIOUS
<1>5. \A v \in Worker :
         /\ wpc'[v] = "idle" => task'[v] = NoReq
         /\ wpc'[v] # "idle" =>
               task'[v] \in pushed' /\ \A u \in Worker : task'[u] = task'[v] => u = v
         /\ wpc'[v] \in {"lock", "write", "remove"} => Owned(task[v])'
         /\ wpc'[v] \in {"lock", "write"} => ~Ended(task[v])'
         /\ wpc'[v] \in {"remove", "signal"} => Ended(task[v])'
    <2> SUFFICES ASSUME NEW v \in Worker, NEW x, x = task'[v]
                 PROVE
         /\ wpc'[v] = "idle" => x = NoReq
         /\ wpc'[v] # "idle" => x \in pushed /\ \A u \in Worker : task'[u] = x => u = v
         /\ wpc'[v] \in {"lock", "write", "remove"} => Owned(x)
         /\ wpc'[v] \in {"lock", "write"} => ~Ended(x)'
         /\ wpc'[v] \in {"remove", "signal"} => Ended(x)'
        BY <1>3
    <2>1. CASE v = w
        BY <1>1, <1>2, <2>1
    <2>2. CASE v # w
        BY <1>1, <1>2, <2>2 DEF OrderInv, PoolInv
    <2> QED
        BY <2>1, <2>2
<1>6. \A j \in 1..Len(queue) :
         /\ Owned(queue[j]) /\ \A x : x = queue[j] => ~Ended(x)'
         /\ \A v \in Worker : task'[v] # queue[j]
    BY <1>2 DEF OrderInv, PoolInv
<1>7. /\ \A x \in pushed : /\ life[x] # "unborn" /\ rid[x] \in Id
                           /\ life[x] = "freed" => Ended(x)'
      /\ \A x \in Req : Ended(x)' => x \in pushed
      /\ \A x \in Req : processed[x] => Ended(x)'
    BY <1>1, <1>2 DEF OrderInv, PoolInv
<1> QED
    BY <1>3, <1>5, <1>6, <1>7 DEF OrderInv, PoolInv

\* END_REQUEST of r has been written after this record, if it is that.
LEMMA EndedAppend ==
    ASSUME out \in Seq(OutRecord), NEW rec \in OutRecord, out' = Append(out, rec)
    PROVE  \A r : Ended(r)' <=> Ended(r) \/ (rec.kind = "END" /\ rec.req = r)
<1>1. /\ Len(out) \in Nat /\ DOMAIN out = 1..Len(out) /\ DOMAIN out' = 1..(Len(out) + 1)
      /\ \A j \in 1..Len(out) : out'[j] = out[j]
      /\ out'[Len(out) + 1] = rec
    BY AppendAt
<1>2. /\ 1..Len(out) \subseteq 1..(Len(out) + 1) /\ Len(out) + 1 \in 1..(Len(out) + 1)
      /\ \A j \in 1..(Len(out) + 1) : j \in 1..Len(out) \/ j = Len(out) + 1
    BY <1>1
<1> QED
    BY <1>1, <1>2 DEF Ended

LEMMA OrderLock ==
    ASSUME TypeOK, OrderInv, NEW w \in Worker, Lock(w)
    PROVE  OrderInv'
<1>1. /\ wpc[w] = "lock" /\ wpc' = [wpc EXCEPT ![w] = "write"]
      /\ UNCHANGED <<wire, hungup, tx, phase, used, sent, pc, record, request, requests, out,
                     life, rid, keep, size, processed, pushed, queue, task>>
    BY DEF Lock, peerVars, serverVars, memVars
<1>2. wpc'[w] = "write" /\ \A v \in Worker \ {w} : wpc'[v] = wpc[v]
    BY <1>1 DEF TypeOK
<1>3. (\A x : Ended(x)' = Ended(x)) /\ (\A x : Removing(x) => Removing(x)')
    BY <1>1, <1>2 DEF Ended, Removing
<1>4. PoolInv'
    BY <1>1, <1>2, <1>3, PoolMoves
<1> QED
    BY <1>1, <1>3, <1>4, OrderPool

LEMMA OrderWrite ==
    ASSUME TypeOK, WriterInv, OrderInv, NEW w \in Worker, Write(w)
    PROVE  OrderInv'
<1> DEFINE rec == [kind |-> KindAt(left[w]), req |-> task[w], id |-> rid[task[w]]]
<1>1. /\ wpc[w] = "write" /\ out' = Append(out, rec)
      /\ wpc' = [wpc EXCEPT ![w] = IF left[w] = 1 THEN "remove" ELSE "write"]
      /\ UNCHANGED <<wire, hungup, tx, phase, used, sent, pc, record, request, requests,
                     life, rid, keep, size, processed, pushed, queue, task>>
    BY DEF Write, peerVars, serverVars, memVars
<1>2. task[w] \in Req /\ left[w] \in Nat
    BY <1>1 DEF WriterInv, TypeOK
<1>3. rec \in OutRecord /\ rec.req = task[w] /\ (rec.kind = "END" <=> left[w] = 1)
    BY <1>2 DEF OutRecord, OutKind, KindAt, TypeOK
<1> HIDE DEF rec
<1>4. /\ wpc'[w] = (IF left[w] = 1 THEN "remove" ELSE "write")
      /\ \A v \in Worker \ {w} : wpc'[v] = wpc[v]
    BY <1>1 DEF TypeOK
<1>5. \A x : Ended(x)' <=> Ended(x) \/ (x = task[w] /\ wpc'[w] = "remove")
    BY <1>1, <1>3, <1>4, EndedAppend DEF TypeOK
<1>6. /\ \A x : Removing(x) => Removing(x)'
      /\ \A x \in Req : Ended(x)' => Ended(x) \/ Removing(x)'
    BY <1>1, <1>4, <1>5 DEF Removing
<1>7. PoolInv'
    BY <1>1, <1>4, <1>5, PoolMoves
<1> QED
    BY <1>1, <1>5, <1>6, <1>7, OrderPool

LEMMA OrderRemove ==
    ASSUME TypeOK, OrderInv, NEW w \in Worker, Remove(w)
    PROVE  OrderInv'
<1> DEFINE r == task[w]
           i == rid[r]
<1>1. /\ wpc[w] = "remove" /\ r \in pushed /\ Ended(r) /\ Owned(r)
      /\ \A v \in Worker : task[v] = r => v = w
    BY DEF Remove, OrderInv, PoolInv
<1>2. r \in Req /\ r # NoReq /\ i \in Id /\ i \in RecId /\ requests[i] = r /\ life[r] = "live"
    BY <1>1, ConstantsAssumption DEF Owned, TypeOK, RecId
<1>3. /\ requests' = [requests EXCEPT ![i] = NoReq]
      /\ life' = [life EXCEPT ![r] = "freed"]
      /\ wpc' = [wpc EXCEPT ![w] = "signal"]
      /\ UNCHANGED <<wire, hungup, tx, phase, used, sent, pc, record, request, out, rid,
                     keep, size, processed, pushed, queue, task>>
    BY <1>2 DEF Remove, peerVars, serverVars
<1> HIDE DEF r, i
<1>4. /\ requests'[i] = NoReq /\ \A m \in Id \ {i} : requests'[m] = requests[m]
      /\ life'[r] = "freed" /\ \A x \in Req \ {r} : life'[x] = life[x]
      /\ wpc'[w] = "signal" /\ \A v \in Worker \ {w} : wpc'[v] = wpc[v]
    BY <1>2, <1>3 DEF TypeOK, RecId
<1>5. /\ \A x : Ended(x)' = Ended(x)
      /\ \A x : x # r /\ Removing(x) => Removing(x)'
    BY <1>3, <1>4 DEF Ended, Removing, r
<1>6. (\A m : Begins(m)' <=> Begins(m)) /\ Reading' = Reading
    BY <1>3 DEF Begins, Reading
<1>7. \A m \in Id : requests[m] = r => m = i
    BY <1>2 DEF OrderInv, IdInv, i
<1>8. WireInv'
    <2>1. ASSUME NEW b \in Record, Flying(b), Sent(b), Flying(b)' PROVE Sent(b)'
        <3>1. b.type = "BEGIN" => b.req \in Req /\ b.req # r
            BY <1>2, <2>1, RecordFields DEF BeginRecord, Sent
        <3> QED
            BY <1>3, <1>4, <2>1, <3>1 DEF Sent
    <2> QED
        BY <1>3, <2>1, WireSame DEF OrderInv
<1>9. IdInv'
    <2>1. \A x \in Req : life'[x] = "unborn" <=> life[x] = "unborn"
        BY <1>2, <1>4
    <2>2. \A m \in Id : /\ tx[m] \in Req \cup {NoReq}
                        /\ requests[m] \in Req \cup {NoReq}
                        /\ tx[m] # NoReq <=> phase[m] # "idle"
        BY DEF TypeOK, RecId, OrderInv, IdInv
    <2> SUFFICES ASSUME NEW m \in Id
                 PROVE  /\ phase[m] = "idle" <=> tx[m] = NoReq
                        /\ phase[m] = "idle" => requests'[m] = NoReq
                        /\ tx[m] # NoReq =>
                              tx[m] \in used /\ \A k \in Id : tx[k] = tx[m] => k = m
                        /\ tx[m] \in pushed => phase[m] = "ended"
                        /\ phase[m] # "idle" /\ ~Begins(m) =>
                              /\ life'[tx[m]] # "unborn" /\ rid[tx[m]] = m
                              /\ tx[m] \notin pushed /\ Reading =>
                                    life'[tx[m]] = "live" /\ requests'[m] = tx[m]
                        /\ requests'[m] # NoReq =>
                              /\ rid[requests'[m]] = m /\ life'[requests'[m]] # "unborn"
                              /\ \A x : x = requests'[m] =>
                                     /\ x = tx[m] \/ Removing(x)'
                                     /\ Ended(x) => Removing(x)'
        BY <1>3, <1>5, <1>6 DEF IdInv
    <2>3. tx[m] \notin pushed => tx[m] # r
        BY <1>1 DEF r
    <2>4. m # i => requests'[m] = requests[m] /\ requests[m] # r
        BY <1>4, <1>7
    <2>5. m = i => requests[m] = r
        BY <1>2
    <2>6. tx[m] \notin pushed /\ phase[m] # "idle" /\ ~Begins(m) /\ Reading => m # i
        BY <2>3, <2>5 DEF OrderInv, IdInv
    <2>7. /\ phase[m] = "idle" <=> tx[m] = NoReq
          /\ phase[m] = "idle" => requests'[m] = NoReq
          /\ tx[m] # NoReq => tx[m] \in used /\ \A k \in Id : tx[k] = tx[m] => k = m
          /\ tx[m] \in pushed => phase[m] = "ended"
        BY <1>4, <2>4 DEF OrderInv, IdInv
    <2>8. phase[m] # "idle" /\ ~Begins(m) =>
             /\ life'[tx[m]] # "unborn" /\ rid[tx[m]] = m
             /\ tx[m] \notin pushed /\ Reading => life'[tx[m]] = "live" /\ requests'[m] = tx[m]
        BY <1>4, <2>1, <2>2, <2>3, <2>4, <2>6 DEF OrderInv, IdInv
    <2>9. requests'[m] # NoReq => m # i
        BY <1>4
    <2>10. requests'[m] # NoReq =>
              /\ rid[requests[m]] = m /\ life[requests[m]] # "unborn"
              /\ \A x : x = requests[m] =>
                     /\ x = tx[m] \/ Removing(x)
                     /\ Ended(x) => Removing(x)
        BY <2>4, <2>9 DEF OrderInv, IdInv
    <2> QED
        BY <1>5, <2>1, <2>2, <2>4, <2>7, <2>8, <2>9, <2>10
<1>10. ServerInv'
    <2>1. request # r \/ pc \notin {"read", "handle", "cleanup"}
        <3>1. pc \in {"read", "cleanup"} /\ request # NoReq => request \notin pushed
            BY DEF OrderInv, ServerInv
        <3>2. pc = "handle" => request = NoReq \/ request \notin pushed
            BY HandledRequest
        <3> QED
            BY <1>1, <1>2, <3>1, <3>2 DEF r
    <2>2. pc = "handle" => record.id \in Id
        BY HandledRequest
    <2>3. request \in Req \cup {NoReq}
        BY DEF TypeOK
    <2> QED
        BY <1>3, <1>4, <1>5, <2>1, <2>2, <2>3 DEF OrderInv, ServerInv, ClosedForAReason
<1>11. PoolInv'
    <2>1. \A x : x # r /\ Owned(x) => Owned(x)'
        <3> SUFFICES ASSUME NEW x, x # r, Owned(x) PROVE Owned(x)'
            OBVIOUS
        <3>1. x \in Req /\ rid[x] \in Id /\ rid[x] # i
            BY <1>2 DEF Owned, TypeOK
        <3> QED
            BY <1>3, <1>4, <3>1 DEF Owned
    <2>2. \A x \in pushed : /\ life'[x] # "unborn" /\ rid[x] \in Id
                            /\ life'[x] = "freed" => Ended(x)
        BY <1>1, <1>4 DEF OrderInv, PoolInv, TypeOK, r
    <2>3. \A x \in Req : life'[x] # "unborn" => x \in used
        BY <1>2, <1>4 DEF OrderInv, PoolInv
    <2>4. \A j \in 1..Len(queue) : queue[j] # r
        BY DEF OrderInv, PoolInv, r
    <2>5. \A v \in Worker :
             /\ wpc'[v] = "idle" => task[v] = NoReq
             /\ wpc'[v] # "idle" =>
                   task[v] \in pushed /\ \A u \in Worker : task[u] = task[v] => u = v
             /\ wpc'[v] \in {"lock", "write", "remove"} => Owned(task[v]) /\ task[v] # r
             /\ wpc'[v] \in {"lock", "write"} => ~Ended(task[v])
             /\ wpc'[v] \in {"remove", "signal"} => Ended(task[v])
        <3> SUFFICES ASSUME NEW v \in Worker PROVE
             /\ wpc'[v] = "idle" => task[v] = NoReq
             /\ wpc'[v] # "idle" =>
                   task[v] \in pushed /\ \A u \in Worker : task[u] = task[v] => u = v
             /\ wpc'[v] \in {"lock", "write", "remove"} => Owned(task[v]) /\ task[v] # r
             /\ wpc'[v] \in {"lock", "write"} => ~Ended(task[v])
             /\ wpc'[v] \in {"remove", "signal"} => Ended(task[v])
            OBVIOUS
        <3>1. CASE v = w
            BY <1>1, <1>4, <3>1 DEF r
        <3>2. CASE v # w
            BY <1>1, <1>4, <3>2 DEF OrderInv, PoolInv, r
        <3> QED
            BY <3>1, <3>2
    <2> QED
        BY <1>3, <1>5, <2>1, <2>2, <2>3, <2>4, <2>5 DEF OrderInv, PoolInv
<1> QED
    BY <1>8, <1>9, <1>10, <1>11 DEF OrderInv

\* The thread is done with the request, or with the connection.
LEMMA OrderIdle ==
    ASSUME TypeOK, OrderInv, NEW w \in Worker, Signal(w) \/ UseReleased(w)
    PROVE  OrderInv'
<1>1. /\ wpc[w] \in {"lock", "signal"} /\ wpc' = [wpc EXCEPT ![w] = "idle"]
      /\ task' = [task EXCEPT ![w] = NoReq]
      /\ processed' = processed
         \/ (wpc[w] = "signal" /\ processed' = [processed EXCEPT ![task[w]] = TRUE])
      /\ pc' = pc \/ (pc = "asleep" /\ pc' = "wait")
      /\ UNCHANGED <<wire, hungup, tx, phase, used, sent, record, request, requests, out,
                     life, rid, keep, size, pushed, queue>>
    <2>1. CASE Signal(w)
        <3>1. UNCHANGED <<wire, hungup, tx, phase, used, sent, record, request, requests, out,
                          life, rid, keep, size, pushed, queue>>
            BY <2>1, Zenon DEF Signal, peerVars
        <3>2. pc' = pc \/ (pc = "asleep" /\ pc' = "wait")
            BY <2>1 DEF Signal
        <3> QED
            BY <2>1, <3>1, <3>2 DEF Signal
    <2>2. CASE UseReleased(w)
        <3>1. UNCHANGED <<wire, hungup, tx, phase, used, sent, pc, record, request, requests,
                          out, life, rid, keep, size, processed, pushed, queue>>
            BY <2>2, Zenon DEF UseReleased, peerVars, serverVars, memVars
        <3>2. /\ wpc[w] \in {"lock", "signal"} /\ wpc' = [wpc EXCEPT ![w] = "idle"]
              /\ task' = [task EXCEPT ![w] = NoReq]
            BY <2>2 DEF UseReleased
        <3> QED
            BY <3>1, <3>2
    <2> QED
        BY <2>1, <2>2
<1>2. /\ wpc'[w] = "idle" /\ task'[w] = NoReq
      /\ \A v \in Worker \ {w} : wpc'[v] = wpc[v] /\ task'[v] = task[v]
    BY <1>1 DEF TypeOK
<1>3. (\A x : Ended(x)' = Ended(x)) /\ (\A x : Removing(x) => Removing(x)')
    BY <1>1, <1>2 DEF Ended, Removing
<1>4. \A x \in Req : processed'[x] => Ended(x)
    <2>1. \A x \in Req : processed[x] => Ended(x)
        BY DEF OrderInv, PoolInv
    <2>2. CASE wpc[w] = "signal" /\ processed' = [processed EXCEPT ![task[w]] = TRUE]
        <3>1. Ended(task[w])
            BY <2>2 DEF OrderInv, PoolInv
        <3>2. processed \in [Req -> BOOLEAN]
            BY DEF TypeOK
        <3>3. \A x \in Req : x # task[w] => processed'[x] = processed[x]
            BY <2>2, <3>2
        <3> QED
            BY <2>1, <3>1, <3>3
    <2>3. CASE processed' = processed
        BY <2>1, <2>3, Zenon
    <2> QED
        BY <1>1, <2>2, <2>3, Zenon
<1>5. PoolInv'
    <2>1. \A x : Owned(x)' = Owned(x)
        BY <1>1 DEF Owned
    <2>2. NoReq \notin pushed /\ \A j \in 1..Len(queue) : queue[j] # NoReq
        <3>1. pushed \in SUBSET Req /\ queue \in Seq(Req) /\ NoReq \notin Req
            BY ConstantsAssumption DEF TypeOK
        <3> QED
            BY <3>1
    <2>3. \A v \in Worker :
             /\ wpc'[v] = "idle" => task'[v] = NoReq
             /\ wpc'[v] # "idle" =>
                   task'[v] \in pushed /\ \A u \in Worker : task'[u] = task'[v] => u = v
             /\ wpc'[v] \in {"lock", "write", "remove"} => Owned(task'[v])
             /\ wpc'[v] \in {"lock", "write"} => ~Ended(task'[v])
             /\ wpc'[v] \in {"remove", "signal"} => Ended(task'[v])
        <3> SUFFICES ASSUME NEW v \in Worker, v # w PROVE
             /\ wpc[v] = "idle" => task[v] = NoReq
             /\ wpc[v] # "idle" =>
                   task[v] \in pushed /\ \A u \in Worker : task'[u] = task[v] => u = v
             /\ wpc[v] \in {"lock", "write", "remove"} => Owned(task[v])
             /\ wpc[v] \in {"lock", "write"} => ~Ended(task[v])
             /\ wpc[v] \in {"remove", "signal"} => Ended(task[v])
            BY <1>2
        <3> QED
            BY <1>2, <2>2 DEF OrderInv, PoolInv
    <2>4. \A j \in 1..Len(queue) :
             /\ Owned(queue[j]) /\ ~Ended(queue[j])
             /\ \A v \in Worker : task'[v] # queue[j]
        BY <1>2, <2>2 DEF OrderInv, PoolInv
    <2> QED
        BY <1>1, <1>3, <1>4, <2>1, <2>3, <2>4 DEF OrderInv, PoolInv
<1> QED
    BY <1>1, <1>3, <1>5, OrderPool

LEMMA OrderOverwrite ==
    ASSUME TypeOK, OrderInv, NEW r \in Req, Overwrite(r)
    PROVE  OrderInv'
<1>1. /\ life[r] = "freed" /\ request = r /\ r # NoReq
      /\ \A x \in Req \ {r} : processed'[x] = processed[x]
      /\ UNCHANGED <<wire, hungup, tx, phase, used, sent, pc, record, request, requests, out,
                     life, rid, keep, size, pushed, queue, wpc, task>>
    BY DEF Overwrite, Freed, peerVars, serverVars, poolVars, TypeOK
<1>2. r \in pushed
    <2>1. pc = "handle" => request = NoReq \/ life[request] = "live"
        BY HandledRequest
    <2> QED
        BY <1>1, <2>1 DEF OrderInv, ServerInv, TypeOK, Closing
<1>3. (\A x : Ended(x)' = Ended(x)) /\ (\A x : Removing(x) => Removing(x)')
    BY <1>1 DEF Ended, Removing
<1>4. PoolInv'
    <2>1. \A x : Owned(x)' = Owned(x)
        BY <1>1 DEF Owned
    <2>2. \A x \in Req : processed'[x] => Ended(x)
        BY <1>1, <1>2 DEF OrderInv, PoolInv
    <2> QED
        BY <1>1, <1>3, <2>1, <2>2 DEF OrderInv, PoolInv
<1> QED
    BY <1>1, <1>3, <1>4, OrderPool

-----------------------------------------------------------------------------
(* The theorems.                                                           *)

LEMMA OrderInit == Init => OrderInv
<1> SUFFICES ASSUME Init PROVE OrderInv
    OBVIOUS
<1>1. /\ Len(wire) = 0 /\ Len(queue) = 0 /\ pc = "read" /\ request = NoReq
      /\ \A r : ~Ended(r) /\ ~Removing(r)
    BY DEF Init, Ended, Removing
<1>2. WireInv
    BY <1>1 DEF WireInv, Flying
<1>3. IdInv
    BY <1>1 DEF Init, IdInv, RecId
<1>4. ServerInv
    BY <1>1 DEF ServerInv, ClosedForAReason, Closing
<1>5. PoolInv
    BY <1>1 DEF Init, PoolInv
<1> QED
    BY <1>2, <1>3, <1>4, <1>5 DEF OrderInv

LEMMA OrderNext ==
    ASSUME Orderly, IInv, OrderInv, [Next]_vars
    PROVE  OrderInv'
<1> USE DEF IInv
<1>1. ASSUME NEW w \in Worker, WorkerStep(w) PROVE OrderInv'
    BY <1>1, OrderTakeTask, OrderLock, OrderWrite, OrderRemove, OrderIdle DEF WorkerStep
<1>2. CASE UNCHANGED vars
    <2>1. UNCHANGED <<wire, hungup, tx, phase, used, sent, pc, record, request, requests, out,
                      life, rid, keep, size, processed, pushed, queue, wpc, task>>
        BY <1>2, Zenon DEF vars, peerVars, serverVars, memVars, poolVars
    <2>2. /\ \A x : Ended(x)' = Ended(x) /\ Removing(x)' = Removing(x)
          /\ \A x : Owned(x)' = Owned(x)
        BY <2>1 DEF Ended, Removing, Owned
    <2>3. PoolInv'
        BY <2>1, <2>2 DEF OrderInv, PoolInv
    <2> QED
        BY <2>1, <2>2, <2>3, OrderPool
<1> QED
    BY <1>1, <1>2, OrderPeer, OrderServer, OrderOverwrite DEF Next, Terminated

\* The invariant, for a web server that follows the protocol.
THEOREM OrderInvariant == ASSUME Orderly PROVE Spec => [](IInv /\ OrderInv)
<1>1. IInv /\ OrderInv /\ [Next]_vars => OrderInv'
    BY OrderNext
<1> QED
    BY <1>1, OrderInit, Invariant, PTL DEF Spec

\* A request the pool still has to answer is alive, is the one in the table,
\* and is in one place only (fcgi.c:345-403).
THEOREM PoolOwns == ASSUME Orderly PROVE Spec => []PoolOwnsRequests
<1>1. IInv /\ OrderInv => PoolOwnsRequests
    <2> SUFFICES ASSUME TypeOK, PoolInv PROVE PoolOwnsRequests
        BY DEF IInv, OrderInv
    <2>1. DOMAIN queue = 1..Len(queue)
        BY DEF TypeOK
    <2>2. \A r \in Req : (\E j \in DOMAIN queue : queue[j] = r) \/ InPool(r) => Owned(r)
        BY <2>1 DEF PoolInv, InPool
    <2> QED
        BY <2>1, <2>2 DEF PoolInv, PoolOwnsRequests, InPool, Owned
<1> QED
    BY <1>1, OrderInvariant, PTL

\* The connection is given up only once the web server hung up or a request
\* without FCGI_KEEP_CONN is answered (fcgi.c:418-568).
THEOREM ClosedWithReason == ASSUME Orderly PROVE Spec => []ClosedForAReason
<1>1. IInv /\ OrderInv => ClosedForAReason
    BY DEF OrderInv, ServerInv
<1> QED
    BY <1>1, OrderInvariant, PTL

\* The request a thread uses is the one the memory still holds: of the
\* undefined behaviours only two can happen, those of the release of the
\* connection and of the field read after the request was freed
\* (fcgi.c:397-401, 547-552, 570-580).
THEOREM FewFaultsOnly == ASSUME Orderly PROVE Spec => []FewFaults
<1>1. Init => FewFaults
    BY DEF Init, FewFaults
<1>2. IInv /\ OrderInv /\ FewFaults /\ [Next]_vars => FewFaults'
    <2> SUFFICES ASSUME IInv, OrderInv, FewFaults, [Next]_vars PROVE FewFaults'
        OBVIOUS
    <2> USE DEF FewFaults, Note, IInv
    <2>1. CASE Peer
        BY <2>1 DEF Peer, PeerBegin, PeerData, PeerEnd, PeerAbort, PeerGetValues, PeerStray,
            PeerHangup, PeerUnchanged
    <2>2. CASE Server \/ SpuriousWakeup
        <3>1. CASE AppendData \/ Dispatch
            <4>1. pc = "handle" /\ record.type # "BEGIN"
                BY <3>1 DEF AppendData, Dispatch, Handling
            <4>2. ~Freed(request)
                BY <4>1, HandledRequest DEF Freed
            <4> QED
                BY <3>1, <4>2 DEF AppendData, Dispatch
        <3>2. CASE Cleanup
            <4>1. ~Freed(request)
                BY <3>2 DEF Cleanup, OrderInv, ServerInv, Freed
            <4> QED
                BY <3>2, <4>1 DEF Cleanup
        <3>3. CASE Wait
            BY <3>3 DEF Wait
        <3>4. CASE ReadRecord \/ ReadEof \/ BeginResponder \/ SpuriousWakeup \/ HackCond
                   \/ HackMutex
            BY <3>4 DEF ReadRecord, ReadEof, BeginResponder, SpuriousWakeup, HackCond, HackMutex
        <3> QED
            BY <2>2, <3>1, <3>2, <3>3, <3>4, ServerActs
    <2>3. ASSUME NEW w \in Worker, WorkerStep(w) PROVE FewFaults'
        <3>1. CASE TakeTask(w)
            <4>1. life[Head(queue)] = "live"
                BY <3>1, TailAt DEF TakeTask, OrderInv, PoolInv, Owned, TypeOK
            <4> QED
                BY <3>1, <4>1 DEF TakeTask, Freed
        <3>2. CASE Lock(w)
            <4>1. life[task[w]] = "live"
                BY <3>2 DEF Lock, OrderInv, PoolInv, Owned
            <4> QED
                BY <3>2, <4>1 DEF Lock, Freed
        <3>3. CASE Remove(w)
            <4>1. life[task[w]] = "live" /\ requests[rid[task[w]]] = task[w]
                BY <3>3 DEF Remove, OrderInv, PoolInv, Owned
            <4> QED
                BY <3>3, <4>1 DEF Remove, Freed
        <3>4. CASE Write(w) \/ Signal(w) \/ UseReleased(w)
            BY <3>4 DEF Write, Signal, UseReleased
        <3> QED
            BY <2>3, <3>1, <3>2, <3>3, <3>4 DEF WorkerStep
    <2>4. ASSUME NEW r \in Req, Overwrite(r) PROVE FewFaults'
        BY <2>4 DEF Overwrite
    <2>5. CASE UNCHANGED vars
        BY <2>5 DEF vars
    <2> QED
        BY <2>1, <2>2, <2>3, <2>4, <2>5 DEF Next, Terminated
<1> QED
    BY <1>1, <1>2, OrderInvariant, PTL DEF Spec

-----------------------------------------------------------------------------
(* The service: what the web server can tell of a step.                    *)

\* Nothing.
Quiet ==
    /\ UNCHANGED <<out, pushed, keep, rid, hungup>>
    /\ \A r \in Req : life'[r] = "unborn" <=> life[r] = "unborn"
    /\ pc' = "done" <=> pc = "done"

LEMMA Steps ==
    ASSUME Orderly, IInv, OrderInv, [Next]_vars
    PROVE  \/ Quiet \/ BeginResponder \/ Dispatch \/ PeerHangup \/ HackMutex
           \/ \E w \in Worker : Write(w)
<1> USE DEF IInv
<1>1. CASE Peer
    <2>1. UNCHANGED <<out, pushed, keep, rid, life, pc>>
        BY <1>1, Zenon DEF Peer, PeerBegin, PeerData, PeerEnd, PeerAbort, PeerGetValues,
            PeerStray, PeerHangup, PeerUnchanged, serverVars, memVars
    <2>2. PeerHangup \/ hungup' = hungup
        BY <1>1, Zenon DEF Peer, PeerBegin, PeerData, PeerEnd, PeerAbort, PeerGetValues,
            PeerStray, peerVars
    <2> QED
        BY <2>1, <2>2 DEF Quiet
<1>2. CASE Server \/ SpuriousWakeup
    <2>1. CASE Cleanup
        <3>1. request # NoReq => life[request] = "live"
            BY <2>1 DEF Cleanup, OrderInv, ServerInv
        <3>2. \A r \in Req : life'[r] = "unborn" <=> life[r] = "unborn"
            BY <2>1, <3>1 DEF Cleanup, TypeOK
        <3> QED
            BY <2>1, <3>2 DEF Cleanup, Quiet, peerVars
    <2>2. CASE ReadRecord \/ AppendData \/ ReadEof \/ Wait \/ SpuriousWakeup \/ HackCond
        <3>1. UNCHANGED <<out, pushed, keep, rid, hungup, life>>
            BY <2>2, Zenon DEF ReadRecord, AppendData, ReadEof, Wait, SpuriousWakeup, HackCond,
                peerVars, memVars
        <3>2. pc' # "done" /\ pc # "done"
            BY <2>2 DEF ReadRecord, AppendData, ReadEof, Wait, SpuriousWakeup, HackCond, Handling
        <3> QED
            BY <3>1, <3>2 DEF Quiet
    <2> QED
        BY <1>2, <2>1, <2>2, ServerActs
<1>3. ASSUME NEW w \in Worker, WorkerStep(w), ~Write(w) PROVE Quiet
    <2>1. CASE Remove(w)
        <3>1. life[task[w]] = "live" /\ requests[rid[task[w]]] = task[w]
            BY <2>1 DEF Remove, OrderInv, PoolInv, Owned
        <3>2. \A r \in Req : life'[r] = "unborn" <=> life[r] = "unborn"
            BY <2>1, <3>1 DEF Remove, TypeOK
        <3> QED
            BY <2>1, <3>2 DEF Remove, Quiet, peerVars, serverVars
    <2>2. CASE TakeTask(w) \/ Lock(w) \/ Signal(w) \/ UseReleased(w)
        <3>1. UNCHANGED <<out, pushed, keep, rid, hungup, life>>
            BY <2>2, Zenon DEF TakeTask, Lock, Signal, UseReleased, peerVars, memVars
        <3>2. pc' = "done" <=> pc = "done"
            BY <2>2 DEF TakeTask, Lock, Signal, UseReleased, serverVars
        <3> QED
            BY <3>1, <3>2 DEF Quiet
    <2> QED
        BY <1>3, <2>1, <2>2 DEF WorkerStep
<1>4. ASSUME NEW r \in Req, Overwrite(r) PROVE Quiet
    BY <1>4 DEF Overwrite, Quiet, peerVars, serverVars
<1>5. CASE UNCHANGED vars
    BY <1>5, Zenon DEF vars, Quiet, peerVars, serverVars, memVars
<1> QED
    BY <1>1, <1>2, <1>3, <1>4, <1>5 DEF Next, Terminated

LEMMA AnswerSame ==
    ASSUME AnswerInv, UNCHANGED out, pushed \subseteq pushed',
           \A x \in pushed : rid'[x] = rid[x]
    PROVE  AnswerInv'
    BY DEF AnswerInv

LEMMA AnswerStep ==
    ASSUME Orderly, IInv, OrderInv, AnswerInv, [Next]_vars
    PROVE  AnswerInv'
<1> USE DEF IInv
<1>1. CASE Quiet \/ PeerHangup \/ HackMutex
    <2>1. UNCHANGED <<out, pushed, rid>>
        BY <1>1 DEF Quiet, PeerHangup, HackMutex, PeerUnchanged, memVars
    <2> QED
        BY <2>1, AnswerSame
<1>2. CASE Dispatch
    BY <1>2, AnswerSame DEF Dispatch, memVars
<1>3. CASE BeginResponder
    <2>1. life[record.req] = "unborn"
        BY <1>3, HandledRequest DEF BeginResponder, AcceptsBegin, Handling, Sent
    <2>2. record.req \notin pushed
        BY <2>1 DEF OrderInv, PoolInv
    <2> QED
        BY <1>3, <2>2, AnswerSame DEF BeginResponder, TypeOK
<1>4. ASSUME NEW w \in Worker, Write(w) PROVE AnswerInv'
    <2> DEFINE rec == [kind |-> KindAt(left[w]), req |-> task[w], id |-> rid[task[w]]]
    <2>1. /\ task[w] \in Req /\ task[w] \in pushed /\ ~Ended(task[w])
          /\ left[w] \in Nat
        BY <1>4 DEF Write, TypeOK, OrderInv, PoolInv
    <2>2. rec \in OutRecord /\ rec.req = task[w] /\ rec.id = rid[rec.req]
        BY <2>1 DEF OutRecord, OutKind, KindAt, TypeOK
    <2>3. out' = Append(out, rec) /\ UNCHANGED <<pushed, rid>>
        BY <1>4 DEF Write, memVars
    <2> HIDE DEF rec
    <2>4. /\ Len(out) \in Nat /\ Len(out') = Len(out) + 1 /\ DOMAIN out = 1..Len(out)
          /\ \A j \in 1..Len(out) : out'[j] = out[j]
          /\ out'[Len(out) + 1] = rec
          /\ \A j \in 1..Len(out') : j \in 1..Len(out) \/ j = Len(out) + 1
        <3>1. out \in Seq(OutRecord) /\ Len(out) \in Nat /\ DOMAIN out = 1..Len(out)
            BY DEF TypeOK
        <3>2. /\ Len(out') = Len(out) + 1 /\ out'[Len(out) + 1] = rec
              /\ \A j \in 1..Len(out) : out'[j] = out[j]
            BY <2>2, <2>3, <3>1, AppendAt
        <3> QED
            BY <3>1, <3>2
    <2>5. \A j \in 1..Len(out) : out[j].kind = "END" => out[j].req # task[w]
        BY <2>1, <2>4 DEF Ended
    <2>6. \A j \in 1..Len(out') : out'[j].kind = "END" =>
             /\ out'[j].req \in pushed /\ out'[j].id = rid[out'[j].req]
             /\ j \in 1..Len(out) \/ out'[j].req = task[w]
        <3> SUFFICES ASSUME NEW j \in 1..Len(out'), out'[j].kind = "END"
                     PROVE  /\ out'[j].req \in pushed /\ out'[j].id = rid[out'[j].req]
                            /\ j \in 1..Len(out) \/ out'[j].req = task[w]
            OBVIOUS
        <3>1. CASE j \in 1..Len(out)
            BY <2>4, <3>1 DEF AnswerInv
        <3>2. CASE j = Len(out) + 1
            <4>1. out'[j] = rec
                BY <2>4, <3>2
            <4> QED
                BY <2>1, <2>2, <4>1
        <3> QED
            BY <2>4, <3>1, <3>2
    <2>7. ASSUME NEW j \in 1..Len(out'), NEW k \in 1..Len(out'), out'[j].kind = "END",
                 out'[k].kind = "END", out'[k].req = out'[j].req
          PROVE  k = j
        <3>1. CASE j \in 1..Len(out) /\ k \in 1..Len(out)
            BY <2>4, <2>7, <3>1 DEF AnswerInv
        <3>2. CASE j = Len(out) + 1 /\ k = Len(out) + 1
            BY <3>2
        <3> QED
            BY <2>2, <2>4, <2>5, <2>7, <3>1, <3>2
    <2> QED
        BY <2>3, <2>6, <2>7 DEF AnswerInv
<1> QED
    BY <1>1, <1>2, <1>3, <1>4, Steps

\* An END_REQUEST answers a submitted request, on its id and once
\* (fcgi.c:372-390).
THEOREM AnswersToTheRight == ASSUME Orderly PROVE Spec => []AnswersMatch
<1>1. Init => AnswerInv
    BY DEF Init, AnswerInv
<1>2. IInv /\ OrderInv /\ AnswerInv /\ [Next]_vars => AnswerInv'
    BY AnswerStep
<1>3. IInv /\ OrderInv /\ AnswerInv => AnswersMatch
    <2> SUFFICES ASSUME TypeOK, OrderInv, AnswerInv PROVE AnswersMatch
        BY DEF IInv
    <2>1. DOMAIN out = 1..Len(out)
        BY DEF TypeOK
    <2>2. \A r \in pushed : rid[r] \in Id /\ (tx[rid[r]] = r => phase[rid[r]] = "ended")
        <3>1. \A r \in pushed : rid[r] \in Id
            BY DEF OrderInv, PoolInv
        <3>2. \A i \in Id : tx[i] \in pushed => phase[i] = "ended"
            BY DEF OrderInv, IdInv
        <3> QED
            BY <3>1, <3>2
    <2>3. ASSUME NEW j \in DOMAIN out, out[j].kind = "END"
          PROVE  LET r == out[j].req IN
                 /\ r \in pushed /\ out[j].id = rid[r]
                 /\ \A k \in DOMAIN out : out[k].kind = "END" /\ out[k].req = r => k = j
                 /\ \E i \in Id : i = rid[r] /\ (tx[i] = r => phase[i] = "ended")
        BY <2>1, <2>2, <2>3 DEF AnswerInv
    <2> QED
        BY <2>3, Zenon DEF AnswersMatch
<1> QED
    BY <1>1, <1>2, <1>3, OrderInvariant, PTL DEF Spec

-----------------------------------------------------------------------------
(* The connection implements the service.                                  *)

\* The status of a request, now and after a step.
StatusAt(ended, handed, born) ==
    IF ended THEN "answered"
    ELSE IF handed THEN "submitted" ELSE IF born THEN "begun" ELSE "none"

LEMMA StatusIs ==
    ASSUME NEW r
    PROVE  /\ Status(r) = StatusAt(Ended(r), r \in pushed, life[r] # "unborn")
           /\ Status(r)' = StatusAt(Ended(r)', r \in pushed', life'[r] # "unborn")
<1>1. Status(r) = StatusAt(Ended(r), r \in pushed, life[r] # "unborn")
    BY DEF Status, StatusAt
<1>2. Status(r)' = StatusAt(Ended(r)', r \in pushed', life'[r] # "unborn")
    BY DEF Status, StatusAt
<1> QED
    BY <1>1, <1>2

LEMMA ServiceQuiet ==
    ASSUME Quiet
    PROVE  UNCHANGED Service!vars
<1>1. \A r : Ended(r)' = Ended(r)
    BY DEF Quiet, Ended
<1>2. \A r \in Req : Status(r)' = Status(r)
    BY <1>1 DEF Quiet, Status
<1>3. [r \in Req |-> Status(r)]' = [r \in Req |-> Status(r)]
    BY <1>2
<1>4. (pc # "done")' = (pc # "done") /\ UNCHANGED <<keep, hungup>>
    BY DEF Quiet
<1> QED
    BY <1>3, <1>4 DEF Service!vars

\* The status of one request moves on, the others keep theirs.
LEMMA StatusMove ==
    ASSUME NEW r, NEW new, \A x \in Req : Status(x)' = IF x = r THEN new ELSE Status(x)
    PROVE  [x \in Req |-> Status(x)]' = [[x \in Req |-> Status(x)] EXCEPT ![r] = new]
    OBVIOUS

LEMMA ServiceStep ==
    ASSUME Orderly, IInv, OrderInv, [Next]_vars
    PROVE  [Service!Next]_(Service!vars)
<1> USE DEF IInv
<1>1. CASE Quiet
    BY <1>1, ServiceQuiet
<1>2. CASE BeginResponder
    <2> DEFINE r == record.req
    <2>1. /\ r \in Req /\ life[r] = "unborn" /\ ~Ended(r) /\ r \notin pushed /\ pc = "handle"
          /\ record \in BeginRecord
        BY <1>2, HandledRequest
           DEF BeginResponder, AcceptsBegin, Handling, Sent, OrderInv, PoolInv, BeginRecord
    <2>2. /\ keep' = [keep EXCEPT ![r] = record.keep] /\ record.keep \in BOOLEAN
          /\ life' = [life EXCEPT ![r] = "live"] /\ pc' = "read"
          /\ UNCHANGED <<hungup, out, pushed>>
        BY <1>2, <2>1 DEF BeginResponder, BeginRecord, peerVars
    <2>3. \A x : Ended(x)' = Ended(x)
        BY <2>2 DEF Ended
    <2> HIDE DEF r
    <2>4. Status(r) = "none"
        BY <2>1, StatusIs DEF StatusAt
    <2>5. \A x \in Req : Status(x)' = IF x = r THEN "begun" ELSE Status(x)
        <3>1. life'[r] = "live" /\ \A x \in Req \ {r} : life'[x] = life[x]
            BY <2>1, <2>2 DEF TypeOK
        <3> QED
            BY <2>1, <2>2, <2>3, <3>1, StatusIs DEF StatusAt
    <2>6. [x \in Req |-> Status(x)]' = [[x \in Req |-> Status(x)] EXCEPT ![r] = "begun"]
        BY <2>5, StatusMove
    <2>7. Service!Begin(r)
        BY <2>1, <2>2, <2>4, <2>6 DEF Service!Begin
    <2> QED
        BY <2>1, <2>7 DEF Service!Next
<1>3. CASE Dispatch
    <2>1. /\ request \in Req /\ life[request] = "live" /\ request \notin pushed
          /\ ~Ended(request) /\ pc = "handle"
        BY <1>3, HandledRequest DEF Dispatch, Handling, OrderInv, PoolInv
    <2>2. /\ pushed' = pushed \cup {request} /\ pc' # "done"
          /\ UNCHANGED <<hungup, out, life, keep>>
        BY <1>3 DEF Dispatch, peerVars, memVars
    <2>3. \A x : Ended(x)' = Ended(x)
        BY <2>2 DEF Ended
    <2>4. Status(request) = "begun"
        BY <2>1, StatusIs DEF StatusAt
    <2>5. \A x \in Req : Status(x)' = IF x = request THEN "submitted" ELSE Status(x)
        BY <2>1, <2>2, <2>3, StatusIs DEF StatusAt
    <2>6. [x \in Req |-> Status(x)]' = [[x \in Req |-> Status(x)] EXCEPT ![request] = "submitted"]
        BY <2>5, StatusMove
    <2> QED
        BY <2>1, <2>2, <2>4, <2>6 DEF Service!Next, Service!Submit
<1>4. CASE PeerHangup
    <2>1. ~hungup /\ hungup' = TRUE /\ UNCHANGED <<pc, out, life, keep, pushed>>
        BY <1>4 DEF PeerHangup, PeerUnchanged, serverVars, memVars
    <2>2. \A r \in Req : Status(r)' = Status(r)
        BY <2>1 DEF Status, Ended
    <2>3. [r \in Req |-> Status(r)]' = [r \in Req |-> Status(r)]
        BY <2>2
    <2> QED
        BY <2>1, <2>3 DEF Service!Next, Service!Leave
<1>5. CASE HackMutex
    <2>1. pc = "hack_mutex" /\ pc' = "done" /\ UNCHANGED <<hungup, out, life, keep, pushed>>
        BY <1>5 DEF HackMutex, peerVars, memVars
    <2>2. \A r \in Req : Status(r)' = Status(r)
        BY <2>1 DEF Status, Ended
    <2>3. [r \in Req |-> Status(r)]' = [r \in Req |-> Status(r)]
        BY <2>2
    <2>4. hungup \/ \E r \in Req : Status(r) = "answered" /\ ~keep[r]
        BY <2>1, StatusIs DEF OrderInv, ServerInv, ClosedForAReason, Closing, StatusAt
    <2> QED
        BY <2>1, <2>3, <2>4 DEF Service!Next, Service!Close
<1>6. ASSUME NEW w \in Worker, Write(w) PROVE [Service!Next]_(Service!vars)
    <2> DEFINE rec == [kind |-> KindAt(left[w]), req |-> task[w], id |-> rid[task[w]]]
    <2>1. /\ task[w] \in Req /\ task[w] \in pushed /\ ~Ended(task[w])
          /\ left[w] \in Nat /\ mutex = w /\ pc # "done"
        BY <1>6, ConstantsAssumption DEF Write, TypeOK, OrderInv, PoolInv, WriterInv
    <2>2. rec \in OutRecord /\ rec.req = task[w] /\ (rec.kind = "END" <=> left[w] = 1)
        BY <2>1 DEF OutRecord, OutKind, KindAt, TypeOK
    <2>3. out' = Append(out, rec) /\ UNCHANGED <<pc, hungup, pushed, keep, life>>
        BY <1>6 DEF Write, memVars, peerVars, serverVars
    <2> HIDE DEF rec
    <2>4. \A x : Ended(x)' <=> Ended(x) \/ (rec.kind = "END" /\ rec.req = x)
        BY <2>2, <2>3, EndedAppend DEF TypeOK
    <2>5. \A x \in Req :
             Status(x)' = IF x = task[w] /\ left[w] = 1 THEN "answered" ELSE Status(x)
        BY <2>1, <2>2, <2>3, <2>4, StatusIs DEF StatusAt
    <2>6. CASE left[w] = 1
        <3>1. Status(task[w]) = "submitted"
            BY <2>1, StatusIs DEF StatusAt
        <3>2. [x \in Req |-> Status(x)]'
                  = [[x \in Req |-> Status(x)] EXCEPT ![task[w]] = "answered"]
            BY <2>5, <2>6, StatusMove
        <3> QED
            BY <2>1, <2>3, <3>1, <3>2 DEF Service!Next, Service!Answer
    <2>7. CASE left[w] # 1
        <3>1. [x \in Req |-> Status(x)]' = [x \in Req |-> Status(x)]
            BY <2>5, <2>7
        <3> QED
            BY <2>3, <3>1 DEF Service!vars
    <2> QED
        BY <2>6, <2>7
<1> QED
    BY <1>1, <1>2, <1>3, <1>4, <1>5, <1>6, Steps

\* Every step of the connection is a step of the service, or one that the web
\* server cannot tell: nothing is answered before it was submitted or twice,
\* and the connection closes for a reason.
THEOREM ConnectionIsAService == ASSUME Orderly PROVE Spec => ImplementsService
<1>1. Init => Service!Init
    <2> SUFFICES ASSUME Init PROVE Service!Init
        OBVIOUS
    <2>1. \A r \in Req : Status(r) = "none"
        BY StatusIs DEF Init, StatusAt, Ended
    <2> QED
        BY <2>1 DEF Init, Service!Init
<1>2. IInv /\ OrderInv /\ [Next]_vars => [Service!Next]_(Service!vars)
    BY ServiceStep
<1> QED
    BY <1>1, <1>2, OrderInvariant, PTL DEF Spec, ImplementsService, Service!Safe

-----------------------------------------------------------------------------
(***************************************************************************)
(* The proof that a request has all its data when it is handed to the      *)
(* pool: what the web server sent for a transaction is what the request    *)
(* holds, what the record in hand adds, and what is still on the wire.     *)
(***************************************************************************)

DataType == {"PARAMS", "STDIN"}

\* The places on the wire of the data for the id i.
DataAt(w, i) == {j \in 1..Len(w) : w[j].id = i /\ w[j].type \in DataType}

\* What the record in hand adds to the request of i.
InHand(i) == IF pc = "handle" /\ record.id = i /\ record.type \in DataType THEN 1 ELSE 0

\* What the request of i holds: nothing while its BEGIN is on the way.
Held(i) == IF Begins(i) THEN 0 ELSE size[tx[i]]

Accounted(i) == sent[tx[i]] = Held(i) + InHand(i) + Cardinality(DataAt(wire, i))

DataInv ==
    /\ \A r \in Req : r \notin used => sent[r] = 0
    /\ \A r \in pushed : size[r] = sent[r]
    /\ \A i \in Id : tx[i] # NoReq /\ Reading => Accounted(i)

-----------------------------------------------------------------------------
(* Counting the data on the wire.                                          *)

LEMMA DataFinite ==
    ASSUME NEW w \in Seq(Record), NEW i
    PROVE  /\ IsFiniteSet(DataAt(w, i)) /\ Cardinality(DataAt(w, i)) \in Nat
           /\ (\A j \in 1..Len(w) : w[j].id # i) => Cardinality(DataAt(w, i)) = 0
<1>1. IsFiniteSet(1..Len(w))
    <2>1. 1 \in Int /\ Len(w) \in Int
        OBVIOUS
    <2> QED
        BY <2>1, FS_Interval
<1>2. DataAt(w, i) \in SUBSET (1..Len(w))
    BY DEF DataAt
<1>3. IsFiniteSet(DataAt(w, i))
    BY <1>1, <1>2, FS_Subset
<1>4. (\A j \in 1..Len(w) : w[j].id # i) => DataAt(w, i) = {}
    BY DEF DataAt
<1> QED
    BY <1>3, <1>4, FS_EmptySet, FS_CardinalityType

LEMMA DataAppend ==
    ASSUME NEW w \in Seq(Record), NEW rec \in Record, NEW i
    PROVE  Cardinality(DataAt(Append(w, rec), i))
               = Cardinality(DataAt(w, i))
                     + (IF rec.id = i /\ rec.type \in DataType THEN 1 ELSE 0)
<1> DEFINE v == Append(w, rec)
<1>1. /\ Len(w) \in Nat /\ Len(v) = Len(w) + 1 /\ v[Len(w) + 1] = rec
      /\ \A j \in 1..Len(w) : v[j] = w[j]
    BY AppendAt
<1>2. IsFiniteSet(DataAt(w, i)) /\ Cardinality(DataAt(w, i)) \in Nat
    BY DataFinite
<1> HIDE DEF v
<1>3. CASE rec.id = i /\ rec.type \in DataType
    <2>1. DataAt(v, i) = DataAt(w, i) \cup {Len(w) + 1}
        BY <1>1, <1>3 DEF DataAt
    <2>2. Len(w) + 1 \notin DataAt(w, i)
        BY <1>1 DEF DataAt
    <2>3. Cardinality(DataAt(w, i) \cup {Len(w) + 1}) = Cardinality(DataAt(w, i)) + 1
        BY <1>2, <2>2, FS_AddElement
    <2> QED
        BY <1>3, <2>1, <2>3 DEF v
<1>4. CASE ~(rec.id = i /\ rec.type \in DataType)
    <2>1. DataAt(v, i) = DataAt(w, i)
        BY <1>1, <1>4 DEF DataAt
    <2> QED
        BY <1>2, <1>4, <2>1 DEF v
<1> QED
    BY <1>3, <1>4

LEMMA DataTail ==
    ASSUME NEW w \in Seq(Record), w # <<>>, NEW i
    PROVE  Cardinality(DataAt(w, i))
               = Cardinality(DataAt(Tail(w), i))
                     + (IF w[1].id = i /\ w[1].type \in DataType THEN 1 ELSE 0)
<1> DEFINE v == Tail(w)
           T == DataAt(w, i) \ {1}
<1>1. /\ Len(w) \in Nat /\ 1 \in 1..Len(w) /\ Len(v) = Len(w) - 1 /\ v \in Seq(Record)
      /\ \A j \in 1..Len(v) : j + 1 \in 1..Len(w) /\ v[j] = w[j + 1]
    BY TailAt
<1>2. /\ IsFiniteSet(DataAt(w, i)) /\ Cardinality(DataAt(w, i)) \in Nat
      /\ IsFiniteSet(DataAt(v, i)) /\ Cardinality(DataAt(v, i)) \in Nat
    BY <1>1, DataFinite
<1> HIDE DEF v
<1>3. ExistsBijection(DataAt(v, i), T)
    <2> DEFINE f == [j \in DataAt(v, i) |-> j + 1]
    <2>1. \A j \in DataAt(v, i) : j \in Nat /\ f[j] = j + 1 /\ f[j] \in T
        BY <1>1 DEF DataAt
    <2>2. \A k \in T : k - 1 \in DataAt(v, i) /\ k = (k - 1) + 1
        BY <1>1 DEF DataAt
    <2>3. f \in [DataAt(v, i) -> T]
        BY <2>1
    <2>4. \A a, b \in DataAt(v, i) : f[a] = f[b] => a = b
        BY <2>1
    <2>5. \A k \in T : \E j \in DataAt(v, i) : f[j] = k
        BY <2>1, <2>2
    <2> HIDE DEF f, T
    <2>6. f \in Bijection(DataAt(v, i), T)
        BY <2>3, <2>4, <2>5, Fun_IsBij
    <2> QED
        BY <2>6 DEF ExistsBijection
<1>4. Cardinality(T) = Cardinality(DataAt(v, i))
    BY <1>2, <1>3, FS_Bijection
<1>5. Cardinality(T) = IF 1 \in DataAt(w, i) THEN Cardinality(DataAt(w, i)) - 1
                                             ELSE Cardinality(DataAt(w, i))
    BY <1>2, FS_RemoveElement
<1>6. 1 \in DataAt(w, i) <=> w[1].id = i /\ w[1].type \in DataType
    BY <1>1 DEF DataAt
<1> HIDE DEF T
<1> QED
    BY <1>2, <1>4, <1>5, <1>6 DEF v

-----------------------------------------------------------------------------
(* The steps.                                                              *)

\* A step that neither moves data nor counts it.
LEMMA DataSame ==
    ASSUME DataInv, UNCHANGED <<wire, tx, used, sent, size, pushed>>, Reading' => Reading,
           \A i \in Id : Reading' => Begins(i)' = Begins(i) /\ InHand(i)' = InHand(i)
    PROVE  DataInv'
<1>1. ASSUME NEW i \in Id, tx[i] # NoReq, Reading' PROVE Accounted(i)'
    <2>1. Accounted(i) /\ Begins(i)' = Begins(i) /\ InHand(i)' = InHand(i)
        BY <1>1 DEF DataInv
    <2> QED
        BY <2>1 DEF Accounted, Held
<1> QED
    BY <1>1 DEF DataInv

LEMMA DataPeer ==
    ASSUME Orderly, IInv, OrderInv, OrderInv', DataInv, Peer
    PROVE  DataInv'
<1> USE DEF IInv
<1>1. ASSUME NEW i \in Id, NEW r \in Req, NEW k \in BOOLEAN, PeerBegin(i, r, k)
      PROVE  DataInv'
    <2> DEFINE rec == [type |-> "BEGIN", id |-> i, req |-> r, role |-> "RESPONDER",
                       keep |-> k, valid |-> TRUE]
    <2>1. /\ wire' = Append(wire, rec) /\ tx' = [tx EXCEPT ![i] = r]
          /\ used' = used \cup {r} /\ IdIsFree(i) /\ r \notin used /\ r # NoReq
          /\ UNCHANGED <<sent, pc, record, size, pushed>>
        BY <1>1, PeerKeeps, ConstantsAssumption DEF PeerBegin, Send
    <2>2. rec \in Record /\ rec.id = i /\ rec.type = "BEGIN"
        BY DEF Record, BeginRecord, Role
    <2> HIDE DEF rec
    <2>3. wire \in Seq(Record) /\ Len(wire) \in Nat
        BY DEF TypeOK
    <2>4. /\ \A j \in 1..Len(wire) : wire'[j] = wire[j]
          /\ Len(wire') = Len(wire) + 1 /\ wire'[Len(wire) + 1] = rec
        BY <2>1, <2>2, <2>3, AppendAt
    <2>5. \A m : Begins(m)' <=> Begins(m) \/ m = i
        BY <2>1, <2>2, <2>3, <2>4 DEF Begins
    <2>6. (\A b \in Record : Flying(b) => b.id # i) /\ ~Begins(i)
        BY <2>1, FreeIdIsQuiet DEF OrderInv
    <2>7. \A m : InHand(m)' = InHand(m)
        BY <2>1 DEF InHand
    <2>8. \A m : Cardinality(DataAt(wire, m))' = Cardinality(DataAt(wire, m))
        <3>1. \A m : Cardinality(DataAt(Append(wire, rec), m)) = Cardinality(DataAt(wire, m)) + 0
            BY <2>2, <2>3, DataAppend DEF DataType
        <3>2. \A m : Cardinality(DataAt(wire, m)) \in Nat
            BY <2>3, DataFinite
        <3>3. \A m : Cardinality(DataAt(Append(wire, rec), m)) = Cardinality(DataAt(wire, m))
            BY <3>1, <3>2
        <3> QED
            BY <2>1, <3>3
    <2>9. InHand(i) = 0 /\ Cardinality(DataAt(wire, i)) = 0
        <3>1. pc = "handle" => record.id # i
            BY <2>6 DEF OrderInv, WireInv, Flying
        <3>2. \A j \in 1..Len(wire) : wire[j].id # i
            BY <2>3, <2>6 DEF Flying
        <3> QED
            BY <2>3, <3>1, <3>2, DataFinite DEF InHand
    <2>10. sent[r] = 0
        BY <2>1 DEF DataInv
    <2>11. tx'[i] = r /\ \A m \in Id \ {i} : tx'[m] = tx[m]
        BY <2>1 DEF TypeOK
    <2>12. ASSUME NEW m \in Id, tx'[m] # NoReq, Reading' PROVE Accounted(m)'
        <3>1. CASE m = i
            BY <2>1, <2>5, <2>7, <2>8, <2>9, <2>10, <2>11, <3>1 DEF Accounted, Held
        <3>2. CASE m # i
            <4>1. Accounted(m)
                BY <2>1, <2>11, <2>12, <3>2 DEF DataInv, Reading
            <4> QED
                BY <2>1, <2>5, <2>7, <2>8, <2>11, <3>2, <4>1 DEF Accounted, Held
        <3> QED
            BY <3>1, <3>2
    <2> QED
        BY <2>1, <2>12 DEF DataInv
<1>2. ASSUME NEW i \in Id,
             (\E t \in DataType : PeerData(i, t)) \/ PeerEnd(i)
      PROVE  DataInv'
    <2>1. PICK t \in {"PARAMS", "STDIN", "STDIN_END"} :
              /\ wire' = Append(wire, [type |-> t, id |-> i])
              /\ sent' = IF t = "STDIN_END" THEN sent ELSE [sent EXCEPT ![tx[i]] = @ + 1]
              /\ phase[i] = "begun"
              /\ UNCHANGED <<tx, used, pc, record, size, pushed>>
        BY <1>2, PeerKeeps DEF PeerData, PeerEnd, Send, DataType
    <2> DEFINE rec == [type |-> t, id |-> i]
               n == IF t = "STDIN_END" THEN 0 ELSE 1
    <2>2. rec \in Record /\ rec.id = i /\ rec.type = t
        BY DEF Record, PlainRecord, PlainType, RecId
    <2> HIDE DEF rec
    <2>3. wire \in Seq(Record) /\ Len(wire) \in Nat
        BY DEF TypeOK
    <2>4. /\ \A j \in 1..Len(wire) : wire'[j] = wire[j]
          /\ Len(wire') = Len(wire) + 1 /\ wire'[Len(wire) + 1] = rec
        BY <2>1, <2>2, <2>3, AppendAt DEF rec
    <2>5. \A m : Begins(m)' <=> Begins(m)
        BY <2>1, <2>2, <2>3, <2>4 DEF Begins
    <2>6. /\ tx[i] # NoReq /\ tx[i] \notin pushed /\ tx[i] \in used /\ tx[i] \in Req
          /\ \A m \in Id : tx[m] = tx[i] => m = i
        BY <2>1 DEF OrderInv, IdInv, TypeOK
    <2>7. \A m : InHand(m)' = InHand(m)
        BY <2>1 DEF InHand
    <2>8. \A m : /\ Cardinality(DataAt(wire, m)) \in Nat
                 /\ Cardinality(DataAt(wire, m))'
                        = Cardinality(DataAt(wire, m)) + (IF m = i THEN n ELSE 0)
        <3>1. \A m : Cardinality(DataAt(Append(wire, rec), m))
                         = Cardinality(DataAt(wire, m)) + (IF m = i THEN n ELSE 0)
            BY <2>2, <2>3, DataAppend DEF DataType
        <3> QED
            BY <2>1, <2>3, <3>1, DataFinite DEF rec
    <2>9. /\ sent'[tx[i]] = sent[tx[i]] + n
          /\ \A r \in Req : sent[r] \in Nat /\ (r # tx[i] => sent'[r] = sent[r])
        BY <2>1, <2>6 DEF TypeOK
    <2>10. ASSUME NEW m \in Id, tx[m] # NoReq, Reading PROVE Accounted(m)'
        <3>1. Accounted(m) /\ tx[m] \in Req /\ Held(m) \in Nat /\ InHand(m) \in Nat
            BY <2>10 DEF DataInv, TypeOK, Held, InHand
        <3>2. Held(m)' = Held(m)
            BY <2>1, <2>5 DEF Held
        <3>3. sent'[tx[m]] = sent[tx[m]] + (IF m = i THEN n ELSE 0)
            BY <2>6, <2>9, <3>1
        <3> QED
            BY <2>1, <2>7, <2>8, <3>1, <3>2, <3>3 DEF Accounted
    <2> QED
        BY <2>1, <2>6, <2>9, <2>10 DEF DataInv, Reading, TypeOK
<1>3. CASE PeerHangup
    <2>1. UNCHANGED <<wire, tx, used, sent, size, pushed, pc, record>>
        BY <1>3, PeerKeeps DEF PeerHangup
    <2> QED
        BY <2>1, DataSame DEF Begins, InHand, Reading
<1>4. ASSUME NEW rec \in StrayRecord PROVE ~PeerStray(rec)
    BY DEF PeerStray, Orderly
<1>5. (\A i \in Id : ~PeerAbort(i)) /\ ~PeerGetValues
    BY DEF PeerAbort, PeerGetValues, Orderly
<1> QED
    BY <1>1, <1>2, <1>3, <1>4, <1>5 DEF Peer, DataType

LEMMA DataReadRecord ==
    ASSUME TypeOK, DataInv, ReadRecord
    PROVE  DataInv'
<1>1. /\ pc = "read" /\ pc' = "handle" /\ wire # <<>> /\ wire \in Seq(Record)
      /\ record' = wire[1] /\ wire' = Tail(wire)
      /\ UNCHANGED <<tx, used, sent, size, pushed>>
    BY TailAt DEF ReadRecord, peerVars, memVars, TypeOK
<1>2. /\ Len(wire) \in Nat /\ 1 \in 1..Len(wire) /\ Len(wire') = Len(wire) - 1
      /\ \A j \in 1..Len(wire') : j + 1 \in 1..Len(wire) /\ wire'[j] = wire[j + 1]
      /\ \A j \in 1..Len(wire) : j = 1 \/ (j - 1 \in 1..Len(wire') /\ wire[j] = wire'[j - 1])
    BY <1>1, TailAt
<1>3. \A m : Begins(m)' <=> Begins(m)
    <2> TAKE m
    <2>1. Begins(m)' => Begins(m)
        BY <1>1, <1>2 DEF Begins
    <2>2. ASSUME Begins(m) PROVE Begins(m)'
        <3>1. PICK j \in 1..Len(wire) : wire[j].id = m /\ wire[j].type = "BEGIN"
            BY <1>1, <2>2 DEF Begins
        <3>2. CASE j = 1
            BY <1>1, <3>1, <3>2 DEF Begins
        <3>3. CASE j # 1
            <4>1. j - 1 \in 1..Len(wire') /\ wire'[j - 1] = wire[j]
                BY <1>2, <3>3
            <4> QED
                BY <3>1, <4>1 DEF Begins
        <3> QED
            BY <3>2, <3>3
    <2> QED
        BY <2>1, <2>2
<1>4. \A m : Held(m)' = Held(m)
    BY <1>1, <1>3 DEF Held
<1>5. \A m : /\ InHand(m) = 0
             /\ InHand(m)' \in Nat /\ Cardinality(DataAt(wire, m))' \in Nat
             /\ Cardinality(DataAt(wire, m)) = InHand(m)' + Cardinality(DataAt(wire, m))'
    <2> TAKE m
    <2>1. InHand(m)' = IF wire[1].id = m /\ wire[1].type \in DataType THEN 1 ELSE 0
        BY <1>1 DEF InHand
    <2>2. Cardinality(DataAt(wire, m)) = Cardinality(DataAt(Tail(wire), m)) + InHand(m)'
        BY <1>1, <2>1, DataTail
    <2>3. Cardinality(DataAt(Tail(wire), m)) \in Nat
        BY <1>1, TailAt, DataFinite
    <2> QED
        BY <1>1, <2>1, <2>2, <2>3 DEF InHand
<1>6. ASSUME NEW m \in Id, tx[m] # NoReq PROVE Accounted(m)'
    <2>1. Accounted(m) /\ Held(m) \in Nat
        BY <1>1, <1>6 DEF DataInv, Reading, Held, TypeOK
    <2> QED
        BY <1>1, <1>4, <1>5, <2>1 DEF Accounted
<1> QED
    BY <1>1, <1>6 DEF DataInv

LEMMA DataBegin ==
    ASSUME TypeOK, OrderInv, DataInv, BeginResponder
    PROVE  DataInv'
<1> DEFINE r == record.req
           i == record.id
<1>1. /\ pc = "handle" /\ pc' = "read" /\ record.type = "BEGIN" /\ record' = NoRecord
      /\ size' = [size EXCEPT ![r] = 0]
      /\ UNCHANGED <<wire, tx, used, sent, pushed>>
    BY DEF BeginResponder, AcceptsBegin, Handling, peerVars
<1>2. /\ i \in Id /\ r \in Req /\ r = tx[i] /\ life[r] = "unborn" /\ Begins(i) /\ Reading
      /\ \A j \in 1..Len(wire) : ~(wire[j].id = i /\ wire[j].type = "BEGIN")
    BY <1>1, HandledRequest DEF Sent, BeginRecord
<1> HIDE DEF r
<1>3. r \notin pushed /\ r # NoReq /\ \A m \in Id : tx[m] = r => m = i
    BY <1>2, ConstantsAssumption DEF OrderInv, PoolInv, IdInv
<1>4. \A m : Begins(m)' <=> Begins(m) /\ m # i
    BY <1>1, <1>2 DEF Begins
<1> HIDE DEF i
<1>5. size'[r] = 0 /\ \A x \in Req \ {r} : size'[x] = size[x]
    BY <1>1, <1>2 DEF TypeOK
<1>6. \A m : InHand(m) = 0 /\ InHand(m)' = 0
    BY <1>1 DEF InHand, DataType
<1>7. \A m \in Id : tx[m] # NoReq => Held(m)' = Held(m)
    <2> SUFFICES ASSUME NEW m \in Id, tx[m] # NoReq PROVE Held(m)' = Held(m)
        OBVIOUS
    <2>1. CASE m = i
        BY <1>1, <1>2, <1>4, <1>5, <2>1 DEF Held
    <2>2. CASE m # i
        <3>1. tx[m] \in Req \ {r}
            BY <1>3, <2>2 DEF TypeOK
        <3> QED
            BY <1>1, <1>4, <1>5, <2>2, <3>1 DEF Held
    <2> QED
        BY <2>1, <2>2
<1>8. ASSUME NEW m \in Id, tx[m] # NoReq PROVE Accounted(m)'
    <2>1. Accounted(m)
        BY <1>2, <1>8 DEF DataInv
    <2> QED
        BY <1>1, <1>6, <1>7, <1>8, <2>1 DEF Accounted
<1> QED
    BY <1>1, <1>3, <1>5, <1>8 DEF DataInv, TypeOK

LEMMA DataAppendData ==
    ASSUME TypeOK, OrderInv, DataInv, AppendData
    PROVE  DataInv'
<1> DEFINE i == record.id
<1>1. /\ pc = "handle" /\ pc' = "read" /\ record.type \in DataType
      /\ size' = [size EXCEPT ![request] = @ + 1]
      /\ UNCHANGED <<wire, tx, used, sent, pushed>>
    BY DEF AppendData, Handling, peerVars, DataType
<1>2. /\ i \in Id /\ request \in Req /\ request = tx[i] /\ request \notin pushed
      /\ ~Begins(i) /\ Reading
    BY <1>1, HandledRequest DEF DataType
<1>3. \A m : Begins(m)' <=> Begins(m)
    BY <1>1 DEF Begins, DataType
<1>4. \A m : InHand(m) = (IF m = i THEN 1 ELSE 0) /\ InHand(m)' = 0
    BY <1>1 DEF InHand
<1> HIDE DEF i
<1>5. /\ size[request] \in Nat /\ size'[tx[i]] = size[tx[i]] + 1
      /\ \A x \in Req : x # tx[i] => size'[x] = size[x]
    BY <1>1, <1>2 DEF TypeOK
<1>6. \A m \in Id : tx[m] # NoReq => Held(m) \in Nat /\ Held(m)' + InHand(m)' = Held(m) + InHand(m)
    <2> SUFFICES ASSUME NEW m \in Id, tx[m] # NoReq
                 PROVE  Held(m) \in Nat /\ Held(m)' + InHand(m)' = Held(m) + InHand(m)
        OBVIOUS
    <2>1. Held(m) \in Nat
        BY DEF Held, TypeOK
    <2>2. CASE m = i
        BY <1>1, <1>2, <1>3, <1>4, <1>5, <2>2 DEF Held
    <2>3. CASE m # i
        <3>1. tx[m] # tx[i] /\ tx[m] \in Req
            BY <1>2, <2>3, ConstantsAssumption DEF OrderInv, IdInv, TypeOK
        <3>2. Held(m)' = Held(m)
            BY <1>1, <1>3, <1>5, <3>1 DEF Held
        <3> QED
            BY <1>4, <2>1, <2>3, <3>2
    <2> QED
        BY <2>1, <2>2, <2>3
<1>7. ASSUME NEW m \in Id, tx[m] # NoReq PROVE Accounted(m)'
    <2>1. Accounted(m)
        BY <1>2, <1>7 DEF DataInv
    <2> QED
        BY <1>1, <1>6, <1>7, <2>1 DEF Accounted
<1> QED
    BY <1>1, <1>2, <1>5, <1>7 DEF DataInv, TypeOK

\* All the data of the request is in it: no more is on the wire.
LEMMA DataDispatch ==
    ASSUME TypeOK, OrderInv, DataInv, Dispatch
    PROVE  DataInv'
<1>1. /\ pc = "handle" /\ record.type = "STDIN_END" /\ record' = NoRecord
      /\ pushed' = pushed \cup {request} /\ pc' # "handle"
      /\ UNCHANGED <<wire, tx, used, sent, size>>
    BY DEF Dispatch, Handling, peerVars, memVars
<1>2. /\ record.id \in Id /\ request = tx[record.id] /\ request \in Req /\ Reading
      /\ ~Begins(record.id) /\ request # NoReq
      /\ \A j \in 1..Len(wire) : wire[j].id # record.id
    <2>1. \A j \in 1..Len(wire) : wire[j].id # record.id
        BY <1>1 DEF OrderInv, WireInv, InOrder
    <2> QED
        BY <1>1, <2>1, HandledRequest, ConstantsAssumption
<1>3. \A m : InHand(m) = 0 /\ InHand(m)' = 0 /\ (Begins(m)' <=> Begins(m))
    BY <1>1 DEF InHand, Begins, DataType
<1>4. size[request] = sent[request]
    <2>1. sent[request] = size[request] + 0 + Cardinality(DataAt(wire, record.id))
        BY <1>2, <1>3 DEF DataInv, Accounted, Held
    <2>2. wire \in Seq(Record)
        BY DEF TypeOK
    <2>3. Cardinality(DataAt(wire, record.id)) = 0
        BY <1>2, <2>2, DataFinite
    <2> QED
        BY <1>2, <2>1, <2>3 DEF TypeOK
<1>5. ASSUME NEW m \in Id, tx[m] # NoReq PROVE Accounted(m)'
    <2>1. Accounted(m)
        BY <1>2, <1>5 DEF DataInv
    <2> QED
        BY <1>1, <1>3, <2>1 DEF Accounted, Held
<1> QED
    BY <1>1, <1>4, <1>5 DEF DataInv

LEMMA DataStep ==
    ASSUME Orderly, IInv, OrderInv, OrderInv', DataInv, [Next]_vars
    PROVE  DataInv'
<1> USE DEF IInv
<1>1. CASE Server \/ SpuriousWakeup
    <2>1. CASE Cleanup \/ ReadEof \/ Wait \/ SpuriousWakeup \/ HackCond \/ HackMutex
        <3>1. /\ UNCHANGED <<wire, tx, used, sent, size, pushed>>
              /\ pc # "handle" /\ pc' # "handle" /\ (Reading' => Reading)
            BY <2>1 DEF Cleanup, ReadEof, Wait, SpuriousWakeup, HackCond, HackMutex, Reading,
                peerVars, memVars
        <3> QED
            BY <3>1, DataSame DEF Begins, InHand
    <2> QED
        BY <1>1, <2>1, ServerActs, DataReadRecord, DataBegin, DataAppendData, DataDispatch
<1>2. ASSUME \/ \E w \in Worker : WorkerStep(w)
             \/ \E r \in Req : Overwrite(r)
             \/ UNCHANGED vars
      PROVE  DataInv'
    <2>1. /\ UNCHANGED <<wire, tx, used, sent, size, pushed, record>>
          /\ pc' = pc \/ (pc = "asleep" /\ pc' = "wait")
        <3>1. UNCHANGED <<wire, tx, used, sent, size, pushed, record>>
            BY <1>2, Zenon DEF WorkerStep, TakeTask, Lock, Write, Remove, Signal, UseReleased,
                Overwrite, vars, peerVars, serverVars, memVars
        <3>2. pc' = pc \/ (pc = "asleep" /\ pc' = "wait")
            BY <1>2 DEF WorkerStep, TakeTask, Lock, Write, Remove, Signal, UseReleased,
                Overwrite, vars, serverVars
        <3> QED
            BY <3>1, <3>2
    <2> QED
        BY <2>1, DataSame DEF Begins, InHand, Reading
<1> QED
    BY <1>1, <1>2, DataPeer DEF Next, Terminated

-----------------------------------------------------------------------------
\* What the pool is handed holds every PARAMS and STDIN record that the web
\* server sent for it and none of another transaction (fcgi.c:511-549).
THEOREM RequestsComplete == ASSUME Orderly PROVE Spec => []RequestComplete
<1>1. Init => DataInv
    BY DEF Init, DataInv
<1>2. IInv /\ OrderInv /\ (IInv /\ OrderInv)' /\ DataInv /\ [Next]_vars => DataInv'
    BY DataStep
<1>3. DataInv => RequestComplete
    BY DEF DataInv, RequestComplete
<1> QED
    BY <1>1, <1>2, <1>3, OrderInvariant, PTL DEF Spec

=============================================================================
