----------------------------- MODULE FileService -----------------------------
(***************************************************************************)
(* The in-memory filesystem and its two ways in.  sys_fs_read, sys_fs_list  *)
(* and sys_fs_write send a request through fsReqQ to the fsTask kernel      *)
(* thread and wait for its event; sys_open, and sys_read and sys_write on a *)
(* fileFd, call the fs functions themselves.                                *)
(*                                                                          *)
(* fsTask runs on the BSP and each process on an AP of its own, so the      *)
(* unlocked fs functions interleave: one scan of the directory, or one      *)
(* update of an entry, is one step.  File data is abstracted to its length. *)
(* No caller sends fsOpDelete, so no entry is ever freed.                   *)
(***************************************************************************)
EXTENDS KQueue, Integers, FiniteSets

CONSTANTS
    Procs,       \* Ring-3 processes
    Openers,     \* those of them that open files
    FsTask,      \* the service thread
    Names,       \* file names
    NoName,      \* the empty name of a free entry
    MaxFiles,    \* maxFiles
    MaxData      \* maxFileData

ASSUME NilAssumption == NoThread \notin Procs

\* fsTask and the processes are the threads that use the queue.
ASSUME ThreadAssumption ==
    QThreads = Procs \cup {FsTask} /\ FsTask \notin Procs /\ FsTask # NoThread

Entries == 1..MaxFiles
Lengths == 1..MaxData

VARIABLES
    files,       \* fs.files
    pc,          \* where each process is
    req,         \* the process's fsRequest, or its open in progress
    slot,        \* the entry its own fs call has settled on
    seen,        \* the entry's size when an append looked at it
    grow,        \* n of an append
    file,        \* the name the process has open for writing
    flag,        \* flag of the request's event
    tpc,         \* where fsTask is
    cur,         \* the process whose request fsTask serves
    tslot        \* the entry its fsCreate has settled on

procVars == <<pc, req, slot, seen, grow, file, flag>>
taskVars == <<tpc, cur, tslot>>
vars == <<queueVars, files, procVars, taskVars>>

NoReq  == [op |-> "none", name |-> NoName, len |-> 0]

Init ==
    /\ QueueInit
    /\ files = [i \in Entries |-> [used |-> FALSE, name |-> NoName, size |-> 0]]
    /\ pc = [p \in Procs |-> "user"]
    /\ req = [p \in Procs |-> NoReq]
    /\ slot = [p \in Procs |-> 0] /\ seen = [p \in Procs |-> 0]
    /\ grow = [p \in Procs |-> 0]
    /\ file = [p \in Procs |-> NoName]
    /\ flag = [p \in Procs |-> FALSE]
    /\ tpc = "pop" /\ cur = NoThread /\ tslot = 0

-----------------------------------------------------------------------------
Matching(n) == {i \in Entries : files[i].used /\ files[i].name = n}
Free == {i \in Entries : ~files[i].used}
Lowest(S) == CHOOSE i \in S : \A j \in S : i <= j

\* fsSize(n) >= 0, and the first of fsCreate's two scans.
Exists(n) == Matching(n) # {}
EntryOf(n) == Lowest(Matching(n))

\* A file that has outgrown its array panics its next reader.
Fits(n) == Exists(n) => files[EntryOf(n)].size <= MaxData

Fill(i, n) == files' = [files EXCEPT ![i] = [used |-> TRUE, name |-> n, size |-> 0]]
SetSize(i, s) == files' = [files EXCEPT ![i].size = s]

-----------------------------------------------------------------------------
(***************************************************************************)
(* The request path of a process.                                           *)
(***************************************************************************)
Send(p, op, n, l) ==
    /\ pc[p] = "user"
    /\ req' = [req EXCEPT ![p] = [op |-> op, name |-> n, len |-> l]]
    /\ pc' = [pc EXCEPT ![p] = "push"]
    /\ UNCHANGED <<queueVars, files, slot, seen, grow, file, flag, taskVars>>

SysFsRead(p)  == \E n \in Names : Send(p, "read", n, 0)
SysFsList(p)  == Send(p, "list", NoName, 0)
\* sys_fs_write: fsSendCreate, its answer ignored, then fsSendWrite.
SysFsWrite(p) == \E n \in Names, l \in Lengths : Send(p, "create", n, l)

\* fsReqQ.Push(req).
PushReq(p) ==
    /\ pc[p] = "push"
    /\ \/ Enqueue(p, p) /\ pc' = [pc EXCEPT ![p] = "wait"]
       \/ ParkProducer(p) /\ UNCHANGED pc
    /\ UNCHANGED <<files, req, slot, seen, grow, file, flag, taskVars>>

\* req.ev.Wait(): park until fsTask signals, then read the response.
WaitReply(p) ==
    /\ pc[p] = "wait" /\ Runs(p)
    /\ IF ~flag[p]
       THEN pc' = [pc EXCEPT ![p] = "asleep"] /\ UNCHANGED <<req, flag>>
       ELSE IF req[p].op = "create"
            THEN /\ req' = [req EXCEPT ![p].op = "write"]
                 /\ flag' = [flag EXCEPT ![p] = FALSE]
                 /\ pc' = [pc EXCEPT ![p] = "push"]
            ELSE /\ req' = [req EXCEPT ![p] = NoReq]
                 /\ flag' = [flag EXCEPT ![p] = FALSE]
                 /\ pc' = [pc EXCEPT ![p] = "user"]
    /\ UNCHANGED <<queueVars, files, slot, seen, grow, file, taskVars>>

-----------------------------------------------------------------------------
(***************************************************************************)
(* fsTask.                                                                  *)
(***************************************************************************)
TaskPop ==
    /\ tpc = "pop"
    /\ \/ Dequeue(FsTask) /\ cur' = FrontValue /\ tpc' = "serve"
       \/ ParkConsumer(FsTask) /\ UNCHANGED <<cur, tpc>>
    /\ UNCHANGED <<files, procVars, tslot>>

\* The switch on req.op; fsCreate goes on in TaskFind and TaskFill.  The
\* content of the response is abstracted away.
TaskServe ==
    /\ tpc = "serve" /\ Runs(FsTask)
    /\ LET n == req[cur].name IN
       \/ req[cur].op = "read" /\ Fits(n) /\ tpc' = "signal" /\ UNCHANGED files
       \/ req[cur].op = "list" /\ tpc' = "signal" /\ UNCHANGED files
       \/ /\ req[cur].op = "write" /\ tpc' = "signal"
          /\ IF Exists(n) THEN SetSize(EntryOf(n), req[cur].len) ELSE UNCHANGED files
       \/ /\ req[cur].op = "create"
          /\ tpc' = IF Exists(n) THEN "signal" ELSE "find"
          /\ UNCHANGED files
    /\ UNCHANGED <<queueVars, procVars, cur, tslot>>

\* fsCreate's second scan; a full directory fails the request.
TaskFind ==
    /\ tpc = "find"
    /\ IF Free = {} THEN tpc' = "signal" /\ UNCHANGED tslot
                    ELSE tpc' = "fill" /\ tslot' = Lowest(Free)
    /\ UNCHANGED <<queueVars, files, procVars, cur>>

TaskFill ==
    /\ tpc = "fill" /\ tpc' = "signal"
    /\ Fill(tslot, req[cur].name)
    /\ tslot' = 0
    /\ UNCHANGED <<queueVars, procVars, cur>>

\* Wrong: the event is signalled and nobody is woken.
TaskSignalNoWake ==
    /\ tpc = "signal"
    /\ flag' = [flag EXCEPT ![cur] = TRUE]
    /\ tpc' = "pop" /\ cur' = NoThread
    /\ UNCHANGED <<queueVars, files, pc, req, slot, seen, grow, file, tslot>>

\* req.ev.Signal().
TaskSignal ==
    /\ tpc = "signal"
    /\ flag' = [flag EXCEPT ![cur] = TRUE]
    /\ pc' = [pc EXCEPT ![cur] = IF @ = "asleep" THEN "wait" ELSE @]
    /\ tpc' = "pop" /\ cur' = NoThread
    /\ UNCHANGED <<queueVars, files, req, slot, seen, grow, file, tslot>>

-----------------------------------------------------------------------------
(***************************************************************************)
(* The fileFd path: the process runs the fs functions itself.  A fileFd     *)
(* opened for reading only ever looks at the entry, and is left out.        *)
(***************************************************************************)
\* openFileFd up to its decision to create; in fileModeWrite an existing file
\* is truncated.
Open(p) ==
    \E n \in Names, m \in {"write", "append"} :
        /\ pc[p] = "user" /\ p \in Openers
        /\ IF Exists(n)
           THEN /\ file' = [file EXCEPT ![p] = n]
                /\ IF m = "write" THEN SetSize(EntryOf(n), 0) ELSE UNCHANGED files
                /\ UNCHANGED <<pc, req>>
           ELSE /\ req' = [req EXCEPT ![p] = [op |-> "open", name |-> n, len |-> 0]]
                /\ pc' = [pc EXCEPT ![p] = "create"]
                /\ UNCHANGED <<file, files>>
        /\ UNCHANGED <<queueVars, slot, seen, grow, flag, taskVars>>

\* fsCreate, first scan: the name may exist by now, which fails the open.
CreateScan(p) ==
    /\ pc[p] = "create"
    /\ IF Exists(req[p].name)
       THEN pc' = [pc EXCEPT ![p] = "user"] /\ req' = [req EXCEPT ![p] = NoReq]
       ELSE pc' = [pc EXCEPT ![p] = "find"] /\ UNCHANGED req
    /\ UNCHANGED <<queueVars, files, slot, seen, grow, file, flag, taskVars>>

CreateFind(p) ==
    /\ pc[p] = "find"
    /\ IF Free = {}
       THEN /\ pc' = [pc EXCEPT ![p] = "user"] /\ req' = [req EXCEPT ![p] = NoReq]
            /\ UNCHANGED slot
       ELSE /\ pc' = [pc EXCEPT ![p] = "fill"] /\ UNCHANGED req
            /\ slot' = [slot EXCEPT ![p] = Lowest(Free)]
    /\ UNCHANGED <<queueVars, files, seen, grow, file, flag, taskVars>>

CreateFill(p) ==
    /\ pc[p] = "fill"
    /\ Fill(slot[p], req[p].name)
    /\ file' = [file EXCEPT ![p] = req[p].name]
    /\ pc' = [pc EXCEPT ![p] = "user"]
    /\ req' = [req EXCEPT ![p] = NoReq] /\ slot' = [slot EXCEPT ![p] = 0]
    /\ UNCHANGED <<queueVars, seen, grow, flag, taskVars>>

\* fileFd.Write: fsAppend finds the entry and the room it has ...
FdWrite(p) ==
    \E l \in Lengths :
        /\ pc[p] = "user" /\ Exists(file[p])
        /\ LET i == EntryOf(file[p])
               room == MaxData - files[i].size
           IN /\ slot' = [slot EXCEPT ![p] = i]
              /\ seen' = [seen EXCEPT ![p] = files[i].size]
              /\ grow' = [grow EXCEPT ![p] = IF l > room THEN room ELSE l]
        /\ pc' = [pc EXCEPT ![p] = "append"]
        /\ UNCHANGED <<queueVars, files, req, file, flag, taskVars>>

\* ... then copies, and adds n to a size that is read again or was read before.
FdAppend(p) ==
    /\ pc[p] = "append"
    /\ \E s \in {seen[p], files[slot[p]].size} : SetSize(slot[p], s + grow[p])
    /\ pc' = [pc EXCEPT ![p] = "user"]
    /\ slot' = [slot EXCEPT ![p] = 0]
    /\ seen' = [seen EXCEPT ![p] = 0] /\ grow' = [grow EXCEPT ![p] = 0]
    /\ UNCHANGED <<queueVars, req, file, flag, taskVars>>

\* kschedWake after a Push or a Pop.
Wakeup(t) == WakeDetached(t) /\ UNCHANGED <<files, procVars, taskVars>>

-----------------------------------------------------------------------------
Task == TaskPop \/ TaskServe \/ TaskFind \/ TaskFill \/ TaskSignal

Proc(p) ==
    \/ PushReq(p) \/ WaitReply(p)
    \/ CreateScan(p) \/ CreateFind(p) \/ CreateFill(p) \/ FdAppend(p)

Call(p) == SysFsRead(p) \/ SysFsList(p) \/ SysFsWrite(p) \/ Open(p) \/ FdWrite(p)

Next ==
    \/ Task
    \/ \E p \in Procs : Proc(p) \/ Call(p)
    \/ \E t \in QThreads : Wakeup(t)

Spec == Init /\ [][Next]_vars

\* fsTask, and a process inside a syscall, keep being dispatched; a process
\* need not make another call.
Fairness ==
    /\ WF_vars(Task)
    /\ \A p \in Procs : WF_vars(Proc(p))
    /\ \A t \in QThreads : WF_vars(Wakeup(t))

LiveSpec == Spec /\ Fairness

-----------------------------------------------------------------------------
\* Type invariant: the request queue is well formed, and entries, slots and
\* event flags have values of their kinds (fs.go, fsReqQueue).
TypeOK ==
    /\ QueueTypeOK
    /\ \A i \in Entries : files[i].used \in BOOLEAN /\ files[i].size \in Int
    /\ \A p \in Procs : /\ file[p] \in Names \cup {NoName}
                        /\ slot[p] \in 0..MaxFiles /\ flag[p] \in BOOLEAN
    /\ tslot \in 0..MaxFiles
    /\ cur \in Procs \cup {NoThread}

\* fsReqQ is a bounded FIFO: the ring with its wrapping indices and its parked
\* threads delivers each request once and in order.
Fifo == INSTANCE BoundedFIFO WITH Values <- Procs, items <- Contents
RequestQueueIsFIFO == Fifo!Spec

InQueue(p) == {i \in 1..count : Contents[i] = p}

\* A process that waits for a reply has its request in exactly one place: once
\* in the ring, in fsTask's hands, or answered with the event set.
RequestHeldOnce ==
    \A p \in Procs :
        pc[p] \in {"wait", "asleep"} =>
            Cardinality(InQueue(p)) + (IF cur = p THEN 1 ELSE 0)
              + (IF flag[p] THEN 1 ELSE 0) = 1

\* A parked producer is never stranded: while one is on the list, the queue
\* holds an entry whose Pop will wake the next, or a woken producer is on its
\* way to push one, or one has been taken off the list and is about to be woken.
ProducersAdvance ==
    producers # <<>> =>
        \/ count > 0
        \/ \E p \in Procs : pc[p] = "push" /\ p \notin parked
        \/ \E t \in QThreads : waking[t] \in Procs

\* A request in the ring is answered, unless a file has outgrown its array and
\* fsTask's copy of it panics.
RequestAnswered ==
    \A p \in Procs : (pc[p] \in {"wait", "asleep"})
                     ~> (pc[p] \notin {"wait", "asleep"} \/ \E n \in Names : ~Fits(n))

\* fsCreate fails when the name exists, and no file outgrows its array.
FilesConsistent ==
    \A n \in Names : Cardinality(Matching(n)) <= 1 /\ Fits(n)
=============================================================================
