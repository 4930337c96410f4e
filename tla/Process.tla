------------------------------ MODULE Process ------------------------------
(***************************************************************************)
(* User processes in the build without VM: process.c, the process calls of *)
(* syscall.c, pagedir.c, exception.c, and the parts of thread.c that       *)
(* create and destroy a process.  One CPU runs one thread at a time and    *)
(* the timer may switch threads between any two steps; a switch loads the  *)
(* page directory of the new thread.                                       *)
(*                                                                         *)
(* A Thread is a page a struct thread may be in, a KPage one allocation    *)
(* from the kernel pool (a page, or the two pages of an fd_table), a Frame *)
(* a page of the user pool.  An allocation takes the lowest free page, and *)
(* may fail at any time because the rest of the kernel shares the pools.   *)
(* A step that would read or write a struct thread after it was freed      *)
(* stops the model with stopped = "wild": the build fills freed pages with *)
(* 0xcc and what follows is undefined.                                     *)
(***************************************************************************)
EXTENDS Integers, Sequences, FiniteSets, Functions

CONSTANTS
  Thread, main,    \* main is initial_thread
  KPages, Frames,  \* sizes of the two pools
  File,            \* heap blocks for struct file
  MaxTid,          \* bound on the threads created
  MaxFd,           \* bound on the descriptors a process opens
  NULL

KPage == 1..KPages
Frame == 1..Frames

\* User virtual pages, and the page directory entry that covers each.
UPage == {"code", "stack"}
Pde == {"low", "high"}
pd_no(upage) == IF upage = "stack" THEN "high" ELSE "low"

VARIABLES
  th,         \* the struct thread in each Thread, or NULL
  current,    \* the running thread, or "idle"
  cr3,        \* the active page directory, NULL for init_page_dir
  kpage,      \* what each kernel page holds, or NULL
  frames,     \* the frames in use
  file,       \* the tid of the process that opened each File, or NULL
  file_lock,  \* the holder, or NULL
  next_tid, stopped

vars == <<th, current, cr3, kpage, frames, file, file_lock, next_tid, stopped>>

Loading == {"pagedir", "open_exe", "header", "segment", "install",
            "stack", "install_stack", "close_exe", "load_up"}
Exiting == {"exit", "clear", "deactivate", "destroy", "die"}
Calling == {"create", "fd_table", "push", "free_params", "get_child",
            "load_down", "load_read", "wait", "wait_down", "wait_asleep",
            "lock", "open", "transfer"}
Label == Loading \cup Exiting \cup Calling \cup {"new", "free_own", "user"}

\* A pointer to one of S, which may be null.
Ptr(S) == S \cup {NULL}

\* A child_list links struct threads: a page and the tid it had when linked.
ThreadType ==
  [tid : 1..MaxTid, pc : Label, child_list : Seq(Thread \X (1..MaxTid)),
   load_sema : Nat, wait_sema : Nat, destroy_sema : Nat,
   load_succeeded : BOOLEAN,
   pagedir : Ptr(KPage), fd_table : Ptr(KPage), fd : Seq(Ptr(File)),
   \* locals of the calls in progress
   params : Ptr(KPage), success : BOOLEAN, exe : Ptr(File),
   kpage : Ptr(Frame), upage : Ptr(UPage), pd : Ptr(KPage), new : Ptr(KPage),
   child : Ptr(Thread), ctid : 0..MaxTid, op : Ptr({"open", "io"})]

\* Only a page directory has page tables and mappings.
Content == [kind : {"params", "fd_table", "pagedir", "pt"},
            pt : [Pde -> Ptr(KPage)], map : [UPage -> Ptr(Frame)]]
zeroed(kind) == [kind |-> kind, pt |-> [e \in Pde |-> NULL],
                 map |-> [u \in UPage |-> NULL]]

ASSUME ProcessAssumption ==
  /\ main \in Thread /\ "idle" \notin Thread
  /\ KPages \in Nat /\ Frames \in Nat /\ MaxTid \in Nat \ {0} /\ MaxFd \in Nat
  /\ NULL \notin Thread \cup File \cup Nat \cup ThreadType \cup Content

TypeOK ==
  /\ th \in [Thread -> Ptr(ThreadType)]
  /\ current \in Thread \cup {"idle"}
  /\ cr3 \in Ptr(KPage)
  /\ kpage \in [KPage -> Ptr(Content)]
  /\ frames \subseteq Frame
  /\ file \in [File -> Ptr(1..MaxTid)]
  /\ file_lock \in Ptr(Thread)
  /\ next_tid \in 1..MaxTid + 1
  /\ stopped \in {"no", "halt", "wild"}

\* init_thread() on a zeroed page.
init_thread(tid, pc) ==
  [tid |-> tid, pc |-> pc, child_list |-> <<>>,
   load_sema |-> 0, wait_sema |-> 0, destroy_sema |-> 0,
   load_succeeded |-> FALSE, pagedir |-> NULL, fd_table |-> NULL,
   fd |-> <<>>, params |-> NULL, success |-> FALSE,
   exe |-> NULL, kpage |-> NULL, upage |-> NULL, pd |-> NULL, new |-> NULL,
   child |-> NULL, ctid |-> 0, op |-> NULL]

Init ==
  /\ th = [t \in Thread |-> IF t = main THEN init_thread(1, "user") ELSE NULL]
  /\ current = main
  /\ cr3 = NULL
  /\ kpage = [k \in KPage |-> NULL]
  /\ frames = {}
  /\ file = [f \in File |-> NULL]
  /\ file_lock = NULL
  /\ next_tid = 2
  /\ stopped = "no"

Set(t, r) == th' = [th EXCEPT ![t] = r]
Goto(t, label) == Set(t, [th[t] EXCEPT !.pc = label])

FreeKPage == {k \in KPage : kpage[k] = NULL}
FreeFrame == Frame \ frames

\* The lowest number of S, if S has one.
Lowest(S) == {k \in S : \A j \in S : k <= j}

\* palloc_get_page() on the kernel pool takes the lowest free page.
get_kpage(k, kind) == /\ k \in Lowest(FreeKPage)
                      /\ kpage' = [kpage EXCEPT ![k] = zeroed(kind)]
free_kpage(k) == kpage' = [kpage EXCEPT ![k] = NULL]

wild ==
  /\ stopped' = "wild"
  /\ UNCHANGED <<th, current, cr3, kpage, frames, file, file_lock, next_tid>>

-----------------------------------------------------------------------------
(* Scheduling.  Synch models it in detail; here any thread that can run    *)
(* may be the next one.                                                    *)

\* The struct thread a child_list entry was made for is still there.
Live(e) == th[e[1]] # NULL /\ th[e[1]].tid = e[2]
ChildLive(t) == Live(<<th[t].child, th[t].ctid>>)

Blocked(t) ==
  \/ th[t].pc = "load_down" /\ ChildLive(t) /\ th[th[t].child].load_sema = 0
  \/ th[t].pc = "wait_asleep" /\ (~ChildLive(t) \/ th[th[t].child].wait_sema = 0)
  \/ th[t].pc = "lock" /\ file_lock # NULL

Ready == {t \in Thread : th[t] # NULL /\ th[t].pc # "new" /\ ~Blocked(t)}

pagedir_activate(pd) == cr3' = pd

process_activate(t) ==
  pagedir_activate(IF t = "idle" THEN NULL ELSE th[t].pagedir)

next_thread_to_run(t) ==
  \/ t \in Ready \ {current}
  \/ t = "idle" /\ Ready \ {current} = {}

Switch(t) ==
  /\ next_thread_to_run(t)
  /\ t = "idle" => current # "idle" /\ Blocked(current)
  /\ current' = t
  /\ process_activate(t)
  /\ UNCHANGED <<th, kpage, frames, file, file_lock, next_tid, stopped>>

\* Thread t runs on from label.
At(t, label) == current = t /\ th[t] # NULL /\ th[t].pc = label

-----------------------------------------------------------------------------
(* process_execute() and thread_create(), called by exec() and, for the    *)
(* tasks on the command line, by run_task(), which then waits.             *)

\* Where the caller goes on when process_execute() returns TID_ERROR.
TID_ERROR == 0
failed(t) == IF t = main THEN "wait" ELSE "user"

Execute(t) ==
  /\ At(t, "user")
  /\ next_tid <= MaxTid
  /\ \/ \E k \in KPage :
          /\ get_kpage(k, "params")
          /\ Set(t, [th[t] EXCEPT !.new = k, !.pc = "create"])
     \/ /\ Set(t, [th[t] EXCEPT !.ctid = TID_ERROR, !.pc = failed(t)])
        /\ UNCHANGED kpage
  /\ UNCHANGED <<current, cr3, frames, file, file_lock, next_tid, stopped>>

Create(t) ==
  /\ At(t, "create")
  /\ \/ \E c \in Thread :
          /\ th[c] = NULL
          /\ next_tid <= MaxTid
          /\ th' = [th EXCEPT ![c] = init_thread(next_tid, "new"),
                            ![t].child = c, ![t].ctid = next_tid,
                            ![t].pc = "fd_table"]
          /\ next_tid' = next_tid + 1
     \/ Goto(t, "free_params") /\ UNCHANGED next_tid
  /\ UNCHANGED <<current, cr3, kpage, frames, file, file_lock, stopped>>

FdTable(t) ==
  LET c == th[t].child
  IN  /\ At(t, "fd_table")
      /\ \/ \E k \in KPage :
              /\ get_kpage(k, "fd_table")
              /\ th' = [th EXCEPT ![c].fd_table = k, ![t].pc = "push"]
         \/ /\ th' = [th EXCEPT ![c] = NULL, ![t].pc = "free_params"]
            /\ UNCHANGED kpage
      /\ UNCHANGED <<current, cr3, frames, file, file_lock, next_tid, stopped>>

\* list_push_back() writes to the last element of the list.
Push(t) ==
  LET l == th[t].child_list
      c == th[t].child
  IN  /\ At(t, "push")
      /\ IF l # <<>> /\ ~Live(l[Len(l)]) THEN wild ELSE
           /\ th' = [th EXCEPT ![t].child_list = Append(l, <<c, th[t].ctid>>),
                             ![t].new = NULL, ![t].child = NULL,
                             ![t].pc = IF t = main THEN "wait" ELSE "get_child",
                             ![c].params = th[t].new, ![c].pc = "pagedir"]
           /\ UNCHANGED <<current, cr3, kpage, frames, file, file_lock,
                          next_tid, stopped>>

FreeParams(t) ==
  /\ At(t, "free_params")
  /\ free_kpage(th[t].new)
  /\ Set(t, [th[t] EXCEPT !.new = NULL, !.child = NULL, !.ctid = TID_ERROR,
                         !.pc = failed(t)])
  /\ UNCHANGED <<current, cr3, frames, file, file_lock, next_tid, stopped>>

-----------------------------------------------------------------------------
(* exec() and process_wait() in the parent.                                *)

\* thread_get_child() follows the list up to the tid, or to the end.
Found(t) == {i \in DOMAIN th[t].child_list : th[t].child_list[i][2] = th[t].ctid}
Walks(t) ==
  \A i \in DOMAIN th[t].child_list :
    (\A j \in Found(t) : i <= j) => Live(th[t].child_list[i])

\* With ctid found, on to the semaphore; a wait() for any other tid is over.
GetChild(t) ==
  /\ At(t, "get_child") \/ At(t, "wait")
  /\ IF ~Walks(t) THEN wild ELSE
       /\ \/ Found(t) = {} /\ Set(t, [th[t] EXCEPT !.ctid = TID_ERROR, !.pc = "user"])
          \/ \E i \in Lowest(Found(t)) :
               Set(t, [th[t] EXCEPT
                         !.child = th[t].child_list[i][1],
                         !.pc = IF @ = "wait" THEN "wait_down" ELSE "load_down"])
       /\ UNCHANGED <<current, cr3, kpage, frames, file, file_lock, next_tid,
                      stopped>>

\* sema_down (&child->wait_sema) finds the value 0, and process_wait() sleeps.
WaitSleep(t) ==
  /\ At(t, "wait_down") /\ ChildLive(t) /\ th[th[t].child].wait_sema = 0
  /\ Goto(t, "wait_asleep")
  /\ UNCHANGED <<current, cr3, kpage, frames, file, file_lock, next_tid, stopped>>

\* sema_down (&child->load_sema) in exec(), and the rest of process_wait()
\* after sema_down (&child->wait_sema).  A child that was freed since
\* thread_get_child() found it makes either call go wild; one that is freed
\* while its parent sleeps leaves the parent in a list nobody looks at.
SemaDown(t) ==
  LET c == th[t].child
  IN  /\ At(t, "load_down") \/ At(t, "wait_down") \/ At(t, "wait_asleep")
      /\ ~Blocked(t)
      /\ th[t].pc = "wait_down" /\ ChildLive(t) => th[c].wait_sema # 0
      /\ IF ~ChildLive(t) THEN wild ELSE
           /\ th' = IF th[t].pc = "load_down"
                THEN [th EXCEPT ![c].load_sema = @ - 1, ![t].pc = "load_read"]
                ELSE [th EXCEPT ![c].wait_sema = @ - 1, ![c].destroy_sema = @ + 1,
                        ![t].child_list = SelectSeq(@, LAMBDA e : e[1] # c),
                        ![t].pc = "user"]
           /\ UNCHANGED <<current, cr3, kpage, frames, file, file_lock,
                          next_tid, stopped>>

LoadRead(t) ==
  /\ At(t, "load_read")
  /\ IF ~ChildLive(t) THEN wild ELSE
       /\ Set(t, [th[t] EXCEPT
                    !.ctid = IF th[th[t].child].load_succeeded THEN @
                             ELSE TID_ERROR,
                    !.child = NULL, !.pc = "user"])
       /\ UNCHANGED <<current, cr3, kpage, frames, file, file_lock, next_tid,
                      stopped>>

-----------------------------------------------------------------------------
(* start_process() and load() in the child.                                *)

\* A step that changes only the struct thread of t.
Only(t, r) ==
  Set(t, r) /\ UNCHANGED <<current, cr3, kpage, frames, file, file_lock,
                           next_tid, stopped>>

pagedir_create(pd) == get_kpage(pd, "pagedir")

PagedirCreate(t) ==
  /\ At(t, "pagedir")
  /\ \/ \E k \in KPage :
          /\ pagedir_create(k)
          /\ Set(t, [th[t] EXCEPT !.pagedir = k, !.pc = "open_exe"])
          /\ pagedir_activate(k)
     \/ Goto(t, "close_exe") /\ UNCHANGED <<cr3, kpage>>
  /\ UNCHANGED <<current, frames, file, file_lock, next_tid, stopped>>

\* filesys_open() for the executable finds it, or fails.
OpenExe(t) ==
  /\ At(t, "open_exe")
  /\ \/ \E f \in File :
          /\ file[f] = NULL
          /\ file' = [file EXCEPT ![f] = th[t].tid]
          /\ Set(t, [th[t] EXCEPT !.exe = f, !.pc = "header"])
     \/ Goto(t, "close_exe") /\ UNCHANGED file
  /\ UNCHANGED <<current, cr3, kpage, frames, file_lock, next_tid, stopped>>

\* The executable header is verified.
Header(t) ==
  /\ At(t, "header")
  /\ \E label \in {"segment", "close_exe"} :
       Only(t, [th[t] EXCEPT !.pc = label])

\* virtualmemory_frame_allocate(): a frame for upage.
get_frame(t, upage, label) ==
  \E f \in Lowest(FreeFrame) :
    /\ frames' = frames \cup {f}
    /\ Set(t, [th[t] EXCEPT !.kpage = f, !.upage = upage, !.pc = label])

\* The next page of a loadable segment, the last header, or a failure.
Segment(t) ==
  /\ At(t, "segment")
  /\ \/ \E u \in UPage : get_frame(t, u, "install")
     \/ Goto(t, "stack") /\ UNCHANGED frames
     \/ Goto(t, "close_exe") /\ UNCHANGED frames
  /\ UNCHANGED <<current, cr3, kpage, file, file_lock, next_tid, stopped>>

SetupStack(t) ==
  /\ At(t, "stack")
  /\ \/ get_frame(t, "stack", "install_stack")
     \/ Goto(t, "close_exe") /\ UNCHANGED frames
  /\ UNCHANGED <<current, cr3, kpage, file, file_lock, next_tid, stopped>>

\* lookup_page() with CREATE: the pages with a page table for upage in pd,
\* which is made if there is none and a page is free.
lookup_page(pd, upage) ==
  LET e == pd_no(upage)
  IN  IF kpage[pd].pt[e] # NULL THEN {kpage}
      ELSE {[kpage EXCEPT ![k] = zeroed("pt"), ![pd].pt[e] = k] :
              k \in Lowest(FreeKPage)}

pagedir_set_page(pd, upage, frame) ==
  \E pages \in lookup_page(pd, upage) :
    kpage' = [pages EXCEPT ![pd].map[upage] = frame]

pagedir_get_page(pd, upage) == kpage[pd].map[upage]

\* install_page() maps the frame unless upage is mapped already.  When that,
\* the page table or the read of the page fails the frame is given back.
Installed(t, label) ==
  LET r == th[t]
  IN  /\ pagedir_get_page(r.pagedir, r.upage) = NULL
      /\ pagedir_set_page(r.pagedir, r.upage, r.kpage)
      /\ Set(t, [r EXCEPT !.kpage = NULL, !.upage = NULL, !.pc = label,
                         !.success = (r.pc = "install_stack")])
      /\ UNCHANGED frames

NotInstalled(t) ==
  /\ frames' = frames \ {th[t].kpage}
  /\ Set(t, [th[t] EXCEPT !.kpage = NULL, !.upage = NULL, !.pc = "close_exe"])
  /\ UNCHANGED kpage

Install(t) ==
  /\ \/ At(t, "install") /\ (Installed(t, "segment") \/ NotInstalled(t))
     \/ At(t, "install_stack") /\ (Installed(t, "close_exe") \/ NotInstalled(t))
  /\ UNCHANGED <<current, cr3, file, file_lock, next_tid, stopped>>

\* Bug variant: a load that failed does not raise load_sema.
CloseExe_NoUp(t) ==
  /\ At(t, "close_exe")
  /\ file' = [f \in File |-> IF f = th[t].exe THEN NULL ELSE file[f]]
  /\ Set(t, [th[t] EXCEPT !.exe = NULL,
                         !.pc = IF th[t].success THEN "load_up" ELSE "free_own"])
  /\ UNCHANGED <<current, cr3, kpage, frames, file_lock, next_tid, stopped>>

\* file_close(), which takes a null pointer as well.
CloseExe(t) ==
  /\ At(t, "close_exe")
  /\ file' = [f \in File |-> IF f = th[t].exe THEN NULL ELSE file[f]]
  /\ Set(t, [th[t] EXCEPT !.exe = NULL, !.pc = "load_up"])
  /\ UNCHANGED <<current, cr3, kpage, frames, file_lock, next_tid, stopped>>

LoadUp(t) ==
  /\ At(t, "load_up")
  /\ Only(t, [th[t] EXCEPT !.load_sema = @ + 1, !.pc = "free_own"])

FreeOwn(t) ==
  /\ At(t, "free_own")
  /\ free_kpage(th[t].params)
  /\ Set(t, [th[t] EXCEPT !.params = NULL,
                         !.pc = IF th[t].success THEN "user" ELSE "exit"])
  /\ UNCHANGED <<current, cr3, frames, file, file_lock, next_tid, stopped>>

-----------------------------------------------------------------------------
(* thread_exit() and process_exit().                                       *)

\* Bug variant: the base page directory is activated too early.
exit_order_Swapped == <<"deactivate", "clear", "destroy", "die">>

\* The order of the steps of process_exit().
exit_order == <<"clear", "deactivate", "destroy", "die">>
after(label) == exit_order[1 + CHOOSE i \in 1..3 : exit_order[i] = label]

Exit(t) ==
  /\ At(t, "exit")
  /\ Only(t, [th[t] EXCEPT
                !.pd = th[t].pagedir,
                !.pc = IF th[t].pagedir = NULL THEN "die" ELSE exit_order[1]])

Clear(t) ==
  /\ At(t, "clear")
  /\ Only(t, [th[t] EXCEPT !.pagedir = NULL, !.pc = after("clear")])

Deactivate(t) ==
  /\ At(t, "deactivate")
  /\ pagedir_activate(NULL)
  /\ Goto(t, after("deactivate"))
  /\ UNCHANGED <<current, kpage, frames, file, file_lock, next_tid, stopped>>

\* pagedir_destroy() frees the frames, the page tables and the directory.
Destroy(t) ==
  LET pd == th[t].pd
      pages == {pd} \cup Range(kpage[pd].pt)
  IN  /\ At(t, "destroy")
      /\ frames' = frames \ Range(kpage[pd].map)
      /\ kpage' = [k \in KPage |-> IF k \in pages THEN NULL ELSE kpage[k]]
      /\ Set(t, [th[t] EXCEPT !.pd = NULL, !.pc = after("destroy")])
      /\ UNCHANGED <<current, cr3, file, file_lock, next_tid, stopped>>

\* The next thread frees the page of the dying one in thread_schedule_tail().
Die(t) ==
  /\ At(t, "die")
  /\ th' = [th EXCEPT ![t] = NULL]
  /\ \E n \in Thread \cup {"idle"} :
       /\ next_thread_to_run(n)
       /\ current' = n
       /\ process_activate(n)
  /\ UNCHANGED <<kpage, frames, file, file_lock, next_tid, stopped>>

-----------------------------------------------------------------------------
(* The system calls of a user program, and its faults.                     *)

\* exit(), also the exit (-1) of a bad argument or of tell().  The exit
\* status is left out: no step that reads it is ever reached.
Terminate(t) ==
  /\ At(t, "user") /\ t # main
  /\ Only(t, [th[t] EXCEPT !.pc = "exit"])

\* An exception in user code: page_fault() or another handler calls kill().
Fault(t) ==
  /\ At(t, "user") /\ t # main
  /\ Only(t, [th[t] EXCEPT !.pc = "exit"])

\* A system call reads or writes a user address that passes check_address()
\* and is not mapped: page_fault() goes on at the address in eax.
KernelFault(t) ==
  /\ At(t, "user") /\ t # main
  /\ wild

Halt(t) ==
  /\ At(t, "user") /\ t # main
  /\ stopped' = "halt"
  /\ UNCHANGED <<th, current, cr3, kpage, frames, file, file_lock, next_tid>>

Wait(t) ==
  /\ At(t, "user") /\ t # main
  /\ \E tid \in 1..MaxTid : Only(t, [th[t] EXCEPT !.ctid = tid, !.pc = "wait"])

\* open(), and read() or write() on any descriptor, start with file_lock.
FileCall(t) ==
  /\ At(t, "user") /\ t # main
  /\ \E op \in {"open", "io"} :
       /\ op = "open" => Len(th[t].fd) < MaxFd
       /\ Only(t, [th[t] EXCEPT !.op = op, !.pc = "lock"])

Lock(t) ==
  /\ At(t, "lock") /\ file_lock = NULL
  /\ file_lock' = t
  /\ Goto(t, IF th[t].op = "open" THEN "open" ELSE "transfer")
  /\ UNCHANGED <<current, cr3, kpage, frames, file, next_tid, stopped>>

process_add_file(r, f) == [r EXCEPT !.fd = Append(@, f)]

Open(t) ==
  LET r == [th[t] EXCEPT !.op = NULL, !.pc = "user"]
  IN
  /\ At(t, "open")
  /\ \/ \E f \in File :
          /\ file[f] = NULL
          /\ file' = [file EXCEPT ![f] = th[t].tid]
          /\ Set(t, process_add_file(r, f))
     \/ Set(t, r) /\ UNCHANGED file
  /\ file_lock' = NULL
  /\ UNCHANGED <<current, cr3, kpage, frames, next_tid, stopped>>

\* Bug variant: the return for a bad descriptor forgets lock_release().
Transfer_NoRelease(t) ==
  /\ At(t, "transfer")
  /\ Only(t, [th[t] EXCEPT !.op = NULL, !.pc = "user"])

\* The data moved is not modelled.
Transfer(t) ==
  /\ At(t, "transfer")
  /\ Set(t, [th[t] EXCEPT !.op = NULL, !.pc = "user"])
  /\ file_lock' = NULL
  /\ UNCHANGED <<current, cr3, kpage, frames, file, next_tid, stopped>>

process_close_file(t, i) ==
  /\ file' = [f \in File |-> IF f = th[t].fd[i] THEN NULL ELSE file[f]]
  /\ Set(t, [th[t] EXCEPT !.fd[i] = NULL])

\* close() takes no lock.
Close(t) ==
  /\ At(t, "user") /\ t # main
  /\ \E i \in DOMAIN th[t].fd : process_close_file(t, i)
  /\ UNCHANGED <<current, cr3, kpage, frames, file_lock, next_tid, stopped>>

-----------------------------------------------------------------------------
UserStep(t) ==
  \/ Execute(t) \/ Terminate(t) \/ Fault(t) \/ KernelFault(t) \/ Halt(t)
  \/ Wait(t) \/ FileCall(t) \/ Close(t)

KernelStep(t) ==
  \/ Create(t) \/ FdTable(t) \/ Push(t) \/ FreeParams(t)
  \/ GetChild(t) \/ WaitSleep(t) \/ SemaDown(t) \/ LoadRead(t)
  \/ PagedirCreate(t) \/ OpenExe(t) \/ Header(t) \/ Segment(t)
  \/ SetupStack(t) \/ Install(t) \/ CloseExe(t) \/ LoadUp(t) \/ FreeOwn(t)
  \/ Exit(t) \/ Clear(t) \/ Deactivate(t) \/ Destroy(t) \/ Die(t)
  \/ Lock(t) \/ Open(t) \/ Transfer(t)

Next ==
  /\ stopped = "no"
  /\ \/ \E t \in Thread : UserStep(t) \/ KernelStep(t)
     \/ \E t \in Thread \cup {"idle"} : Switch(t)

Spec == Init /\ [][Next]_vars

\* Every runnable process is scheduled again and again (Synch: ReadyRuns),
\* and gets on with what it is doing in the kernel; user code need not.
Fairness ==
  \A t \in Thread :
    /\ SF_vars(stopped = "no" /\ Switch(t))
    /\ SF_vars(stopped = "no" /\ KernelStep(t))

FairSpec == Spec /\ Fairness

-----------------------------------------------------------------------------
(* Properties.                                                             *)

\* The CPU never runs on a page directory that has been freed, although the
\* timer may switch threads at any point of process_exit(): the directory in
\* CR3 is allocated, and it is the running thread's own, or about to be.
ActivePagedirLive ==
  cr3 # NULL => /\ kpage[cr3] # NULL /\ kpage[cr3].kind = "pagedir"
                /\ current # "idle"
                /\ cr3 \in {th[current].pagedir, th[current].pd}

\* Kernel pages the thread still has to free.
Owned(t) ==
  LET r == th[t]
      pds == {r.pagedir, r.pd} \ {NULL}
  IN  IF r = NULL THEN {}
      ELSE (pds \cup (UNION {Range(kpage[k].pt) : k \in pds})
                \cup {r.params, r.new, r.fd_table}) \ {NULL}

Mappings == {m \in KPage \X UPage :
               kpage[m[1]] # NULL /\ kpage[m[1]].map[m[2]] # NULL}

\* Whatever load() fails at, and however a process ends, every page it took
\* has one owner until it is freed, and nothing but the fd_table of a dead
\* process is left over: no frame is mapped twice or both mapped and free.
PagesAccounted ==
  /\ \A k \in KPage :
       LET owners == {t \in Thread : k \in Owned(t)}
       IN  IF kpage[k] = NULL THEN owners = {}
           ELSE \/ Cardinality(owners) = 1
                \/ owners = {} /\ kpage[k].kind = "fd_table"
  /\ \A f \in Frame :
       Cardinality({m \in Mappings : kpage[m[1]].map[m[2]] = f})
         + Cardinality({t \in Thread : th[t] # NULL /\ th[t].kpage = f})
       = IF f \in frames THEN 1 ELSE 0

\* exec() looks at load_succeeded only after the child has finished load().
ExecSeesLoad ==
  \A t \in Thread : th[t] # NULL /\ th[t].pc = "load_read" /\ ChildLive(t) =>
    th[th[t].child].pc \notin Loading \cup {"new"}

\* A descriptor leads to an open file of its own process, which no other
\* descriptor has, so that no struct file is closed or used after a close().
DescriptorsOpen ==
  \A t \in Thread : th[t] # NULL =>
    \A i \in DOMAIN th[t].fd : th[t].fd[i] # NULL =>
      /\ file[th[t].fd[i]] = th[t].tid
      /\ \A j \in DOMAIN th[t].fd : th[t].fd[j] = th[t].fd[i] => i = j

\* A process never ends, and never leaves the kernel, with file_lock held.
FileLockLive ==
  file_lock # NULL =>
    th[file_lock] # NULL /\ th[file_lock].pc \in {"open", "transfer"}

\* A parent asleep in exec() has a child that is still on its way to raise
\* load_sema: no way out of load() misses it, and no wake-up is lost.
LoadIsSignalled ==
  \A t \in Thread :
    th[t] # NULL /\ th[t].pc = "load_down" /\ Blocked(t) =>
      th[th[t].child].pc \in Loading

\* process_wait() waits for the child to die, and then returns.
WaitReturns ==
  \A t \in Thread :
    (th[t] # NULL /\ th[t].pc = "wait_asleep" /\ ~ChildLive(t)) ~>
      (stopped # "no" \/ th[t] = NULL \/ th[t].pc # "wait_asleep")

\* However a process begins and ends, and wherever the timer interrupts it,
\* pages are freed once and not before the CPU has left them.
AddressSpacesSound == TypeOK /\ ActivePagedirLive /\ PagesAccounted

\* exec() and the load() of its child: the parent looks when load() is done,
\* and it sleeps only while the child is still going to wake it.
LoadHandshake == ExecSeesLoad /\ LoadIsSignalled

\* A process has its own open files, and keeps no lock when it ends.
FilesSound == DescriptorsOpen /\ FileLockLive
=============================================================================
