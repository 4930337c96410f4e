---------------------------- MODULE ProcessSteps ----------------------------
(***************************************************************************)
(* The steps of Process that change one struct thread keep ProcInv: system *)
(* calls, load(), the file system calls, thread_get_child() and            *)
(* process_exit(), and the switch of threads.                              *)
(***************************************************************************)
EXTENDS ProcessInv

-----------------------------------------------------------------------------
(* Steps that change a label, and no more.                                 *)

\* load() has read the ELF header.
LEMMA HeaderStep ==
  ASSUME ProcInv, NEW t \in Thread, Header(t)
  PROVE  ProcInv'
<1>1. At(t, "header")  BY Zenon DEF Header
<1>2. PICK label \in {"segment", "close_exe"} : Only(t, [th[t] EXCEPT !.pc = label])
  BY Zenon DEF Header
<1>3. label \in Label /\ QuietMove("header", label)  BY DEF Label, Loading, QuietMove
<1> QED  BY <1>1, <1>2, <1>3, GotoStep, Zenon DEF Only, Goto

\* The program calls exit(), or is killed.
LEMMA EndSteps ==
  ASSUME ProcInv, NEW t \in Thread, Terminate(t) \/ Fault(t)
  PROVE  ProcInv'
<1>1. At(t, "user") /\ Only(t, [th[t] EXCEPT !.pc = "exit"])  BY Zenon DEF Terminate, Fault
<1>2. "exit" \in Label /\ QuietMove("user", "exit")  BY DEF Label, Exiting, QuietMove
<1> QED  BY <1>1, <1>2, GotoStep, Zenon DEF Only, Goto

\* The program calls wait().
LEMMA WaitStep ==
  ASSUME ProcInv, NEW t \in Thread, Wait(t)
  PROVE  ProcInv'
<1>1. /\ At(t, "user") /\ Alive(t) /\ th[t].pc = "user" /\ th[t] \in ThreadType
      /\ LocalOK(th[t])
  BY AtFacts, Zenon DEF Wait
<1>2. PICK tid \in 1..MaxTid : Only(t, [th[t] EXCEPT !.ctid = tid, !.pc = "wait"])
  BY Zenon DEF Wait
<1> DEFINE r == [th[t] EXCEPT !.ctid = tid, !.pc = "wait"]
<1>3. "wait" \in Label /\ QuietMove("user", "wait") /\ tid \in 0..MaxTid
  BY DEF Label, Calling, QuietMove
<1>4. r \in ThreadType  BY <1>1, <1>3, ZenonT(30) DEF ThreadType
<1>5. r.pc = "wait" /\ Like(r, th[t])  BY <1>1 DEF ThreadType, Like
<1> HIDE DEF LocalOK, r
<1> QED  BY <1>1, <1>2, <1>3, <1>4, <1>5, SetStep, Zenon DEF Only, r

\* A process_wait() goes to sleep.
LEMMA WaitSleepStep ==
  ASSUME ProcInv, NEW t \in Thread, WaitSleep(t)
  PROVE  ProcInv'
<1> DEFINE r == [th[t] EXCEPT !.pc = "wait_asleep"]
<1>1. /\ Alive(t) /\ th[t].pc = "wait_down" /\ th[t] \in ThreadType /\ LocalOK(th[t])
      /\ Set(t, r)
      /\ UNCHANGED <<current, cr3, kpage, frames, file, file_lock, next_tid, stopped>>
  BY AtFacts, Zenon DEF WaitSleep, Goto
<1>2. "wait_asleep" \in Label  BY DEF Label, Calling
<1>3. r \in ThreadType /\ r.pc = "wait_asleep" /\ Like(r, th[t]) /\ r.child = th[t].child
  <2>1. r.child = th[t].child  BY <1>1 DEF ThreadType
  <2> QED  BY <1>1, <1>2, <2>1, GotoType, SMTT(30)
<1> HIDE DEF r
<1>4. LocalOK(r)
  BY <1>1, <1>3 DEF LocalOK, Like, Loading, HasExe, Calls, Creating, Installing
<1>5. Calm(th[t].pc, r.pc)  BY <1>1, <1>3 DEF Calm, Execing, Creating, Loading
<1> HIDE DEF LocalOK
<1>6. /\ Moves(t, r) /\ SamePagesAs(r, th[t]) /\ r.kpage = th[t].kpage
      /\ r.exe = th[t].exe /\ r.fd = th[t].fd /\ r.pagedir = th[t].pagedir
  BY <1>1, <1>3, <1>4, <1>5, Zenon DEF Like, Moves, SamePagesAs
<1>7. /\ th' \in [Thread -> Ptr(ThreadType)] /\ LocalInv' /\ TidInv' /\ ExecInv'
      /\ LoadInv' /\ LockInv' /\ CpuInv' /\ FileInv' /\ PageInv' /\ FrameInv'
  BY <1>1, <1>3, <1>6, MoveStep, Zenon
<1> QED  BY <1>1, <1>7, Zenon DEF ProcInv, TypeOK

\* The program calls open(), read() or write().
LEMMA FileCallStep ==
  ASSUME ProcInv, NEW t \in Thread, FileCall(t)
  PROVE  ProcInv'
<1>1. /\ At(t, "user") /\ Alive(t) /\ th[t].pc = "user" /\ th[t] \in ThreadType
      /\ LocalOK(th[t])
  BY AtFacts, Zenon DEF FileCall
<1>2. PICK op \in {"open", "io"} : Only(t, [th[t] EXCEPT !.op = op, !.pc = "lock"])
  BY Zenon DEF FileCall
<1> DEFINE r == [th[t] EXCEPT !.op = op, !.pc = "lock"]
<1>3. "lock" \in Label /\ QuietMove("user", "lock") /\ op \in Ptr({"open", "io"})
  BY DEF Label, Calling, QuietMove, Ptr
<1>4. r \in ThreadType  BY <1>1, <1>3, ZenonT(30) DEF ThreadType
<1>5. r.pc = "lock" /\ Like(r, th[t])  BY <1>1 DEF ThreadType, Like
<1> HIDE DEF LocalOK, r
<1> QED  BY <1>1, <1>2, <1>3, <1>4, <1>5, SetStep, Zenon DEF Only, r

\* Only stopped changes, or the thread that runs.
LEMMA SameThreads ==
  ASSUME ProcInv, UNCHANGED <<th, kpage, frames, file, file_lock, next_tid>>
  PROVE  /\ LocalInv' /\ TidInv' /\ ExecInv' /\ LoadInv' /\ LockInv' /\ FileInv'
         /\ PageInv' /\ FrameInv'
<1>0. /\ TypeOK /\ LocalInv /\ TidInv /\ ExecInv /\ LoadInv /\ LockInv /\ FileInv
      /\ PageInv /\ FrameInv
  BY Zenon DEF ProcInv
<1>1. LocalInv' /\ TidInv'  BY <1>0 DEF LocalInv, LocalOK, TidInv, Alive
<1>2. ExecInv' /\ LoadInv'  BY <1>0 DEF ExecInv, LoadInv, Alive
<1>3. LockInv'  BY <1>0 DEF LockInv, FileLockLive, Alive
<1>4. FileInv'  BY <1>0 DEF FileInv, Alive
<1>5. \A u \in Thread : SameRoles(u)  BY Zenon DEF SameRoles, Alive, Dir
<1>6. PageInv'  BY <1>0, <1>5, PageKeeps, Zenon
<1>7. FrameInv'  BY <1>0, FrameKeeps, Zenon DEF SameMaps, SameFills, Maps, Fills, Alive
<1> QED  BY <1>1, <1>2, <1>3, <1>4, <1>6, <1>7, Zenon

\* The machine stops.
LEMMA StopStep ==
  ASSUME ProcInv, stopped' \in {"no", "halt", "wild"},
         UNCHANGED <<th, current, cr3, kpage, frames, file, file_lock, next_tid>>
  PROVE  ProcInv'
<1>1. TypeOK /\ CpuInv  BY Zenon DEF ProcInv
<1>2. TypeOK'  BY <1>1, Zenon DEF TypeOK
<1>3. CpuInv'  BY <1>1 DEF CpuInv, Alive
<1> QED  BY <1>2, <1>3, SameThreads, Zenon DEF ProcInv

\* schedule() to another thread, or to the idle thread.
LEMMA SwitchStep ==
  ASSUME ProcInv, NEW n \in Thread \cup {"idle"}, Switch(n)
  PROVE  ProcInv'
<1>1. /\ n = "idle" \/ n \in Ready
      /\ current' = n /\ cr3' = IF n = "idle" THEN NULL ELSE th[n].pagedir
      /\ UNCHANGED <<th, kpage, frames, file, file_lock, next_tid, stopped>>
  BY Zenon DEF Switch, next_thread_to_run, process_activate, pagedir_activate
<1>2. n # "idle" => n \in Thread /\ Alive(n) /\ th[n].pc # "new"
  BY <1>1, Zenon DEF Ready, Alive
<1>3. TypeOK  BY Zenon DEF ProcInv
<1>4. cr3' \in Ptr(KPage)  BY <1>1, <1>2, <1>3, RoleTypes, Zenon DEF Ptr
<1>5. TypeOK'  BY <1>1, <1>3, <1>4, Zenon DEF TypeOK
<1>6. CpuInv'  BY <1>1, <1>2, Zenon DEF CpuInv, Alive
<1> QED  BY <1>1, <1>5, <1>6, SameThreads, Zenon DEF ProcInv

\* halt(), and a page fault in the kernel.
LEMMA HaltSteps ==
  ASSUME ProcInv, NEW t \in Thread, Halt(t) \/ KernelFault(t)
  PROVE  ProcInv'
  BY StopStep, Zenon DEF Halt, KernelFault, wild

-----------------------------------------------------------------------------
(* Pages.                                                                  *)

\* r and s have the same but for the label, the arguments and the directory.
Rest(r, s) ==
  /\ r.fd_table = s.fd_table /\ r.pd = s.pd /\ r.kpage = s.kpage
  /\ r.exe = s.exe /\ r.fd = s.fd

\* Thread t gets a page, for the arguments of exec() or for its directory.
LEMMA AllocStep ==
  ASSUME ProcInv, NEW t \in Thread, NEW r, Moves(t, r), Rest(r, th[t]),
         r.params = th[t].params, NEW k \in KPage, NEW kind \in {"params", "pagedir"},
         get_kpage(k, kind),
         \/ /\ kind = "params" /\ th[t].new = NULL /\ r.new = k
            /\ r.pagedir = th[t].pagedir /\ cr3' = cr3
         \/ /\ kind = "pagedir" /\ Dir(t) = NULL /\ r.pagedir = k
            /\ r.new = th[t].new /\ current = t /\ cr3' = k,
         UNCHANGED <<current, frames, file, file_lock, next_tid, stopped>>
  PROVE  ProcInv'
<1>1. /\ TypeOK /\ PageInv /\ FrameInv /\ Alive(t) /\ r.pc # "new" /\ t # "idle"
      /\ kind \in {"params", "fd_table", "pagedir", "pt"}
      /\ r.fd_table = th[t].fd_table /\ r.pd = th[t].pd /\ r.kpage = th[t].kpage
      /\ r.exe = th[t].exe /\ r.fd = th[t].fd
  BY NullIsNone, Zenon DEF ProcInv, Moves, Calm, Rest
<1>2. /\ kpage[k] = NULL /\ k # NULL /\ k \in Ptr(KPage)
      /\ kpage' = [kpage EXCEPT ![k] = zeroed(kind)]
      /\ kpage' \in [KPage -> Ptr(Content)]
  BY <1>1, AllocFacts, Zenon
<1>3. /\ th' \in [Thread -> Ptr(ThreadType)] /\ OneThread(t) /\ th'[t] = r
      /\ LocalInv' /\ TidInv' /\ ExecInv' /\ LoadInv' /\ LockInv' /\ FileInv'
      /\ UNCHANGED <<current, cr3>> /\ r.pagedir = th[t].pagedir => CpuInv'
  BY <1>1, MoveStep, Zenon
<1>4. /\ OthersKeep(t)
      /\ SameFills
      /\ Alive(t)'
  BY <1>1, <1>3, OthersSame, Zenon DEF OneThread
<1>5. TypeOK'
  BY <1>1, <1>2, <1>3, Zenon DEF TypeOK
<1>6. CpuInv'
  BY <1>1, <1>3, <1>4, Zenon DEF CpuInv, Alive
<1>7. /\ PageInv'
      /\ SameMaps
  BY <1>1, <1>2, <1>3, <1>4, PageAlloc, Zenon
<1>8. FrameInv'  BY <1>1, <1>4, <1>7, FrameKeeps, Zenon
<1> QED  BY <1>3, <1>5, <1>6, <1>7, <1>8, Zenon DEF ProcInv

\* Thread t frees the page of the arguments.
LEMMA FreeStep ==
  ASSUME ProcInv, NEW t \in Thread, NEW r, Moves(t, r), Rest(r, th[t]),
         r.pagedir = th[t].pagedir, r.params = NULL, r.new = NULL, NEW k, k # NULL,
         \/ k = th[t].params /\ th[t].new = NULL
         \/ k = th[t].new /\ th[t].params = NULL,
         free_kpage(k),
         UNCHANGED <<current, cr3, frames, file, file_lock, next_tid, stopped>>
  PROVE  ProcInv'
<1>1. /\ TypeOK /\ PageInv /\ FrameInv /\ Alive(t)
      /\ r.fd_table = th[t].fd_table /\ r.pd = th[t].pd /\ r.kpage = th[t].kpage
      /\ r.exe = th[t].exe /\ r.fd = th[t].fd
      /\ kpage' = [kpage EXCEPT ![k] = NULL]
  BY Zenon DEF ProcInv, Moves, Rest, free_kpage
<1>2. k \in KPage /\ kpage \in [KPage -> Ptr(Content)] /\ NULL \in Ptr(Content)
  BY <1>1, RoleTypes, Zenon DEF Ptr, TypeOK
<1>3. /\ th' \in [Thread -> Ptr(ThreadType)] /\ OneThread(t) /\ th'[t] = r
      /\ LocalInv' /\ TidInv' /\ ExecInv' /\ LoadInv' /\ LockInv' /\ FileInv' /\ CpuInv'
  BY <1>1, MoveStep, Zenon
<1>4. /\ OthersKeep(t)
      /\ SameFills
      /\ Alive(t)'
  BY <1>1, <1>3, OthersSame, Zenon DEF OneThread
<1>5. kpage' \in [KPage -> Ptr(Content)]  BY <1>1, <1>2, Zenon
<1>6. TypeOK'  BY <1>1, <1>3, <1>5, Zenon DEF TypeOK
<1>7. /\ PageInv'
      /\ SameMaps
  BY <1>1, <1>2, <1>3, <1>4, PageFree, Zenon
<1>8. FrameInv'  BY <1>1, <1>4, <1>7, FrameKeeps, Zenon
<1> QED  BY <1>3, <1>6, <1>7, <1>8, Zenon DEF ProcInv

\* exec(): the copy of the command line, or no page for it.
LEMMA ExecuteStep ==
  ASSUME ProcInv, NEW t \in Thread, Execute(t)
  PROVE  ProcInv'
<1>1. /\ Alive(t) /\ th[t].pc = "user" /\ th[t] \in ThreadType /\ LocalOK(th[t])
      /\ UNCHANGED <<current, cr3, frames, file, file_lock, next_tid, stopped>>
  BY AtFacts, Zenon DEF Execute
<1>2. ASSUME NEW k \in KPage, get_kpage(k, "params"),
             Set(t, [th[t] EXCEPT !.new = k, !.pc = "create"])
      PROVE  ProcInv'
  <2> DEFINE r == [th[t] EXCEPT !.new = k, !.pc = "create"]
  <2>1. "create" \in Label /\ k \in Ptr(KPage) /\ k # NULL
    BY NullIsNone DEF Label, Calling, Ptr
  <2>2. r \in ThreadType /\ Set(t, r)  BY <1>1, <1>2, <2>1, Zenon DEF ThreadType
  <2>3. r = [th[t] EXCEPT !.new = k, !.pc = "create"]  OBVIOUS
  <2> HIDE DEF r
  <2>4. /\ r.pc = "create" /\ r.new = k /\ r.params = th[t].params
        /\ r.pagedir = th[t].pagedir /\ Rest(r, th[t])
        /\ r.tid = th[t].tid /\ r.upage = th[t].upage
        /\ r.load_sema = th[t].load_sema /\ r.wait_sema = th[t].wait_sema
    BY <1>1, <2>3 DEF ThreadType, Rest
  <2>5. th[t].new = NULL /\ LocalOK(r) /\ Calm(th[t].pc, r.pc)
    BY <1>1, <2>1, <2>4
    DEF LocalOK, Calm, Rest, Execing, Loading, HasExe, Calls, Creating, Installing
  <2> HIDE DEF LocalOK
  <2> QED  BY <1>1, <1>2, <2>2, <2>4, <2>5, AllocStep, Zenon DEF Moves
<1>3. ASSUME Set(t, [th[t] EXCEPT !.ctid = TID_ERROR, !.pc = failed(t)]), kpage' = kpage
      PROVE  ProcInv'
  <2> DEFINE q == failed(t)
             r == [th[t] EXCEPT !.ctid = TID_ERROR, !.pc = q]
  <2>1. q \in Label /\ QuietMove("user", q) /\ TID_ERROR \in 0..MaxTid
    BY ProcessAssumption DEF failed, Label, Calling, QuietMove, TID_ERROR
  <2>2. Set(t, r)  BY <1>3, Zenon
  <2> HIDE DEF q
  <2>3. r \in ThreadType  BY <1>1, <2>1, Zenon DEF ThreadType
  <2>4. r.pc = q /\ Like(r, th[t])  BY <1>1 DEF ThreadType, Like
  <2> HIDE DEF r, LocalOK
  <2> QED  BY <1>1, <1>3, <2>1, <2>2, <2>3, <2>4, SetStep, Zenon
<1> QED  BY <1>2, <1>3, Zenon DEF Execute

\* process_execute() after a thread_create() that failed.
LEMMA FreeParamsStep ==
  ASSUME ProcInv, NEW t \in Thread, FreeParams(t)
  PROVE  ProcInv'
<1>1. /\ Alive(t) /\ th[t].pc = "free_params" /\ th[t] \in ThreadType /\ LocalOK(th[t])
      /\ free_kpage(th[t].new)
      /\ UNCHANGED <<current, cr3, frames, file, file_lock, next_tid, stopped>>
  BY AtFacts, Zenon DEF FreeParams
<1> DEFINE q == failed(t)
           r == [th[t] EXCEPT !.new = NULL, !.child = NULL, !.ctid = TID_ERROR, !.pc = q]
<1>2. Set(t, r)  BY Zenon DEF FreeParams
<1>3. /\ q \in {"wait", "user"} /\ q \in Label /\ TID_ERROR \in 0..MaxTid
      /\ NULL \in Ptr(KPage) /\ NULL \in Ptr(Thread)
  BY ProcessAssumption DEF failed, TID_ERROR, Label, Calling, Ptr
<1> HIDE DEF q
<1>4. r \in ThreadType  BY <1>1, <1>3, Zenon DEF ThreadType
<1>5. /\ r.pc = q /\ r.new = NULL /\ r.params = th[t].params
      /\ r.pagedir = th[t].pagedir /\ Rest(r, th[t])
      /\ r.tid = th[t].tid /\ r.upage = th[t].upage
      /\ r.load_sema = th[t].load_sema /\ r.wait_sema = th[t].wait_sema
  BY <1>1 DEF ThreadType, Rest
<1> HIDE DEF r
<1>6. /\ th[t].new # NULL /\ th[t].params = NULL /\ LocalOK(r) /\ Calm(th[t].pc, r.pc)
  BY <1>1, <1>3, <1>5
  DEF LocalOK, Calm, Rest, Execing, Loading, HasExe, Calls, Creating, Installing
<1> HIDE DEF LocalOK
<1> QED  BY <1>1, <1>2, <1>4, <1>5, <1>6, FreeStep, Zenon DEF Moves

\* start_process() frees the arguments.
LEMMA FreeOwnStep ==
  ASSUME ProcInv, NEW t \in Thread, FreeOwn(t)
  PROVE  ProcInv'
<1>1. /\ Alive(t) /\ th[t].pc = "free_own" /\ th[t] \in ThreadType /\ LocalOK(th[t])
      /\ free_kpage(th[t].params)
      /\ UNCHANGED <<current, cr3, frames, file, file_lock, next_tid, stopped>>
  BY AtFacts, Zenon DEF FreeOwn
<1> DEFINE q == IF th[t].success THEN "user" ELSE "exit"
           r == [th[t] EXCEPT !.params = NULL, !.pc = q]
<1>2. Set(t, r)  BY Zenon DEF FreeOwn
<1>3. q \in {"exit", "user"} /\ q \in Label /\ NULL \in Ptr(KPage)
  BY DEF Label, Exiting, Ptr
<1> HIDE DEF q
<1>4. r \in ThreadType  BY <1>1, <1>3, Zenon DEF ThreadType
<1>5. /\ r.pc = q /\ r.params = NULL /\ r.new = th[t].new
      /\ r.pagedir = th[t].pagedir /\ Rest(r, th[t])
      /\ r.tid = th[t].tid /\ r.upage = th[t].upage
      /\ r.load_sema = th[t].load_sema /\ r.wait_sema = th[t].wait_sema
  BY <1>1 DEF ThreadType, Rest
<1> HIDE DEF r
<1>6. /\ th[t].params # NULL /\ th[t].new = NULL /\ LocalOK(r) /\ Calm(th[t].pc, r.pc)
  BY <1>1, <1>3, <1>5
  DEF LocalOK, Calm, Rest, Execing, Loading, HasExe, Calls, Creating, Installing
<1> HIDE DEF LocalOK
<1> QED  BY <1>1, <1>2, <1>4, <1>5, <1>6, FreeStep, Zenon DEF Moves

\* pagedir_create(), or no page for it.
LEMMA PagedirCreateStep ==
  ASSUME ProcInv, NEW t \in Thread, PagedirCreate(t)
  PROVE  ProcInv'
<1>1. /\ Alive(t) /\ current = t /\ th[t].pc = "pagedir" /\ th[t] \in ThreadType
      /\ LocalOK(th[t]) /\ At(t, "pagedir")
      /\ UNCHANGED <<current, frames, file, file_lock, next_tid, stopped>>
  BY AtFacts, Zenon DEF PagedirCreate
<1>2. ASSUME NEW k \in KPage, get_kpage(k, "pagedir"), cr3' = k,
             Set(t, [th[t] EXCEPT !.pagedir = k, !.pc = "open_exe"])
      PROVE  ProcInv'
  <2> DEFINE r == [th[t] EXCEPT !.pagedir = k, !.pc = "open_exe"]
  <2>1. "open_exe" \in Label /\ k \in Ptr(KPage) /\ k # NULL
    BY NullIsNone DEF Label, Loading, Ptr
  <2>2. r \in ThreadType /\ Set(t, r)  BY <1>1, <1>2, <2>1, Zenon DEF ThreadType
  <2>3. r = [th[t] EXCEPT !.pagedir = k, !.pc = "open_exe"]  OBVIOUS
  <2> HIDE DEF r
  <2>4. /\ r.pc = "open_exe" /\ r.pagedir = k /\ r.params = th[t].params
        /\ r.new = th[t].new /\ Rest(r, th[t])
        /\ r.tid = th[t].tid /\ r.upage = th[t].upage
        /\ r.load_sema = th[t].load_sema /\ r.wait_sema = th[t].wait_sema
    BY <1>1, <2>3 DEF ThreadType, Rest
  <2>5. Dir(t) = NULL /\ LocalOK(r) /\ Calm(th[t].pc, r.pc)
    BY <1>1, <2>1, <2>4
    DEF LocalOK, Calm, Rest, Dir, Execing, Loading, HasExe, Calls, Creating, Installing
  <2> HIDE DEF LocalOK
  <2> QED  BY <1>1, <1>2, <2>2, <2>4, <2>5, AllocStep, Zenon DEF Moves
<1>3. ASSUME Goto(t, "close_exe"), UNCHANGED <<cr3, kpage>>
      PROVE  ProcInv'
  <2>1. "close_exe" \in Label /\ QuietMove("pagedir", "close_exe")
    BY DEF Label, Loading, QuietMove
  <2> QED  BY <1>1, <1>3, <2>1, GotoStep, Zenon
<1> QED  BY <1>2, <1>3, Zenon DEF PagedirCreate, pagedir_create, pagedir_activate

-----------------------------------------------------------------------------
(* Files.                                                                  *)

\* What the files of a thread are.
LEMMA FileTypes ==
  ASSUME TypeOK, NEW t \in Thread, Alive(t)
  PROVE  /\ th[t].exe \in Ptr(File) /\ th[t].fd \in Seq(Ptr(File))
         /\ th[t].tid \in 1..MaxTid /\ th[t].tid # NULL
<1>1. th[t] \in ThreadType  BY AliveType
<1>2. th[t].exe \in Ptr(File) /\ th[t].fd \in Seq(Ptr(File)) /\ th[t].tid \in 1..MaxTid
  BY <1>1 DEF ThreadType
<1>3. 1..MaxTid \subseteq Nat  BY ProcessAssumption
<1> QED  BY <1>2, <1>3, NullIsNone, Zenon

\* process_add_file() leaves the earlier descriptors as they were.
LEMMA Appended ==
  ASSUME NEW S, NEW s \in Seq(S), NEW e \in S
  PROVE  \A i \in DOMAIN Append(s, e) :
           \/ i \in DOMAIN s /\ Append(s, e)[i] = s[i]
           \/ i = Len(s) + 1 /\ Append(s, e)[i] = e
  OBVIOUS

\* Thread t opens the file f.
LEMMA FileOpen ==
  ASSUME FileInv, TypeOK, NEW t \in Thread, OneThread(t), NEW f \in File, file[f] = NULL,
         file' = [file EXCEPT ![f] = th[t].tid],
         \/ th'[t].exe = f /\ th'[t].fd = th[t].fd
         \/ th'[t].exe = th[t].exe /\ th'[t].fd = Append(th[t].fd, f)
  PROVE  FileInv'
<1> SUFFICES ASSUME NEW u \in Thread, Alive(u)'
             PROVE  /\ th'[u].exe # NULL => file'[th'[u].exe] = th'[u].tid
                    /\ \A i \in DOMAIN th'[u].fd : th'[u].fd[i] # NULL =>
                         /\ file'[th'[u].fd[i]] = th'[u].tid
                         /\ \A j \in DOMAIN th'[u].fd : th'[u].fd[j] = th'[u].fd[i] => i = j
  BY Zenon DEF FileInv
<1>1. Alive(u) /\ th'[u].tid = th[u].tid /\ (u # t => th'[u] = th[u])
  BY Zenon DEF OneThread, Alive
<1>2. /\ th[u].exe \in Ptr(File) /\ th[u].fd \in Seq(Ptr(File)) /\ th[u].tid # NULL
      /\ f # NULL /\ f \in Ptr(File) /\ file \in [File -> Ptr(1..MaxTid)]
  BY <1>1, FileTypes, NullIsNone, ZenonT(30) DEF TypeOK, Ptr
<1>3. /\ th[u].exe # NULL => file[th[u].exe] = th[u].tid /\ th[u].exe \in File
      /\ \A i \in DOMAIN th[u].fd : th[u].fd[i] # NULL =>
           /\ file[th[u].fd[i]] = th[u].tid
           /\ th[u].fd[i] \in File
           /\ \A j \in DOMAIN th[u].fd : th[u].fd[j] = th[u].fd[i] => i = j
  BY <1>1, <1>2 DEF FileInv, Ptr
<1>4. file'[f] = th[t].tid /\ \A h \in File : h # f => file'[h] = file[h]
  BY <1>2, Zenon
<1>5. /\ th[u].exe # NULL => file'[th[u].exe] = th[u].tid
      /\ \A i \in DOMAIN th[u].fd : th[u].fd[i] # NULL =>
           file'[th[u].fd[i]] = th[u].tid /\ th[u].fd[i] # f
  BY <1>2, <1>3, <1>4, ZenonT(30)
<1>6. th'[u].exe # NULL => file'[th'[u].exe] = th'[u].tid
  BY <1>1, <1>4, <1>5, Zenon
<1> DEFINE FdOK == \A i \in DOMAIN th'[u].fd : th'[u].fd[i] # NULL =>
                     /\ file'[th'[u].fd[i]] = th'[u].tid
                     /\ \A j \in DOMAIN th'[u].fd : th'[u].fd[j] = th'[u].fd[i] => i = j
<1>7. CASE th'[u].fd = th[u].fd
  <2>1. FdOK  BY <1>1, <1>3, <1>5, <1>7
  <2> QED  BY <1>6, <2>1, ZenonT(30)
<1>8. CASE u = t /\ th'[t].fd = Append(th[t].fd, f)
  <2>1. th'[u].fd = Append(th[u].fd, f) /\ file'[f] = th'[u].tid
    BY <1>1, <1>4, <1>8, ZenonT(30)
  <2>2. \A i \in DOMAIN th'[u].fd :
          \/ i \in DOMAIN th[u].fd /\ th'[u].fd[i] = th[u].fd[i]
          \/ i = Len(th[u].fd) + 1 /\ th'[u].fd[i] = f
    BY <1>2, <2>1, Appended, SMTT(30)
  <2>3. FdOK  BY <1>1, <1>3, <1>5, <2>1, <2>2, SMTT(30)
  <2> QED  BY <1>6, <2>3, Zenon
<1> QED  BY <1>1, <1>7, <1>8, Zenon

\* Thread t gives up what it has in g, if anything.
Closes(t, g) ==
  \/ /\ g = th[t].exe /\ th'[t].exe = NULL
     /\ th[t].fd = <<>> /\ th'[t].fd = <<>>
  \/ /\ th[t].exe = NULL /\ th'[t].exe = NULL
     /\ \E i \in DOMAIN th[t].fd :
          g = th[t].fd[i] /\ th'[t].fd = [th[t].fd EXCEPT ![i] = NULL]

\* It keeps FileInv.
LEMMA FileClose ==
  ASSUME FileInv, TypeOK, TidInv, NEW t \in Thread, OneThread(t), NEW g,
         file' = [f \in File |-> IF f = g THEN NULL ELSE file[f]],
         Closes(t, g)
  PROVE  FileInv'
<1> USE DEF Closes
<1> SUFFICES ASSUME NEW u \in Thread, Alive(u)'
             PROVE  /\ th'[u].exe # NULL => file'[th'[u].exe] = th'[u].tid
                    /\ \A i \in DOMAIN th'[u].fd : th'[u].fd[i] # NULL =>
                         /\ file'[th'[u].fd[i]] = th'[u].tid
                         /\ \A j \in DOMAIN th'[u].fd : th'[u].fd[j] = th'[u].fd[i] => i = j
  BY Zenon DEF FileInv
<1>1. /\ Alive(u) /\ th'[u].tid = th[u].tid /\ (u # t => th'[u] = th[u]) /\ Alive(t)
      /\ th[u].tid = th[t].tid => u = t
  BY Zenon DEF OneThread, Alive, TidInv
<1>2. /\ th[u].exe \in Ptr(File) /\ th[u].fd \in Seq(Ptr(File)) /\ th[u].tid # NULL
      /\ th[t].exe \in Ptr(File) /\ th[t].fd \in Seq(Ptr(File))
  BY <1>1, FileTypes, Zenon
<1>3. /\ th[u].exe # NULL => file[th[u].exe] = th[u].tid /\ th[u].exe \in File
      /\ \A i \in DOMAIN th[u].fd : th[u].fd[i] # NULL =>
           /\ file[th[u].fd[i]] = th[u].tid
           /\ th[u].fd[i] \in File
           /\ \A j \in DOMAIN th[u].fd : th[u].fd[j] = th[u].fd[i] => i = j
  BY <1>1, <1>2 DEF FileInv, Ptr
<1>4. g # NULL => file[g] = th[t].tid
  <2>1. /\ th[t].exe # NULL => file[th[t].exe] = th[t].tid
        /\ \A i \in DOMAIN th[t].fd : th[t].fd[i] # NULL => file[th[t].fd[i]] = th[t].tid
    BY <1>1 DEF FileInv
  <2>2. g = th[t].exe \/ \E i \in DOMAIN th[t].fd : g = th[t].fd[i]
    <3> HIDE DEF Closes
    <3> QED  BY Zenon DEF Closes
  <2> HIDE DEF Closes
  <2>3. CASE g = th[t].exe  BY <2>1, <2>3
  <2>4. ASSUME NEW i \in DOMAIN th[t].fd, g = th[t].fd[i]
        PROVE  g # NULL => file[g] = th[t].tid
    BY <2>1, <2>4
  <2> QED  BY <2>2, <2>3, <2>4
<1>5. \A h \in File : h # g => file'[h] = file[h]  BY ZenonT(30)
<1>6. CASE u # t
  <2>1. \A h \in File : h # NULL /\ file[h] = th[u].tid => file'[h] = th[u].tid
    BY <1>1, <1>4, <1>5, <1>6, Zenon
  <2>2. th'[u] = th[u] /\ \A h \in File : h # NULL
    BY <1>1, <1>6, NullIsNone, Zenon
  <2>3. th'[u].exe # NULL => file'[th'[u].exe] = th'[u].tid
    BY <1>3, <2>1, <2>2, ZenonT(30)
  <2>4. \A i \in DOMAIN th[u].fd : th[u].fd[i] # NULL => file'[th[u].fd[i]] = th[u].tid
    BY <1>3, <2>1, <2>2
  <2> QED  BY <1>3, <2>2, <2>3, <2>4
<1>7. CASE u = t /\ th'[t].exe = NULL /\ th'[t].fd = <<>>
  BY <1>7
<1>8. ASSUME u = t, th'[t].exe = NULL, NEW i \in DOMAIN th[t].fd, g = th[t].fd[i],
             th'[t].fd = [th[t].fd EXCEPT ![i] = NULL]
      PROVE  \A m \in DOMAIN th'[u].fd : th'[u].fd[m] # NULL =>
               /\ file'[th'[u].fd[m]] = th'[u].tid
               /\ \A j \in DOMAIN th'[u].fd : th'[u].fd[j] = th'[u].fd[m] => m = j
  <2>1. /\ DOMAIN th'[u].fd = DOMAIN th[u].fd /\ i \in DOMAIN th[u].fd
        /\ \A m \in DOMAIN th[u].fd : th'[u].fd[m] = IF m = i THEN NULL ELSE th[u].fd[m]
    BY <1>2, <1>8
  <2> QED  BY <1>1, <1>3, <1>5, <1>8, <2>1, SMTT(30)
<1> QED  BY <1>6, <1>7, <1>8, Zenon

\* load() opens the executable, or does not find it.
LEMMA OpenExeStep ==
  ASSUME ProcInv, NEW t \in Thread, OpenExe(t)
  PROVE  ProcInv'
<1>1. /\ Alive(t) /\ th[t].pc = "open_exe" /\ th[t] \in ThreadType
      /\ LocalOK(th[t]) /\ At(t, "open_exe") /\ TypeOK /\ FileInv
      /\ UNCHANGED <<current, cr3, kpage, frames, file_lock, next_tid, stopped>>
  BY AtFacts, Zenon DEF OpenExe, ProcInv
<1>2. ASSUME NEW f \in File, file[f] = NULL, file' = [file EXCEPT ![f] = th[t].tid],
             Set(t, [th[t] EXCEPT !.exe = f, !.pc = "header"])
      PROVE  ProcInv'
  <2> DEFINE r == [th[t] EXCEPT !.exe = f, !.pc = "header"]
  <2>1. "header" \in Label /\ f \in Ptr(File)  BY DEF Label, Loading, Ptr
  <2>2. r \in ThreadType /\ Set(t, r)  BY <1>1, <1>2, <2>1, Zenon DEF ThreadType
  <2>3. r = [th[t] EXCEPT !.exe = f, !.pc = "header"]  OBVIOUS
  <2> HIDE DEF r
  <2>4. /\ r.pc = "header" /\ r.exe = f /\ r.fd = th[t].fd /\ SamePagesAs(r, th[t])
        /\ r.kpage = th[t].kpage /\ r.pagedir = th[t].pagedir
        /\ r.tid = th[t].tid /\ r.upage = th[t].upage
        /\ r.load_sema = th[t].load_sema /\ r.wait_sema = th[t].wait_sema
    BY <1>1, <2>3 DEF ThreadType, SamePagesAs
  <2>5. LocalOK(r) /\ Calm(th[t].pc, r.pc)
    BY <1>1, <2>4
    DEF LocalOK, Calm, SamePagesAs, Execing, Loading, HasExe, Calls, Creating, Installing
  <2> HIDE DEF LocalOK
  <2>6. Moves(t, r)  BY <1>1, <2>2, <2>4, <2>5, Zenon DEF Moves
  <2>7. /\ th' \in [Thread -> Ptr(ThreadType)] /\ OneThread(t) /\ th'[t] = r
        /\ LocalInv' /\ TidInv' /\ ExecInv' /\ LoadInv' /\ LockInv' /\ CpuInv'
        /\ PageInv' /\ FrameInv'
    BY <1>1, <2>4, <2>6, MoveStep, Zenon
  <2>8. FileInv'  BY <1>1, <1>2, <2>4, <2>7, FileOpen, Zenon
  <2>9. file' \in [File -> Ptr(1..MaxTid)]
    BY <1>1, <1>2, FileTypes, Zenon DEF TypeOK, Ptr
  <2> QED  BY <1>1, <2>7, <2>8, <2>9, Zenon DEF ProcInv, TypeOK
<1>3. ASSUME Goto(t, "close_exe"), file' = file
      PROVE  ProcInv'
  <2>1. "close_exe" \in Label /\ QuietMove("open_exe", "close_exe")
    BY DEF Label, Loading, QuietMove
  <2> QED  BY <1>1, <1>3, <2>1, GotoStep, Zenon
<1> QED  BY <1>2, <1>3, Zenon DEF OpenExe

-----------------------------------------------------------------------------
(* load(): the frames of the program.                                      *)

\* virtualmemory_frame_allocate() for the page up.
LEMMA TakeStep ==
  ASSUME ProcInv, NEW t \in Thread, NEW from, NEW label, At(t, from),
         <<from, label>> \in {<<"segment", "install">>, <<"stack", "install_stack">>},
         NEW up \in UPage, get_frame(t, up, label),
         UNCHANGED <<current, cr3, kpage, file, file_lock, next_tid, stopped>>
  PROVE  ProcInv'
<1>0. PICK f \in Lowest(FreeFrame) :
        /\ frames' = frames \cup {f}
        /\ Set(t, [th[t] EXCEPT !.kpage = f, !.upage = up, !.pc = label])
  BY Zenon DEF get_frame
<1> DEFINE r == [th[t] EXCEPT !.kpage = f, !.upage = up, !.pc = label]
<1>1. /\ Alive(t) /\ th[t].pc = from /\ th[t] \in ThreadType /\ LocalOK(th[t])
      /\ TypeOK /\ FrameInv /\ Set(t, r) /\ frames' = frames \cup {f}
  BY <1>0, AtFacts, Zenon DEF ProcInv
<1>2. f \in Frame /\ f \notin frames  BY FreePages, Zenon
<1>3. f \in Ptr(Frame) /\ up \in Ptr(UPage) /\ f # NULL  BY <1>2, NullIsNone, Zenon DEF Ptr
<1>4. label \in Label  BY DEF Label, Loading
<1>5. r \in ThreadType  BY <1>1, <1>3, <1>4, ZenonT(30) DEF ThreadType
<1>6. /\ r.pc = label /\ r.kpage = f /\ r.upage = up /\ SamePagesAs(r, th[t])
      /\ r.pagedir = th[t].pagedir /\ r.exe = th[t].exe /\ r.fd = th[t].fd
      /\ r.tid = th[t].tid
      /\ r.load_sema = th[t].load_sema /\ r.wait_sema = th[t].wait_sema
  BY <1>1 DEF ThreadType, SamePagesAs
<1> HIDE DEF r
<1>7. th[t].kpage = NULL /\ LocalOK(r) /\ Calm(th[t].pc, r.pc)
  BY <1>1, <1>3, <1>6
  DEF LocalOK, Calm, SamePagesAs, Execing, Loading, HasExe, Calls, Creating, Installing
<1> HIDE DEF LocalOK
<1>8. Moves(t, r)  BY <1>1, <1>5, <1>6, <1>7, Zenon DEF Moves
<1>9. /\ th' \in [Thread -> Ptr(ThreadType)] /\ OneThread(t) /\ th'[t] = r
      /\ LocalInv' /\ TidInv' /\ ExecInv' /\ LoadInv' /\ LockInv' /\ CpuInv'
      /\ FileInv' /\ PageInv'
  BY <1>6, <1>8, MoveStep, Zenon
<1>10. Filled(t, f)
  <2>1. \A g \in Frame : g # NULL  BY NullIsNone, Zenon
  <2> QED  BY <1>6, <1>7, <1>9, <2>1, Zenon DEF Filled, Fills, OneThread, Alive
<1>11. FrameInv'  BY <1>1, <1>2, <1>10, FrameTake, Zenon DEF SameMaps, Maps
<1>12. frames' \subseteq Frame  BY <1>1, <1>2, Zenon DEF TypeOK
<1> QED  BY <1>1, <1>9, <1>11, <1>12, Zenon DEF ProcInv, TypeOK

\* load_segment() takes a frame, or is done.
LEMMA SegmentStep ==
  ASSUME ProcInv, NEW t \in Thread, Segment(t)
  PROVE  ProcInv'
<1>1. /\ At(t, "segment")
      /\ UNCHANGED <<current, cr3, kpage, file, file_lock, next_tid, stopped>>
  BY Zenon DEF Segment
<1>2. ASSUME NEW u \in UPage, get_frame(t, u, "install")
      PROVE  ProcInv'
  BY <1>1, <1>2, TakeStep, Zenon
<1>3. ASSUME NEW q \in {"stack", "close_exe"}, Goto(t, q), frames' = frames
      PROVE  ProcInv'
  <2>1. q \in Label /\ QuietMove("segment", q)  BY DEF Label, Loading, QuietMove
  <2> QED  BY <1>1, <1>3, <2>1, GotoStep, Zenon
<1> QED  BY <1>2, <1>3, Zenon DEF Segment

\* setup_stack() takes a frame, or gets none.
LEMMA SetupStackStep ==
  ASSUME ProcInv, NEW t \in Thread, SetupStack(t)
  PROVE  ProcInv'
<1>1. /\ At(t, "stack") /\ "stack" \in UPage
      /\ UNCHANGED <<current, cr3, kpage, file, file_lock, next_tid, stopped>>
  BY Zenon DEF SetupStack, UPage
<1>2. CASE get_frame(t, "stack", "install_stack")
  BY <1>1, <1>2, TakeStep, Zenon
<1>3. CASE Goto(t, "close_exe") /\ frames' = frames
  <2>1. "close_exe" \in Label /\ QuietMove("stack", "close_exe")
    BY DEF Label, Loading, QuietMove
  <2> QED  BY <1>1, <1>3, <2>1, GotoStep, Zenon
<1> QED  BY <1>2, <1>3, Zenon DEF SetupStack

\* The frame that t was filling is mapped or given back; q is what comes next.
LEMMA FilledStep ==
  ASSUME ProcInv, NEW t \in Thread, NEW from \in Installing, At(t, from), NEW r,
         Set(t, r), NEW q \in {"segment", "close_exe"}, NEW b \in BOOLEAN,
         r = [th[t] EXCEPT !.kpage = NULL, !.upage = NULL, !.pc = q, !.success = b],
         UNCHANGED <<current, cr3, file, file_lock, next_tid, stopped>>
  PROVE  /\ TypeOK /\ PageInv /\ FrameInv /\ Alive(t)
         /\ th[t].kpage \in Frame /\ th[t].upage \in UPage
         /\ th[t].pagedir \in KPage /\ Dir(t) = th[t].pagedir
         /\ th' \in [Thread -> Ptr(ThreadType)]
         /\ LocalInv' /\ TidInv' /\ ExecInv' /\ LoadInv' /\ LockInv' /\ CpuInv' /\ FileInv'
         /\ \A u \in Thread : SameRoles(u)
         /\ Emptied(t, th[t].kpage)
<1>1. /\ Alive(t) /\ th[t].pc = from /\ th[t] \in ThreadType /\ LocalOK(th[t])
      /\ TypeOK /\ PageInv /\ FrameInv
  BY AtFacts, Zenon DEF ProcInv
<1>2. q \in Label /\ NULL \in Ptr(Frame) /\ NULL \in Ptr(UPage)  BY DEF Label, Loading, Ptr
<1>3. r \in ThreadType  BY <1>1, <1>2, Zenon DEF ThreadType
<1>4. /\ r.pc = q /\ r.kpage = NULL /\ SamePagesAs(r, th[t])
      /\ r.pagedir = th[t].pagedir /\ r.exe = th[t].exe /\ r.fd = th[t].fd
      /\ r.tid = th[t].tid
      /\ r.load_sema = th[t].load_sema /\ r.wait_sema = th[t].wait_sema
      /\ th[t].kpage \in Ptr(Frame) /\ th[t].pagedir \in Ptr(KPage)
  BY <1>1 DEF ThreadType, SamePagesAs
<1>5. /\ th[t].kpage # NULL /\ th[t].upage \in UPage /\ th[t].pagedir # NULL
      /\ LocalOK(r) /\ Calm(th[t].pc, r.pc)
  BY <1>1, <1>4
  DEF LocalOK, Calm, SamePagesAs, Execing, Loading, HasExe, Calls, Creating, Installing
<1> HIDE DEF LocalOK
<1>6. Moves(t, r)  BY <1>1, <1>3, <1>4, <1>5, Zenon DEF Moves
<1>7. /\ th' \in [Thread -> Ptr(ThreadType)] /\ OneThread(t) /\ th'[t] = r
      /\ LocalInv' /\ TidInv' /\ ExecInv' /\ LoadInv' /\ LockInv' /\ CpuInv' /\ FileInv'
  BY <1>4, <1>6, MoveStep, Zenon
<1>8. \A u \in Thread : SameRoles(u)
  <2>1. SamePages(t)  BY <1>4, <1>7, Zenon DEF SamePages, SamePagesAs
  <2> QED  BY <1>7, <2>1, OthersSame, Zenon
<1>9. Emptied(t, th[t].kpage)
  <2>1. \A g \in Frame : g # NULL  BY NullIsNone, Zenon
  <2>2. \A g \in Frame : Fills(t, g) <=> th[t].kpage = g  BY <1>1, Zenon DEF Fills
  <2>3. \A g \in Frame : ~Fills(t, g)'  BY <1>4, <1>7, <2>1, Zenon DEF Fills
  <2>4. \A u \in Thread \ {t}, g \in Frame : Fills(u, g)' <=> Fills(u, g)
    BY <1>7, Zenon DEF Fills, OneThread, Alive
  <2> QED  BY <2>2, <2>3, <2>4, Zenon DEF Emptied
<1>10. th[t].kpage \in Frame /\ th[t].pagedir \in KPage /\ Dir(t) = th[t].pagedir
  BY <1>4, <1>5, Zenon DEF Ptr, Dir
<1> QED  BY <1>1, <1>5, <1>7, <1>8, <1>9, <1>10, Zenon

\* install_page() has mapped the frame.
LEMMA InstalledStep ==
  ASSUME ProcInv, NEW t \in Thread, NEW from \in Installing, At(t, from),
         NEW q \in {"segment", "close_exe"}, Installed(t, q),
         UNCHANGED <<current, cr3, file, file_lock, next_tid, stopped>>
  PROVE  ProcInv'
<1> DEFINE b == th[t].pc = "install_stack"
           pd == th[t].pagedir
           up == th[t].upage
           f == th[t].kpage
           r == [th[t] EXCEPT !.kpage = NULL, !.upage = NULL, !.pc = q, !.success = b]
<1>0. Set(t, r) /\ b \in BOOLEAN  BY Zenon DEF Installed
<1>1. kpage[pd].map[up] = NULL /\ pagedir_set_page(pd, up, f) /\ frames' = frames
  BY Zenon DEF Installed, pagedir_get_page
<1> HIDE DEF b
<1>2. r = [th[t] EXCEPT !.kpage = NULL, !.upage = NULL, !.pc = q, !.success = b]  OBVIOUS
<1> HIDE DEF r
<1>3. /\ TypeOK /\ PageInv /\ FrameInv /\ Alive(t)
      /\ f \in Frame /\ up \in UPage /\ pd \in KPage /\ Dir(t) = pd
      /\ th' \in [Thread -> Ptr(ThreadType)]
      /\ LocalInv' /\ TidInv' /\ ExecInv' /\ LoadInv' /\ LockInv' /\ CpuInv' /\ FileInv'
      /\ \A u \in Thread : SameRoles(u)
      /\ Emptied(t, f)
  BY <1>0, <1>2, FilledStep, Zenon
<1>4. Fills(t, f)  BY <1>3, Zenon DEF Fills
<1> HIDE DEF pd, up, f
<1>5. kpage[pd] # NULL
  <2>1. pd # NULL  BY <1>3, NullIsNone, Zenon
  <2> QED  BY <1>3, <2>1, Zenon DEF PageInv, RoleInv, Roles, Holds
<1>6. /\ SetsPage(pd, up, f)
      /\ KeepsTables(pd) \/ \E k \in KPage, d \in Pde : AddsTable(pd, k, d)
  BY <1>1, <1>3, <1>5, SetPage, Zenon
<1>7. PageInv'  BY <1>3, <1>6, PageInstall, Zenon
<1>8. Mapped(pd, up, f)
  BY <1>1, <1>3, <1>5, <1>6, InstallMaps, Zenon
<1>9. FrameInv'  BY <1>1, <1>3, <1>4, <1>8, FrameInstall, Zenon
<1>10. TypeOK'  BY <1>1, <1>3, <1>6, Zenon DEF TypeOK, SetsPage
<1> QED  BY <1>3, <1>7, <1>9, <1>10, Zenon DEF ProcInv

\* install_page() has failed, and the frame is given back.
LEMMA NotInstalledStep ==
  ASSUME ProcInv, NEW t \in Thread, NEW from \in Installing, At(t, from), NotInstalled(t),
         UNCHANGED <<current, cr3, file, file_lock, next_tid, stopped>>
  PROVE  ProcInv'
<1> DEFINE b == th[t].success
           f == th[t].kpage
           q == "close_exe"
           r == [th[t] EXCEPT !.kpage = NULL, !.upage = NULL, !.pc = q, !.success = b]
<1>0. th[t] \in ThreadType  BY AtFacts, Zenon
<1>1. b \in BOOLEAN /\ [th[t] EXCEPT !.kpage = NULL, !.upage = NULL, !.pc = q] = r
  BY <1>0 DEF ThreadType
<1>2. Set(t, r) /\ frames' = frames \ {f} /\ kpage' = kpage /\ q \in {"segment", "close_exe"}
  BY <1>1, Zenon DEF NotInstalled
<1> HIDE DEF b, q
<1>3. r = [th[t] EXCEPT !.kpage = NULL, !.upage = NULL, !.pc = q, !.success = b]  OBVIOUS
<1> HIDE DEF r
<1>4. /\ TypeOK /\ PageInv /\ FrameInv /\ Alive(t) /\ f \in Frame
      /\ th' \in [Thread -> Ptr(ThreadType)]
      /\ LocalInv' /\ TidInv' /\ ExecInv' /\ LoadInv' /\ LockInv' /\ CpuInv' /\ FileInv'
      /\ \A u \in Thread : SameRoles(u)
      /\ Emptied(t, f)
  BY <1>1, <1>2, <1>3, FilledStep, ZenonT(30)
<1>5. Fills(t, f)  BY <1>4, Zenon DEF Fills
<1> HIDE DEF f
<1>6. PageInv'  BY <1>2, <1>4, PageKeeps, Zenon
<1>7. FrameInv'  BY <1>2, <1>4, <1>5, FrameGive, Zenon DEF SameMaps, Maps
<1>8. TypeOK'  BY <1>2, <1>4, Zenon DEF TypeOK
<1> QED  BY <1>4, <1>6, <1>7, <1>8, Zenon DEF ProcInv

\* Both ends of install_page().
LEMMA InstallStep ==
  ASSUME ProcInv, NEW t \in Thread, Install(t)
  PROVE  ProcInv'
<1>1. UNCHANGED <<current, cr3, file, file_lock, next_tid, stopped>>  BY Zenon DEF Install
<1>2. PICK from \in Installing, q \in {"segment", "close_exe"} :
        At(t, from) /\ (Installed(t, q) \/ NotInstalled(t))
  BY Zenon DEF Install, Installing
<1> QED  BY <1>1, <1>2, InstalledStep, NotInstalledStep, Zenon

-----------------------------------------------------------------------------
(* Files are closed.                                                       *)

\* A file that is closed is nobody's.
LEMMA CloseTypes ==
  ASSUME TypeOK, NEW g, file' = [f \in File |-> IF f = g THEN NULL ELSE file[f]]
  PROVE  file' \in [File -> Ptr(1..MaxTid)]
<1>1. file \in [File -> Ptr(1..MaxTid)] /\ NULL \in Ptr(1..MaxTid)
  BY Zenon DEF TypeOK, Ptr
<1> HIDE DEF TypeOK
<1> QED  BY <1>1

\* load() closes the executable.
LEMMA CloseExeStep ==
  ASSUME ProcInv, NEW t \in Thread, CloseExe(t)
  PROVE  ProcInv'
<1> DEFINE r == [th[t] EXCEPT !.exe = NULL, !.pc = "load_up"]
<1>1. /\ Alive(t) /\ th[t].pc = "close_exe" /\ th[t] \in ThreadType /\ LocalOK(th[t])
      /\ TypeOK /\ FileInv /\ TidInv /\ Set(t, r)
      /\ UNCHANGED <<current, cr3, kpage, frames, file_lock, next_tid, stopped>>
  BY AtFacts, Zenon DEF CloseExe, ProcInv
<1>2. file' = [f \in File |-> IF f = th[t].exe THEN NULL ELSE file[f]]
  BY Zenon DEF CloseExe
<1>3. "load_up" \in Label /\ NULL \in Ptr(File)  BY DEF Label, Loading, Ptr
<1>4. r \in ThreadType  BY <1>1, <1>3, Zenon DEF ThreadType
<1>5. /\ r.pc = "load_up" /\ r.exe = NULL /\ r.fd = th[t].fd /\ SamePagesAs(r, th[t])
      /\ r.kpage = th[t].kpage /\ r.pagedir = th[t].pagedir
      /\ r.tid = th[t].tid /\ r.upage = th[t].upage
      /\ r.load_sema = th[t].load_sema /\ r.wait_sema = th[t].wait_sema
  BY <1>1 DEF ThreadType, SamePagesAs
<1> HIDE DEF r
<1>6. th[t].fd = <<>> /\ LocalOK(r) /\ Calm(th[t].pc, r.pc)
  BY <1>1, <1>5
  DEF LocalOK, Calm, SamePagesAs, Execing, Loading, HasExe, Calls, Creating, Installing
<1> HIDE DEF LocalOK
<1>7. Moves(t, r)  BY <1>1, <1>4, <1>5, <1>6, Zenon DEF Moves
<1>8. /\ th' \in [Thread -> Ptr(ThreadType)] /\ OneThread(t) /\ th'[t] = r
      /\ LocalInv' /\ TidInv' /\ ExecInv' /\ LoadInv' /\ LockInv' /\ CpuInv'
      /\ PageInv' /\ FrameInv'
  BY <1>1, <1>5, <1>7, MoveStep, Zenon
<1>9. FileInv'
  <2>1. Closes(t, th[t].exe)  BY <1>5, <1>6, <1>8, Zenon DEF Closes
  <2> QED  BY <1>1, <1>2, <1>8, <2>1, FileClose, Zenon
<1>10. TypeOK'  BY <1>1, <1>2, <1>8, CloseTypes, Zenon DEF TypeOK
<1> QED  BY <1>8, <1>9, <1>10, Zenon DEF ProcInv

\* close() of a descriptor, open or not.
LEMMA CloseStep ==
  ASSUME ProcInv, NEW t \in Thread, Close(t)
  PROVE  ProcInv'
<1>1. /\ Alive(t) /\ th[t].pc = "user" /\ th[t] \in ThreadType /\ LocalOK(th[t])
      /\ TypeOK /\ FileInv /\ TidInv
      /\ UNCHANGED <<current, cr3, kpage, frames, file_lock, next_tid, stopped>>
  BY AtFacts, Zenon DEF Close, ProcInv
<1>2. PICK i \in DOMAIN th[t].fd : process_close_file(t, i)  BY Zenon DEF Close
<1> DEFINE s == [th[t].fd EXCEPT ![i] = NULL]
           r == [th[t] EXCEPT !.fd = s]
<1>3. th[t].fd \in Seq(Ptr(File)) /\ r = [th[t] EXCEPT !.fd[i] = NULL]
  BY <1>1 DEF ThreadType
<1>4. s \in Seq(Ptr(File))
  <2>1. NULL \in Ptr(File)  BY DEF Ptr
  <2> QED  BY <1>3, <2>1
<1>5. /\ file' = [f \in File |-> IF f = th[t].fd[i] THEN NULL ELSE file[f]]
      /\ Set(t, r)
  BY <1>2, <1>3, Zenon DEF process_close_file
<1>6. s = [th[t].fd EXCEPT ![i] = NULL]  OBVIOUS
<1> HIDE DEF s
<1>7. r \in ThreadType  BY <1>1, <1>4, Zenon DEF ThreadType
<1>8. /\ r.pc = "user" /\ r.fd = s /\ r.exe = th[t].exe /\ SamePagesAs(r, th[t])
      /\ r.kpage = th[t].kpage /\ r.pagedir = th[t].pagedir
      /\ r.tid = th[t].tid /\ r.upage = th[t].upage
      /\ r.load_sema = th[t].load_sema /\ r.wait_sema = th[t].wait_sema
  BY <1>1 DEF ThreadType, SamePagesAs
<1> HIDE DEF r
<1>9. th[t].exe = NULL /\ LocalOK(r) /\ Calm(th[t].pc, r.pc)
  BY <1>1, <1>8
  DEF LocalOK, Calm, SamePagesAs, Execing, Loading, HasExe, Calls, Creating, Installing
<1> HIDE DEF LocalOK
<1>10. Moves(t, r)  BY <1>1, <1>5, <1>7, <1>8, <1>9, Zenon DEF Moves
<1>11. /\ th' \in [Thread -> Ptr(ThreadType)] /\ OneThread(t) /\ th'[t] = r
       /\ LocalInv' /\ TidInv' /\ ExecInv' /\ LoadInv' /\ LockInv' /\ CpuInv'
       /\ PageInv' /\ FrameInv'
  BY <1>1, <1>8, <1>10, MoveStep, Zenon
<1>12. FileInv'
  <2>1. Closes(t, th[t].fd[i])  BY <1>6, <1>8, <1>9, <1>11, ZenonT(30) DEF Closes
  <2> QED  BY <1>1, <1>5, <1>11, <2>1, FileClose, Zenon
<1>13. TypeOK'  BY <1>1, <1>5, <1>11, CloseTypes, Zenon DEF TypeOK
<1> QED  BY <1>11, <1>12, <1>13, Zenon DEF ProcInv

-----------------------------------------------------------------------------
(* The end of load(), and process_exit().                                  *)

\* Thread t becomes r, with the same pages.
LEMMA OneStep ==
  ASSUME ProcInv, NEW t \in Thread, NEW r \in ThreadType, Alive(t), Set(t, r),
         r.tid = th[t].tid, LocalOK(r), r.pc # "new", SamePagesAs(r, th[t]),
         r.kpage = th[t].kpage, UNCHANGED <<kpage, frames, next_tid>>
  PROVE  /\ th' \in [Thread -> Ptr(ThreadType)] /\ OneThread(t) /\ th'[t] = r
         /\ LocalInv' /\ TidInv' /\ PageInv' /\ FrameInv'
         /\ UNCHANGED <<current, cr3>> /\ th[t].pc # "deactivate" => CpuInv'
         /\ file' = file /\ r.exe = th[t].exe /\ r.fd = th[t].fd => FileInv'
<1> HIDE DEF LocalOK
<1>0. TypeOK /\ LocalInv /\ TidInv /\ PageInv /\ FrameInv /\ CpuInv /\ FileInv
  BY Zenon DEF ProcInv
<1>1. th' \in [Thread -> Ptr(ThreadType)] /\ OneThread(t) /\ th'[t] = r
  <2>1. /\ th' \in [Thread -> Ptr(ThreadType)] /\ th'[t] = r /\ Alive(t)'
        /\ \A u \in Thread \ {t} : th'[u] = th[u]
    BY <1>0, SetType, Zenon
  <2> QED  BY <2>1, Zenon DEF OneThread
<1>2. LocalInv' /\ TidInv'  BY <1>0, <1>1, LocalKeeps, TidKeeps, Zenon
<1>3. SamePages(t) /\ th'[t].kpage = th[t].kpage /\ th'[t].pagedir = th[t].pagedir
  BY <1>1, Zenon DEF SamePagesAs, SamePages
<1>4. PageInv' /\ FrameInv'  BY <1>0, <1>1, <1>3, PagesAlone, Zenon
<1>5. UNCHANGED <<current, cr3>> /\ th[t].pc # "deactivate" => CpuInv'
  BY <1>0, <1>1, <1>3, CpuKeeps, Zenon
<1>6. file' = file /\ r.exe = th[t].exe /\ r.fd = th[t].fd => FileInv'
  BY <1>0, <1>1, FileKeeps, Zenon
<1> QED  BY <1>1, <1>2, <1>4, <1>5, <1>6, Zenon

\* start_process() raises load_sema.
LEMMA LoadUpStep ==
  ASSUME ProcInv, NEW t \in Thread, LoadUp(t)
  PROVE  ProcInv'
<1> DEFINE n == th[t].load_sema + 1
           r == [th[t] EXCEPT !.load_sema = n, !.pc = "free_own"]
<1>1. /\ Alive(t) /\ th[t].pc = "load_up" /\ th[t] \in ThreadType /\ LocalOK(th[t])
      /\ TypeOK /\ ExecInv /\ LoadInv /\ LockInv /\ Only(t, r)
  BY AtFacts, Zenon DEF LoadUp, ProcInv
<1>2. n \in Nat /\ n # 0  BY <1>1 DEF ThreadType
<1>3. Set(t, r) /\ "free_own" \in Label
      /\ UNCHANGED <<current, cr3, kpage, frames, file, file_lock, next_tid, stopped>>
  BY <1>1, Zenon DEF Only, Label
<1> HIDE DEF n
<1>4. r \in ThreadType  BY <1>1, <1>2, <1>3, Zenon DEF ThreadType
<1>5. /\ r.pc = "free_own" /\ r.load_sema = n /\ SamePagesAs(r, th[t])
      /\ r.exe = th[t].exe /\ r.fd = th[t].fd /\ r.kpage = th[t].kpage
      /\ r.tid = th[t].tid /\ r.upage = th[t].upage /\ r.wait_sema = th[t].wait_sema
  BY <1>1 DEF ThreadType, SamePagesAs
<1> HIDE DEF r
<1>6. LocalOK(r)
  BY <1>1, <1>5 DEF LocalOK, SamePagesAs, Loading, HasExe, Calls, Creating, Installing
<1> HIDE DEF LocalOK
<1>7. /\ th' \in [Thread -> Ptr(ThreadType)] /\ OneThread(t) /\ th'[t] = r
      /\ LocalInv' /\ TidInv' /\ PageInv' /\ FrameInv' /\ CpuInv' /\ FileInv'
  BY <1>1, <1>3, <1>4, <1>5, <1>6, OneStep, Zenon
<1>8. /\ th'[t].pc = "free_own" /\ th'[t].load_sema # 0 /\ th[t].pc = "load_up"
      /\ "free_own" \notin Execing \cup Creating \cup Loading
  BY <1>1, <1>2, <1>5, <1>7 DEF Execing, Creating, Loading
<1>9. ExecInv'  BY <1>1, <1>7, <1>8, ExecKeeps, Zenon
<1>10. LoadInv'  BY <1>1, <1>7, <1>8, LoadKeeps, Zenon
<1>11. LockInv'  BY <1>1, <1>3, <1>7, <1>8, LockKeeps, Zenon
<1> QED  BY <1>1, <1>3, <1>7, <1>9, <1>10, <1>11, Zenon DEF ProcInv, TypeOK

\* process_exit() clears the pointer, then leaves the directory, then frees it.
LEMMA ExitOrder ==
  /\ exit_order[1] = "clear" /\ after("clear") = "deactivate"
  /\ after("deactivate") = "destroy" /\ after("destroy") = "die"
<1>1. exit_order[1] = "clear" /\ exit_order[2] = "deactivate"
      /\ exit_order[3] = "destroy" /\ exit_order[4] = "die"
  BY DEF exit_order
<1>2. \A i \in 1..3 : i = 1 \/ i = 2 \/ i = 3  OBVIOUS
<1> HIDE DEF exit_order
<1>3. (CHOOSE i \in 1..3 : exit_order[i] = "clear") = 1  BY <1>1, <1>2
<1>4. (CHOOSE i \in 1..3 : exit_order[i] = "deactivate") = 2  BY <1>1, <1>2
<1>5. (CHOOSE i \in 1..3 : exit_order[i] = "destroy") = 3  BY <1>1, <1>2
<1> QED  BY <1>1, <1>3, <1>4, <1>5 DEF after

\* Exit and Clear: the directory is the same, wherever the pointer to it is.
LEMMA DirStep ==
  ASSUME ProcInv, NEW t \in Thread, NEW r, Moves(t, r),
         r.params = th[t].params, r.new = th[t].new, r.fd_table = th[t].fd_table,
         r.kpage = th[t].kpage, r.exe = th[t].exe, r.fd = th[t].fd,
         NEW d, Dir(t) = d, d = IF r.pagedir # NULL THEN r.pagedir ELSE r.pd,
         UNCHANGED <<kpage, frames, file, file_lock, next_tid, stopped, current, cr3>>
  PROVE  CpuInv' => ProcInv'
<1>1. /\ TypeOK /\ PageInv /\ FrameInv /\ Alive(t) /\ r \in ThreadType
  BY Zenon DEF ProcInv, Moves
<1>3. /\ th' \in [Thread -> Ptr(ThreadType)] /\ OneThread(t) /\ th'[t] = r
      /\ LocalInv' /\ TidInv' /\ ExecInv' /\ LoadInv' /\ LockInv' /\ FileInv'
  BY MoveStep, Zenon
<1>4. OthersKeep(t) /\ SameFills  BY <1>3, OthersSame, Zenon
<1>5. SameRoles(t)  BY <1>3, Zenon DEF SameRoles, OneThread, Dir
<1>6. PageInv'  BY <1>1, <1>4, <1>5, PageKeeps, Zenon DEF OthersKeep
<1>7. FrameInv'  BY <1>1, <1>4, FrameKeeps, Zenon DEF SameMaps, Maps
<1>8. TypeOK'  BY <1>1, <1>3, Zenon DEF TypeOK
<1> QED  BY <1>3, <1>6, <1>7, <1>8, Zenon DEF ProcInv

\* process_exit() closes what is open and reads the pointer to the directory.
LEMMA ExitStep ==
  ASSUME ProcInv, NEW t \in Thread, Exit(t)
  PROVE  ProcInv'
<1> DEFINE q == IF th[t].pagedir = NULL THEN "die" ELSE "clear"
           r == [th[t] EXCEPT !.pd = th[t].pagedir, !.pc = q]
<1>1. /\ Alive(t) /\ th[t].pc = "exit" /\ th[t] \in ThreadType /\ LocalOK(th[t])
      /\ Only(t, r)
  BY AtFacts, ExitOrder, Zenon DEF Exit
<1>2. /\ Set(t, r) /\ q \in Label
      /\ UNCHANGED <<current, cr3, kpage, frames, file, file_lock, next_tid, stopped>>
  BY <1>1, Zenon DEF Only, Label, Exiting
<1>3. /\ q \in {"die", "clear"} /\ (q = "die" <=> th[t].pagedir = NULL)
      /\ th[t].pagedir \in Ptr(KPage)
  BY <1>1 DEF ThreadType
<1> HIDE DEF q
<1>4. r \in ThreadType  BY <1>1, <1>2, <1>3, Zenon DEF ThreadType
<1>5. /\ r.pc = q /\ r.pd = th[t].pagedir /\ r.pagedir = th[t].pagedir
      /\ r.params = th[t].params /\ r.new = th[t].new
      /\ r.fd_table = th[t].fd_table
      /\ r.tid = th[t].tid /\ r.load_sema = th[t].load_sema
      /\ r.wait_sema = th[t].wait_sema /\ r.exe = th[t].exe /\ r.fd = th[t].fd
      /\ r.kpage = th[t].kpage /\ r.upage = th[t].upage
  BY <1>1 DEF ThreadType
<1> HIDE DEF r
<1>6. /\ Dir(t) = th[t].pagedir /\ LocalOK(r) /\ Calm(th[t].pc, r.pc)
  BY <1>1, <1>3, <1>5
  DEF LocalOK, Calm, Dir, Execing, Loading, HasExe, Calls, Creating, Installing
<1> HIDE DEF LocalOK
<1>7. Moves(t, r)  BY <1>1, <1>2, <1>4, <1>5, <1>6, Zenon DEF Moves
<1>8. CpuInv'  BY <1>2, <1>5, <1>7, MoveStep, Zenon
<1>9. Dir(t) = IF r.pagedir # NULL THEN r.pagedir ELSE r.pd  BY <1>5, <1>6, Zenon
<1> QED  BY <1>2, <1>5, <1>7, <1>8, <1>9, DirStep, Zenon

\* cur->pagedir = NULL.
LEMMA ClearStep ==
  ASSUME ProcInv, NEW t \in Thread, Clear(t)
  PROVE  ProcInv'
<1> DEFINE r == [th[t] EXCEPT !.pagedir = NULL, !.pc = "deactivate"]
<1>1. /\ Alive(t) /\ current = t /\ th[t].pc = "clear" /\ th[t] \in ThreadType
      /\ LocalOK(th[t]) /\ CpuInv /\ t # "idle" /\ Only(t, r)
  BY AtFacts, ExitOrder, NullIsNone, Zenon DEF Clear, ProcInv
<1>2. /\ Set(t, r) /\ "deactivate" \in Label /\ NULL \in Ptr(KPage)
      /\ UNCHANGED <<current, cr3, kpage, frames, file, file_lock, next_tid, stopped>>
  BY <1>1, Zenon DEF Only, Label, Exiting, Ptr
<1>3. r \in ThreadType  BY <1>1, <1>2, Zenon DEF ThreadType
<1>4. /\ r.pc = "deactivate" /\ r.pd = th[t].pd /\ r.pagedir = NULL
      /\ r.params = th[t].params /\ r.new = th[t].new
      /\ r.fd_table = th[t].fd_table
      /\ r.tid = th[t].tid /\ r.load_sema = th[t].load_sema
      /\ r.wait_sema = th[t].wait_sema /\ r.exe = th[t].exe /\ r.fd = th[t].fd
      /\ r.kpage = th[t].kpage /\ r.upage = th[t].upage
  BY <1>1 DEF ThreadType
<1> HIDE DEF r
<1>5. /\ Dir(t) = th[t].pd /\ th[t].pd = th[t].pagedir
      /\ LocalOK(r) /\ Calm(th[t].pc, r.pc)
  BY <1>1, <1>4
  DEF LocalOK, Calm, Dir, Execing, Loading, HasExe, Calls, Creating, Installing
<1> HIDE DEF LocalOK
<1>6. Moves(t, r)  BY <1>1, <1>2, <1>3, <1>4, <1>5, Zenon DEF Moves
<1>7. cr3 = th[t].pagedir  BY <1>1, Zenon DEF CpuInv
<1>8. th'[t] = r /\ Alive(t)'  BY <1>2, <1>6, MoveStep, Zenon DEF OneThread
<1>9. CpuInv'  BY <1>1, <1>2, <1>4, <1>5, <1>7, <1>8, Zenon DEF CpuInv, Alive
<1>10. Dir(t) = IF r.pagedir # NULL THEN r.pagedir ELSE r.pd  BY <1>4, <1>5, Zenon
<1> QED  BY <1>2, <1>4, <1>6, <1>9, <1>10, DirStep, Zenon

\* pagedir_activate (NULL): the CPU leaves the directory.
LEMMA DeactivateStep ==
  ASSUME ProcInv, NEW t \in Thread, Deactivate(t)
  PROVE  ProcInv'
<1> DEFINE r == [th[t] EXCEPT !.pc = "destroy"]
<1>1. /\ Alive(t) /\ current = t /\ th[t].pc = "deactivate" /\ th[t] \in ThreadType
      /\ LocalOK(th[t]) /\ TypeOK /\ ExecInv /\ LoadInv /\ LockInv /\ t # "idle"
  BY AtFacts, NullIsNone, Zenon DEF Deactivate, ProcInv
<1>2. /\ Set(t, r) /\ cr3' = NULL /\ "destroy" \in Label /\ NULL \in Ptr(KPage)
      /\ UNCHANGED <<current, kpage, frames, file, file_lock, next_tid, stopped>>
  BY ExitOrder, Zenon DEF Deactivate, pagedir_activate, Goto, Label, Exiting, Ptr
<1>3. r \in ThreadType /\ r.pc = "destroy" /\ Like(r, th[t])  BY <1>1, <1>2, GotoType, SMTT(30)
<1> HIDE DEF r
<1>4. LocalOK(r) /\ r.pagedir = NULL
  BY <1>1, <1>3 DEF LocalOK, Like, Loading, HasExe, Calls, Creating, Installing
<1> HIDE DEF LocalOK
<1>5. /\ r.tid = th[t].tid /\ SamePagesAs(r, th[t]) /\ r.kpage = th[t].kpage
      /\ r.exe = th[t].exe /\ r.fd = th[t].fd /\ r.load_sema = th[t].load_sema
  BY <1>3, Zenon DEF Like, SamePagesAs
<1>6. /\ th' \in [Thread -> Ptr(ThreadType)] /\ OneThread(t) /\ th'[t] = r /\ Alive(t)'
      /\ LocalInv' /\ TidInv' /\ PageInv' /\ FrameInv' /\ FileInv'
  BY <1>1, <1>2, <1>3, <1>4, <1>5, OneStep, Zenon DEF OneThread
<1>7. /\ th'[t].pc = "destroy" /\ th'[t].load_sema = th[t].load_sema
      /\ th[t].pc = "deactivate"
      /\ {"deactivate", "destroy"} \cap (Execing \cup Creating \cup Loading) = {}
  BY <1>1, <1>3, <1>5, <1>6 DEF Execing, Creating, Loading
<1>8. ExecInv'  BY <1>1, <1>6, <1>7, ExecKeeps, Zenon
<1>9. LoadInv'  BY <1>1, <1>6, <1>7, LoadKeeps, Zenon
<1>10. LockInv'  BY <1>1, <1>2, <1>6, <1>7, LockKeeps, Zenon
<1>11. CpuInv'  BY <1>1, <1>2, <1>4, <1>6, <1>7, Zenon DEF CpuInv, Alive
<1>12. TypeOK'  BY <1>1, <1>2, <1>6, Zenon DEF TypeOK
<1> QED  BY <1>6, <1>8, <1>9, <1>10, <1>11, <1>12, Zenon DEF ProcInv

\* pagedir_destroy(): the directory, its tables and all frames it maps.
LEMMA DestroyStep ==
  ASSUME ProcInv, NEW t \in Thread, Destroy(t)
  PROVE  ProcInv'
<1> DEFINE pd == th[t].pd
           r == [th[t] EXCEPT !.pd = NULL, !.pc = "die"]
           P == {pd} \cup Range(kpage[pd].pt)
<1>1. /\ Alive(t) /\ th[t].pc = "destroy" /\ th[t] \in ThreadType /\ LocalOK(th[t])
      /\ TypeOK /\ PageInv /\ FrameInv
  BY AtFacts, Zenon DEF Destroy, ProcInv
<1>2. /\ Set(t, r) /\ frames' = frames \ Range(kpage[pd].map)
      /\ kpage' = [k \in KPage |-> IF k \in P THEN NULL ELSE kpage[k]]
      /\ "die" \in Label /\ NULL \in Ptr(KPage) /\ NULL \in Ptr(Content)
      /\ UNCHANGED <<current, cr3, file, file_lock, next_tid, stopped>>
  BY ExitOrder, Zenon DEF Destroy, Label, Exiting, Ptr
<1> HIDE DEF P
<1>3. r \in ThreadType  BY <1>1, <1>2, Zenon DEF ThreadType
<1>4. /\ r.pc = "die" /\ r.pd = NULL /\ r.pagedir = th[t].pagedir
      /\ r.params = th[t].params /\ r.new = th[t].new /\ r.fd_table = th[t].fd_table
      /\ r.tid = th[t].tid /\ r.load_sema = th[t].load_sema
      /\ r.wait_sema = th[t].wait_sema /\ r.exe = th[t].exe /\ r.fd = th[t].fd
      /\ r.kpage = th[t].kpage /\ r.upage = th[t].upage /\ th[t].pd \in Ptr(KPage)
  BY <1>1, SMTT(30) DEF ThreadType
<1> HIDE DEF r
<1>5. /\ Dir(t) = pd /\ pd # NULL /\ th[t].pagedir = NULL
      /\ th[t].params = NULL /\ th[t].new = NULL
      /\ LocalOK(r) /\ Calm(th[t].pc, r.pc)
  BY <1>1, <1>4
  DEF LocalOK, Calm, Dir, Execing, Loading, HasExe, Calls, Creating, Installing
<1> HIDE DEF LocalOK
<1>6. Moves(t, r)  BY <1>1, <1>2, <1>3, <1>4, <1>5, Zenon DEF Moves
<1>7. /\ th' \in [Thread -> Ptr(ThreadType)] /\ OneThread(t) /\ th'[t] = r
      /\ LocalInv' /\ TidInv' /\ ExecInv' /\ LoadInv' /\ LockInv' /\ FileInv' /\ CpuInv'
  BY <1>2, <1>4, <1>6, MoveStep, Zenon
<1>8. OthersKeep(t) /\ SameFills  BY <1>4, <1>7, OthersSame, Zenon
<1>9. pd \in KPage /\ kpage[pd] # NULL
  <2>1. Roles(t)  BY <1>1, Zenon DEF PageInv, RoleInv
  <2> QED  BY <1>4, <1>5, <2>1, Zenon DEF Roles, Holds, Ptr
<1>10. Alive(t)' /\ Dir(t)' = NULL  BY <1>4, <1>5, <1>7, Zenon DEF Dir, OneThread
<1>11. PageInv' /\ Unmapped(pd)
  BY <1>1, <1>2, <1>4, <1>5, <1>7, <1>8, <1>9, <1>10, PageDestroy, Zenon DEF P
<1>12. \A g \in Frame : g \in frames' <=> g \in frames /\ \A u \in UPage : ~Maps(pd, u, g)
  <2>1. kpage[pd].map \in [UPage -> Ptr(Frame)]  BY <1>1, <1>9, PageTypes, Zenon
  <2>2. \A g : g \in Range(kpage[pd].map) <=> \E u \in UPage : kpage[pd].map[u] = g
    BY <2>1 DEF Range
  <2> QED  BY <1>2, <1>9, <2>2, Zenon DEF Maps
<1>13. FrameInv'  BY <1>1, <1>8, <1>9, <1>11, <1>12, FrameDestroy, Zenon
<1>14. frames' \subseteq Frame /\ kpage' \in [KPage -> Ptr(Content)]
  BY <1>1, <1>2 DEF TypeOK
<1>15. TypeOK'  BY <1>1, <1>2, <1>7, <1>14, Zenon DEF TypeOK
<1> QED  BY <1>7, <1>11, <1>13, <1>15, Zenon DEF ProcInv

-----------------------------------------------------------------------------
(* The file system calls.                                                  *)

\* Thread t takes file_lock, or releases it.
Locks(t, r) ==
  \/ /\ th[t].pc = "lock" /\ file_lock = NULL
     /\ r.pc \in {"open", "transfer"} /\ file_lock' = t
  \/ th[t].pc \in {"open", "transfer"} /\ r.pc = "user" /\ file_lock' = NULL

\* It keeps the invariant, but for the files.
LEMMA LockStep ==
  ASSUME ProcInv, NEW t \in Thread, NEW r \in ThreadType, Alive(t), Set(t, r), Locks(t, r),
         r.tid = th[t].tid, LocalOK(r), SamePagesAs(r, th[t]), r.kpage = th[t].kpage,
         r.load_sema = th[t].load_sema, file' \in [File -> Ptr(1..MaxTid)],
         UNCHANGED <<current, cr3, kpage, frames, next_tid, stopped>>
  PROVE  /\ TypeOK /\ FileInv /\ OneThread(t) /\ th'[t] = r /\ (FileInv' => ProcInv')
         /\ file' = file /\ r.exe = th[t].exe /\ r.fd = th[t].fd => ProcInv'
<1>1. /\ TypeOK /\ ExecInv /\ LoadInv /\ LockInv /\ FileInv
  BY ZenonT(30) DEF ProcInv
<1>2. /\ r.pc \in {"open", "transfer", "user"} /\ th[t].pc \in {"lock", "open", "transfer"}
      /\ {"lock", "open", "transfer", "user"} \cap
           (Execing \cup Creating \cup Loading \cup {"new", "deactivate"}) = {}
  BY DEF Execing, Creating, Loading, Locks
<1>3. /\ th' \in [Thread -> Ptr(ThreadType)] /\ OneThread(t) /\ th'[t] = r
      /\ LocalInv' /\ TidInv' /\ PageInv' /\ FrameInv' /\ CpuInv'
      /\ file' = file /\ r.exe = th[t].exe /\ r.fd = th[t].fd => FileInv'
  BY <1>2, OneStep, Zenon
<1>4. ExecInv'  BY <1>1, <1>2, <1>3, ExecKeeps, Zenon
<1>5. LoadInv'  BY <1>1, <1>2, <1>3, LoadKeeps, Zenon
<1>6. LockInv'
  <2>1. file_lock = NULL \/ (file_lock = t /\ th[t].pc \in {"open", "transfer"})
    BY <1>1, <1>2, Zenon DEF LockInv, Locks
  <2>2. \A u \in Thread \ {t} : Alive(u)' => th'[u].pc \notin {"open", "transfer"}
    BY <1>1, <1>3, <2>1, NullIsNone, Zenon DEF LockInv, OneThread, Alive
  <2> QED  BY <1>3, <2>2, NullIsNone DEF LockInv, FileLockLive, Locks, OneThread, Alive
<1>7. file_lock' \in Ptr(Thread)  BY Zenon DEF Locks, Ptr
<1>8. TypeOK'  BY <1>1, <1>3, <1>7, Zenon DEF TypeOK
<1> QED  BY <1>1, <1>3, <1>4, <1>5, <1>6, <1>8, Zenon DEF ProcInv

\* lock_acquire (&file_lock).
LEMMA LockAction ==
  ASSUME ProcInv, NEW t \in Thread, Lock(t)
  PROVE  ProcInv'
<1> DEFINE q == IF th[t].op = "open" THEN "open" ELSE "transfer"
           r == [th[t] EXCEPT !.pc = q]
<1>1. /\ Alive(t) /\ th[t].pc = "lock" /\ th[t] \in ThreadType /\ LocalOK(th[t])
      /\ file' = file /\ file \in [File -> Ptr(1..MaxTid)]
  BY AtFacts, Zenon DEF Lock, ProcInv, TypeOK
<1>2. /\ Set(t, r) /\ file_lock = NULL /\ file_lock' = t
      /\ q \in {"open", "transfer"} /\ q \in Label
      /\ UNCHANGED <<current, cr3, kpage, frames, file, next_tid, stopped>>
  BY Zenon DEF Lock, Goto, Label, Calling
<1> HIDE DEF q
<1>3. r \in ThreadType /\ r.pc = q /\ Like(r, th[t])  BY <1>1, <1>2, GotoType, SMTT(30)
<1> HIDE DEF r
<1>4. LocalOK(r)
  BY <1>1, <1>2, <1>3 DEF LocalOK, Like, Loading, HasExe, Calls, Creating, Installing
<1> HIDE DEF LocalOK
<1>5. Locks(t, r) /\ SamePagesAs(r, th[t])
  BY <1>1, <1>2, <1>3, Zenon DEF Locks, Like, SamePagesAs
<1> QED  BY <1>1, <1>2, <1>3, <1>4, <1>5, LockStep, Zenon DEF Like

\* open(), read() and write() return to the program.
LEMMA ReleaseStep ==
  ASSUME ProcInv, NEW t \in Thread, NEW from \in {"open", "transfer"}, At(t, from),
         NEW f \in Seq(Ptr(File)), file' \in [File -> Ptr(1..MaxTid)], file_lock' = NULL,
         Set(t, [th[t] EXCEPT !.op = NULL, !.pc = "user", !.fd = f]),
         UNCHANGED <<current, cr3, kpage, frames, next_tid, stopped>>
  PROVE  /\ TypeOK /\ FileInv /\ OneThread(t) /\ th'[t].exe = th[t].exe /\ th'[t].fd = f
         /\ FileInv' \/ (file' = file /\ f = th[t].fd) => ProcInv'
<1> DEFINE r == [th[t] EXCEPT !.op = NULL, !.pc = "user", !.fd = f]
<1>1. /\ Alive(t) /\ th[t].pc = from /\ th[t] \in ThreadType /\ LocalOK(th[t])
  BY AtFacts, Zenon
<1>2. "user" \in Label /\ NULL \in Ptr({"open", "io"})  BY Zenon DEF Label, Ptr
<1>3. r \in ThreadType  BY <1>1, <1>2, Zenon DEF ThreadType
<1>4. /\ r.pc = "user" /\ r.load_sema = th[t].load_sema /\ SamePagesAs(r, th[t])
      /\ r.exe = th[t].exe /\ r.fd = f /\ r.kpage = th[t].kpage
      /\ r.tid = th[t].tid /\ r.upage = th[t].upage /\ r.wait_sema = th[t].wait_sema
  BY <1>1 DEF ThreadType, SamePagesAs
<1>5. Set(t, r)  OBVIOUS
<1> HIDE DEF r
<1>6. LocalOK(r)
  BY <1>1, <1>4 DEF LocalOK, SamePagesAs, Loading, HasExe, Calls, Creating, Installing
<1> HIDE DEF LocalOK
<1>7. Locks(t, r)  BY <1>1, <1>4, Zenon DEF Locks
<1> QED  BY <1>1, <1>3, <1>4, <1>5, <1>6, <1>7, LockStep, Zenon

\* read() and write() are done.
LEMMA TransferStep ==
  ASSUME ProcInv, NEW t \in Thread, Transfer(t)
  PROVE  ProcInv'
<1>1. /\ At(t, "transfer") /\ th[t] \in ThreadType
      /\ Set(t, [th[t] EXCEPT !.op = NULL, !.pc = "user"])
      /\ file' = file /\ file \in [File -> Ptr(1..MaxTid)] /\ file_lock' = NULL
      /\ UNCHANGED <<current, cr3, kpage, frames, next_tid, stopped>>
  BY AtFacts, Zenon DEF Transfer, ProcInv, TypeOK
<1>2. /\ th[t].fd \in Seq(Ptr(File))
      /\ [th[t] EXCEPT !.op = NULL, !.pc = "user"]
           = [th[t] EXCEPT !.op = NULL, !.pc = "user", !.fd = th[t].fd]
  BY <1>1 DEF ThreadType
<1>3. Set(t, [th[t] EXCEPT !.op = NULL, !.pc = "user", !.fd = th[t].fd])
  BY <1>1, <1>2, Zenon
<1> QED  BY <1>1, <1>2, <1>3, ReleaseStep, Zenon

\* open() adds a descriptor, or fails.
LEMMA OpenStep ==
  ASSUME ProcInv, NEW t \in Thread, Open(t)
  PROVE  ProcInv'
<1> DEFINE r == [th[t] EXCEPT !.op = NULL, !.pc = "user"]
<1>1. /\ At(t, "open") /\ th[t] \in ThreadType /\ file_lock' = NULL
      /\ file \in [File -> Ptr(1..MaxTid)]
      /\ UNCHANGED <<current, cr3, kpage, frames, next_tid, stopped>>
  BY AtFacts, Zenon DEF Open, ProcInv, TypeOK
<1>2. /\ th[t].fd \in Seq(Ptr(File)) /\ th[t].tid \in Ptr(1..MaxTid)
  BY <1>1 DEF ThreadType, Ptr
<1>0. /\ r = [th[t] EXCEPT !.op = NULL, !.pc = "user", !.fd = th[t].fd]
      /\ \A f \in File : process_add_file(r, f)
           = [th[t] EXCEPT !.op = NULL, !.pc = "user", !.fd = Append(th[t].fd, f)]
  BY <1>1 DEF ThreadType, process_add_file
<1>3. \/ \E f \in File : /\ file[f] = NULL /\ file' = [file EXCEPT ![f] = th[t].tid]
                         /\ Set(t, process_add_file(r, f))
      \/ Set(t, r) /\ file' = file
  BY Zenon DEF Open
<1> HIDE DEF r
<1>4. CASE Set(t, r) /\ file' = file
  <2>1. Set(t, [th[t] EXCEPT !.op = NULL, !.pc = "user", !.fd = th[t].fd])
    BY <1>0, <1>4, Zenon
  <2> QED  BY <1>1, <1>2, <1>4, <2>1, ReleaseStep, Zenon
<1>5. ASSUME NEW f \in File, file[f] = NULL, file' = [file EXCEPT ![f] = th[t].tid],
             Set(t, process_add_file(r, f))
      PROVE  ProcInv'
  <2>1. Set(t, [th[t] EXCEPT !.op = NULL, !.pc = "user", !.fd = Append(th[t].fd, f)])
    <3>1. process_add_file(r, f)
            = [th[t] EXCEPT !.op = NULL, !.pc = "user", !.fd = Append(th[t].fd, f)]
      BY <1>0, Zenon
    <3> QED  BY <1>5, <3>1
  <2>2. Append(th[t].fd, f) \in Seq(Ptr(File))
    <3>1. f \in Ptr(File)  BY Zenon DEF Ptr
    <3> QED  BY <1>2, <3>1
  <2>3. file' \in [File -> Ptr(1..MaxTid)]  BY <1>1, <1>2, <1>5, Zenon
  <2>4. /\ TypeOK /\ FileInv /\ OneThread(t) /\ th'[t].exe = th[t].exe
        /\ th'[t].fd = Append(th[t].fd, f) /\ (FileInv' => ProcInv')
    BY <1>1, <2>1, <2>2, <2>3, ReleaseStep, Zenon
  <2>5. FileInv'  BY <1>5, <2>4, FileOpen, Zenon
  <2> QED  BY <2>4, <2>5, Zenon
<1> QED  BY <1>3, <1>4, <1>5, Zenon

-----------------------------------------------------------------------------
(* thread_get_child().                                                     *)

\* An entry of child_list leads to a page for a thread.
LEMMA FoundIn ==
  ASSUME TypeOK, NEW t \in Thread, Alive(t), NEW i \in Lowest(Found(t))
  PROVE  th[t].child_list[i][1] \in Thread
<1>1. th[t].child_list \in Seq(Thread \X (1..MaxTid))  BY AliveType DEF ThreadType
<1>2. i \in DOMAIN th[t].child_list  BY Zenon DEF Lowest, Found
<1> QED  BY <1>1, <1>2

\* thread_get_child(): the child, none, or a pointer to a thread that is gone.
LEMMA GetChildStep ==
  ASSUME ProcInv, NEW t \in Thread, GetChild(t)
  PROVE  ProcInv'
<1> DEFINE q == IF th[t].pc = "wait" THEN "wait_down" ELSE "load_down"
           s == [th[t] EXCEPT !.ctid = 0, !.pc = "user"]
<1>1. /\ Alive(t) /\ th[t].pc \in {"get_child", "wait"} /\ th[t] \in ThreadType
      /\ LocalOK(th[t]) /\ TypeOK /\ ExecInv /\ LoadInv /\ LockInv
  BY AtFacts, Zenon DEF GetChild, ProcInv
<1>2. CASE wild
  BY <1>2, StopStep, Zenon DEF wild
<1>3. CASE /\ Found(t) = {} /\ Set(t, s)
           /\ UNCHANGED <<current, cr3, kpage, frames, file, file_lock, next_tid, stopped>>
  <2>1. 0 \in 0..MaxTid  BY ProcessAssumption
  <2>2. "user" \in Label  BY Zenon DEF Label
  <2>3. s \in ThreadType  BY <1>1, <2>1, <2>2, Zenon DEF ThreadType
  <2>4. Like(s, th[t]) /\ s.pc = "user"  BY <1>1 DEF ThreadType, Like
  <2> HIDE DEF s, LocalOK
  <2>5. QuietMove(th[t].pc, s.pc)  BY <1>1, <2>4, Zenon DEF QuietMove
  <2> QED  BY <1>1, <1>3, <2>3, <2>4, <2>5, SetStep, Zenon
<1>4. ASSUME NEW i \in Lowest(Found(t)),
             Set(t, [th[t] EXCEPT !.child = th[t].child_list[i][1], !.pc = q]),
             UNCHANGED <<current, cr3, kpage, frames, file, file_lock, next_tid, stopped>>
      PROVE  ProcInv'
  <2> DEFINE c == th[t].child_list[i][1]
             r == [th[t] EXCEPT !.child = c, !.pc = q]
  <2>0. Set(t, r)  BY <1>4
  <2>1. c \in Ptr(Thread) /\ c # NULL  BY <1>1, <1>4, FoundIn, NullIsNone, Zenon DEF Ptr
  <2>2. /\ q \in {"wait_down", "load_down"} /\ q \in Label
        /\ (q = "load_down" => th[t].pc = "get_child")
    BY <1>1, Zenon DEF Label, Calling
  <2> HIDE DEF c, q
  <2>3. r \in ThreadType  BY <1>1, <2>1, <2>2, Zenon DEF ThreadType
  <2>4. Like(r, th[t]) /\ r.pc = q /\ r.child = c /\ r.ctid = th[t].ctid
    BY <1>1, SMTT(30) DEF ThreadType, Like
  <2> HIDE DEF r
  <2>5. LocalOK(r) /\ SamePagesAs(r, th[t])
    BY <1>1, <2>1, <2>2, <2>4
    DEF LocalOK, Like, SamePagesAs, Loading, HasExe, Calls, Creating, Installing
  <2> HIDE DEF LocalOK
  <2>6. /\ th' \in [Thread -> Ptr(ThreadType)] /\ OneThread(t) /\ th'[t] = r
        /\ LocalInv' /\ TidInv' /\ PageInv' /\ FrameInv' /\ CpuInv' /\ FileInv'
    <3>1. /\ r.tid = th[t].tid /\ r.pc # "new" /\ r.kpage = th[t].kpage /\ r.exe = th[t].exe
          /\ r.fd = th[t].fd /\ th[t].pc # "deactivate"
      BY <1>1, <2>2, <2>4, Zenon DEF Like
    <3>2. UNCHANGED <<kpage, frames, next_tid, current, cr3, file>>  BY <1>4, SMTT(30)
    <3> QED  BY <1>1, <2>0, <2>3, <2>5, <3>1, <3>2, OneStep, Zenon
  <2>7. /\ th'[t].pc = q /\ th'[t].ctid = th[t].ctid /\ th'[t].load_sema = th[t].load_sema
        /\ "get_child" \in Execing
        /\ {"get_child", "wait", "wait_down", "load_down"} \cap (Creating \cup Loading) = {}
        /\ "wait_down" \notin Execing
    BY <2>4, <2>6 DEF Like, Execing, Creating, Loading
  <2>8. ExecInv'  BY <1>1, <2>2, <2>6, <2>7, ExecKeeps, Zenon
  <2>9. LoadInv'  BY <1>1, <2>2, <2>6, <2>7, LoadKeeps, Zenon
  <2>10. LockInv'  BY <1>1, <1>4, <2>2, <2>6, <2>7, LockKeeps, Zenon
  <2> QED  BY <1>1, <1>4, <2>6, <2>8, <2>9, <2>10, Zenon DEF ProcInv, TypeOK
<1> QED  BY <1>2, <1>3, <1>4, Zenon DEF GetChild, TID_ERROR

\* exec() reads load_succeeded of the child.
LEMMA LoadReadStep ==
  ASSUME ProcInv, NEW t \in Thread, LoadRead(t)
  PROVE  ProcInv'
<1> DEFINE i == IF th[th[t].child].load_succeeded THEN th[t].ctid ELSE 0
           r == [th[t] EXCEPT !.ctid = i, !.child = NULL, !.pc = "user"]
<1>1. /\ Alive(t) /\ th[t].pc = "load_read" /\ th[t] \in ThreadType /\ LocalOK(th[t])
  BY AtFacts, Zenon DEF LoadRead
<1>2. CASE wild
  BY <1>2, StopStep, Zenon DEF wild
<1>3. CASE /\ Set(t, r)
           /\ UNCHANGED <<current, cr3, kpage, frames, file, file_lock, next_tid, stopped>>
  <2>1. i \in 0..MaxTid  BY <1>1, ProcessAssumption DEF ThreadType
  <2>2. "user" \in Label /\ NULL \in Ptr(Thread)  BY Zenon DEF Label, Ptr
  <2> HIDE DEF i
  <2>3. r \in ThreadType  BY <1>1, <2>1, <2>2, ZenonT(30) DEF ThreadType
  <2>4. Like(r, th[t]) /\ r.pc = "user"  BY <1>1 DEF ThreadType, Like
  <2> HIDE DEF r, LocalOK
  <2>5. QuietMove(th[t].pc, r.pc)  BY <1>1, <2>4, Zenon DEF QuietMove
  <2> QED  BY <1>1, <1>3, <2>3, <2>4, <2>5, SetStep, Zenon
<1> QED  BY <1>2, <1>3, Zenon DEF LoadRead, TID_ERROR
=============================================================================
