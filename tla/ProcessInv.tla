----------------------------- MODULE ProcessInv -----------------------------
(***************************************************************************)
(* The inductive invariant of Process, what each of its parts needs of a   *)
(* step, and what it implies.                                              *)
(*                                                                         *)
(* ProcInv says what one struct thread may hold at each label (LocalInv),  *)
(* how the tids name the threads (TidInv), what a parent in exec() and its *)
(* child know of one another (ExecInv, LoadInv), who has file_lock, the    *)
(* files and the CPU (LockInv, FileInv, CpuInv), that every page of the    *)
(* kernel pool is what its owner takes it for and has one owner (PageInv), *)
(* and that every frame in use is mapped, or being filled, once            *)
(* (FrameInv).  ProcessSteps and ProcessProofs show that the steps keep it.*)
(***************************************************************************)
EXTENDS Process, TLAPS

\* There is a struct thread in the page t.
Alive(t) == th[t] # NULL

\* The labels of a parent in exec(): in thread_create() after the struct
\* thread of the child is made, with the arguments of exec() in its hands, and
\* until it knows how the load ended.
Creating == {"fd_table", "push"}

Calls == {"create", "free_params"} \cup Creating

Execing == Creating \cup {"get_child", "load_down", "load_read"}

\* The labels of a child: with a frame to map, and with its executable open.
Installing == {"install", "install_stack"}

HasExe == {"header", "segment", "stack", "close_exe"} \cup Installing

\* What the struct thread r holds at each of its labels.
LocalOK(r) ==
  /\ r.wait_sema = 0
  /\ r.load_sema # 0 => r.pc \notin Loading \cup {"new"}
  /\ r.pc \in Loading \cup {"new"} => r.fd = <<>>
  /\ r.exe # NULL => r.pc \in HasExe
  /\ r.new # NULL <=> r.pc \in Calls
  /\ r.params # NULL <=> r.pc \in Loading \cup {"free_own"}
  /\ r.kpage # NULL <=> r.pc \in Installing
  /\ r.pc \in Installing => r.upage \in UPage
  /\ r.pc \in {"new", "pagedir", "deactivate", "destroy", "die"} => r.pagedir = NULL
  /\ r.pc \in {"open_exe", "header", "segment", "stack", "clear"} \cup Installing
       => r.pagedir # NULL
  /\ r.pd # NULL <=> r.pc \in {"clear", "deactivate", "destroy"}
  /\ r.pc = "clear" => r.pd = r.pagedir
  /\ r.pc \in {"load_down", "load_read", "wait_down", "wait_asleep"} => r.child # NULL

\* Every struct thread holds what its label says.
LocalInv == \A t \in Thread : Alive(t) => LocalOK(th[t])

\* Tids are not reused.
TidInv ==
  /\ \A t \in Thread : Alive(t) => th[t].tid < next_tid
  /\ \A t, u \in Thread : Alive(t) /\ Alive(u) /\ th[t].tid = th[u].tid => t = u

\* A parent in thread_create() has its child, which has not run; the tid that
\* exec() returned to it is not its own, and no other parent has it.
ExecInv ==
  /\ \A t \in Thread : Alive(t) /\ th[t].pc \in Creating =>
       /\ th[t].child \in Thread /\ Alive(th[t].child)
       /\ th[th[t].child].pc = "new" /\ th[th[t].child].tid = th[t].ctid
  /\ \A t \in Thread : Alive(t) /\ th[t].pc \in Execing =>
       th[t].ctid < next_tid /\ th[t].ctid # th[t].tid
  /\ \A t, u \in Thread :
       /\ Alive(t) /\ th[t].pc \in Execing
       /\ Alive(u) /\ th[u].pc \in Execing
       /\ th[t].ctid = th[u].ctid
       => t = u

\* The child of a parent that will wait for load_sema is loading, or has raised
\* the semaphore; the child of one that has waited is loaded.
LoadInv ==
  \A t, c \in Thread : Alive(t) /\ Alive(c) /\ th[c].tid = th[t].ctid =>
    /\ th[t].pc \in {"get_child", "load_down"} =>
         th[c].pc \in Loading \/ th[c].load_sema # 0
    /\ th[t].pc = "load_read" => th[c].pc \notin Loading \cup {"new"}

\* file_lock has a live holder, and who is inside the file system has it.
LockInv ==
  /\ FileLockLive
  /\ \A t \in Thread : Alive(t) /\ th[t].pc \in {"open", "transfer"} => file_lock = t

\* The files of a process are open, its own, and in one place each.
FileInv ==
  \A t \in Thread : Alive(t) =>
    /\ th[t].exe # NULL => file[th[t].exe] = th[t].tid
    /\ \A i \in DOMAIN th[t].fd : th[t].fd[i] # NULL =>
         /\ file[th[t].fd[i]] = th[t].tid
         /\ \A j \in DOMAIN th[t].fd : th[t].fd[j] = th[t].fd[i] => i = j

\* The CPU translates with the directory of the thread it runs, or, when that
\* is about to leave it, with the one to be destroyed.
CpuInv ==
  IF current = "idle" THEN cr3 = NULL ELSE
    /\ Alive(current) /\ th[current].pc # "new"
    /\ \/ cr3 = th[current].pagedir
       \/ th[current].pc = "deactivate" /\ cr3 = th[current].pd

\* The page directory of t, also when process_exit() has cleared the pointer.
Dir(t) == IF th[t].pagedir # NULL THEN th[t].pagedir ELSE th[t].pd

\* The page k is in use, as what kind says.
Holds(k, kind) == kpage[k] # NULL /\ kpage[k].kind = kind

\* The pages of t are what t takes them for.
Roles(t) ==
  /\ th[t].params # NULL => Holds(th[t].params, "params")
  /\ th[t].new # NULL => Holds(th[t].new, "params")
  /\ th[t].fd_table # NULL => Holds(th[t].fd_table, "fd_table")
  /\ Dir(t) # NULL =>
       /\ Holds(Dir(t), "pagedir")
       /\ \A e \in Pde : kpage[Dir(t)].pt[e] # NULL => Holds(kpage[Dir(t)].pt[e], "pt")

\* No thread has a pointer to a page that was freed or became something else.
RoleInv == \A t \in Thread : Alive(t) => Roles(t)

\* The page k is one of t.
Own(t, k) ==
  /\ Alive(t)
  /\ \/ k \in {th[t].params, th[t].new, th[t].fd_table, Dir(t)}
     \/ Dir(t) # NULL /\ \E e \in Pde : kpage[Dir(t)].pt[e] = k

\* A page in use has an owner, but for an fd_table, which nobody frees; and no
\* page has two.
OwnInv ==
  /\ \A k \in KPage : kpage[k] # NULL => kpage[k].kind = "fd_table" \/ \E t \in Thread : Own(t, k)
  /\ \A t, u \in Thread, k \in KPage : Own(t, k) /\ Own(u, k) => t = u

\* Only page directories map frames.
PlainInv ==
  \A k \in KPage : kpage[k] # NULL /\ kpage[k].kind # "pagedir" =>
    \A u \in UPage : kpage[k].map[u] = NULL

\* The page directory k maps u to the frame f.
Maps(k, u, f) == kpage[k] # NULL /\ kpage[k].map[u] = f

\* load() of thread t has the frame f and has not mapped it yet.
Fills(t, f) == Alive(t) /\ th[t].kpage = f

\* The frame f is in the hands of somebody.
Held(f) == \/ \E k \in KPage, u \in UPage : Maps(k, u, f)
           \/ \E t \in Thread : Fills(t, f)

\* The frame f is in use iff somebody has it, and then just one.
FrameOK(f) ==
  /\ f \in frames <=> Held(f)
  /\ \A k, j \in KPage, u, v \in UPage : Maps(k, u, f) /\ Maps(j, v, f) => k = j /\ u = v
  /\ \A t, u \in Thread : Fills(t, f) /\ Fills(u, f) => t = u
  /\ \A t \in Thread, k \in KPage, u \in UPage : ~(Fills(t, f) /\ Maps(k, u, f))

\* No frame is lost, and none is shared.
FrameInv == \A f \in Frame : FrameOK(f)

\* The invariant of the kernel pool.
PageInv == RoleInv /\ OwnInv /\ PlainInv

\* The inductive invariant.
ProcInv ==
  /\ TypeOK /\ LocalInv /\ TidInv /\ ExecInv /\ LoadInv /\ LockInv /\ FileInv
  /\ CpuInv /\ PageInv /\ FrameInv

-----------------------------------------------------------------------------
(* Types, and the parts of the invariant about threads.                    *)

\* NULL points to nothing, and idle is no process.
LEMMA NullIsNone ==
  /\ NULL \notin Thread /\ NULL \notin File /\ NULL \notin KPage /\ NULL \notin Frame
  /\ NULL \notin ThreadType /\ NULL \notin Content /\ NULL \notin Nat /\ "idle" \notin Thread
<1>1. NULL \notin Thread \cup File \cup Nat \cup ThreadType \cup Content /\ "idle" \notin Thread
  BY ProcessAssumption, Zenon
<1>2. KPage \subseteq Nat /\ Frame \subseteq Nat  BY DEF KPage, Frame
<1> QED  BY <1>1, <1>2, Zenon

\* A live thread has a struct thread.
LEMMA AliveType ==
  ASSUME TypeOK, NEW t \in Thread, Alive(t)
  PROVE  th[t] \in ThreadType
  BY DEF TypeOK, Alive, Ptr

\* Only the struct thread of t changes, and not its tid.
OneThread(t) ==
  /\ Alive(t) /\ Alive(t)'
  /\ \A u \in Thread \ {t} : th'[u] = th[u]
  /\ th'[t].tid = th[t].tid
  /\ next_tid' = next_tid

\* What an assignment to the struct thread of t does.
LEMMA SetType ==
  ASSUME TypeOK, NEW t \in Thread, NEW r \in ThreadType, Set(t, r)
  PROVE  /\ th' \in [Thread -> Ptr(ThreadType)]
         /\ th'[t] = r /\ Alive(t)'
         /\ \A u \in Thread \ {t} : th'[u] = th[u]
<1>1. th \in [Thread -> Ptr(ThreadType)]  BY Zenon DEF TypeOK
<1>2. r \in Ptr(ThreadType) /\ r # NULL  BY NullIsNone, Zenon DEF Ptr
<1> QED  BY <1>1, <1>2, Zenon DEF Set, Alive

\* A step of one thread to a state that its label allows keeps LocalInv.
LEMMA LocalKeeps ==
  ASSUME LocalInv, NEW t \in Thread, OneThread(t), LocalOK(th'[t])
  PROVE  LocalInv'
<1> SUFFICES ASSUME NEW u \in Thread, Alive(u)'
             PROVE  LocalOK(th'[u])
  BY Zenon DEF LocalInv, LocalOK
<1>1. u # t => Alive(u) /\ th'[u] = th[u]  BY Zenon DEF OneThread, Alive
<1>2. Alive(u) => LocalOK(th[u])  BY Zenon DEF LocalInv
<1> HIDE DEF LocalOK
<1> QED  BY <1>1, <1>2, Zenon

\* A step of one thread that makes no tid keeps TidInv.
LEMMA TidKeeps ==
  ASSUME TidInv, NEW t \in Thread, OneThread(t)
  PROVE  TidInv'
<1>1. \A u \in Thread : (Alive(u)' <=> Alive(u)) /\ th'[u].tid = th[u].tid
  BY Zenon DEF OneThread, Alive
<1>2. next_tid' = next_tid  BY Zenon DEF OneThread
<1> QED  BY <1>1, <1>2, Zenon DEF TidInv

\* What ExecInv needs of a step of one thread.
LEMMA ExecKeeps ==
  ASSUME ExecInv, NEW t \in Thread, OneThread(t), th[t].pc # "new",
         th'[t].pc \in Execing => th[t].pc \in Execing /\ th'[t].ctid = th[t].ctid,
         th'[t].pc \in Creating => th[t].pc \in Creating /\ th'[t].child = th[t].child
  PROVE  ExecInv'
<1> USE DEF OneThread, Alive
<1>1. ASSUME NEW u \in Thread, Alive(u)', th'[u].pc \in Creating
      PROVE  /\ th'[u].child \in Thread /\ th'[th'[u].child] # NULL
             /\ th'[th'[u].child].pc = "new" /\ th'[th'[u].child].tid = th'[u].ctid
  <2>1. /\ Alive(u) /\ th[u].pc \in Creating
        /\ th'[u].child = th[u].child /\ th'[u].ctid = th[u].ctid
    BY <1>1, Zenon DEF Execing
  <2>2. /\ th[u].child \in Thread /\ Alive(th[u].child)
        /\ th[th[u].child].pc = "new" /\ th[th[u].child].tid = th[u].ctid
    BY <2>1, Zenon DEF ExecInv
  <2>3. th[u].child # t  BY <2>2, Zenon
  <2>4. th'[th[u].child] = th[th[u].child]  BY <2>2, <2>3, Zenon
  <2> QED  BY <2>1, <2>2, <2>4, Zenon
<1>2. ASSUME NEW u \in Thread, Alive(u)', th'[u].pc \in Execing
      PROVE  Alive(u) /\ th[u].pc \in Execing /\ th'[u].ctid = th[u].ctid
  BY <1>2, Zenon
<1>3. ASSUME NEW u \in Thread, Alive(u)', th'[u].pc \in Execing
      PROVE  th'[u].ctid < next_tid' /\ th'[u].ctid # th'[u].tid
  <2>1. th'[u].tid = th[u].tid /\ next_tid' = next_tid  BY <1>3, Zenon
  <2>2. Alive(u) /\ th[u].pc \in Execing /\ th'[u].ctid = th[u].ctid  BY <1>2, <1>3, Zenon
  <2> QED  BY <2>1, <2>2, Zenon DEF ExecInv
<1>4. ASSUME NEW u \in Thread, NEW v \in Thread,
             Alive(u)', th'[u].pc \in Execing, Alive(v)', th'[v].pc \in Execing,
             th'[u].ctid = th'[v].ctid
      PROVE  u = v
  <2>1. Alive(u) /\ th[u].pc \in Execing /\ th'[u].ctid = th[u].ctid  BY <1>2, <1>4, Zenon
  <2>2. Alive(v) /\ th[v].pc \in Execing /\ th'[v].ctid = th[v].ctid  BY <1>2, <1>4, Zenon
  <2>3. th[u].ctid = th[v].ctid  BY <2>1, <2>2, <1>4, Zenon
  <2> QED  BY <2>1, <2>2, <2>3, Zenon DEF ExecInv
<1> QED  BY <1>1, <1>3, <1>4, Zenon DEF ExecInv

\* What LoadInv needs of a step of one thread.
LEMMA LoadKeeps ==
  ASSUME LoadInv, NEW t \in Thread, OneThread(t),
         th'[t].pc \in {"get_child", "load_down"} =>
           th[t].pc \in {"get_child", "load_down"} /\ th'[t].ctid = th[t].ctid,
         th'[t].pc # "load_read",
         th[t].pc \in Loading \/ th[t].load_sema # 0 =>
           th'[t].pc \in Loading \/ th'[t].load_sema # 0,
         th[t].pc \notin Loading \cup {"new"} => th'[t].pc \notin Loading \cup {"new"}
  PROVE  LoadInv'
<1> USE DEF OneThread, Alive
<1> SUFFICES ASSUME NEW u \in Thread, NEW c \in Thread, Alive(u)', Alive(c)',
                    th'[c].tid = th'[u].ctid
             PROVE  /\ th'[u].pc \in {"get_child", "load_down"} =>
                         th'[c].pc \in Loading \/ th'[c].load_sema # 0
                    /\ th'[u].pc = "load_read" => th'[c].pc \notin Loading \cup {"new"}
  BY Zenon DEF LoadInv
<1>1. Alive(u) /\ Alive(c) /\ th'[c].tid = th[c].tid  BY Zenon
<1>2. ASSUME th'[u].pc \in {"get_child", "load_down"}
      PROVE  th'[c].pc \in Loading \/ th'[c].load_sema # 0
  <2>1. th[u].pc \in {"get_child", "load_down"} /\ th'[u].ctid = th[u].ctid  BY <1>2, Zenon
  <2>2. th[c].pc \in Loading \/ th[c].load_sema # 0  BY <1>1, <2>1, Zenon DEF LoadInv
  <2> QED  BY <2>2, Zenon
<1>3. ASSUME th'[u].pc = "load_read"
      PROVE  th'[c].pc \notin Loading \cup {"new"}
  <2>1. u # t  BY <1>3, Zenon
  <2>2. th[u].pc = "load_read" /\ th[u].ctid = th'[u].ctid  BY <2>1, <1>3, Zenon
  <2>3. th[c].pc \notin Loading \cup {"new"}  BY <1>1, <2>2, Zenon DEF LoadInv
  <2> QED  BY <2>3, Zenon
<1> QED  BY <1>2, <1>3, Zenon

\* What LockInv needs of a step of one thread.
LEMMA LockKeeps ==
  ASSUME LockInv, NEW t \in Thread, OneThread(t), file_lock' = file_lock, TypeOK,
         th'[t].pc \in {"open", "transfer"} <=> th[t].pc \in {"open", "transfer"}
  PROVE  LockInv'
<1>1. file_lock # NULL => file_lock \in Thread  BY Zenon DEF TypeOK, Ptr
<1> QED  BY <1>1, Zenon DEF LockInv, FileLockLive, OneThread, Alive

\* A step of one thread that leaves its files alone keeps FileInv.
LEMMA FileKeeps ==
  ASSUME FileInv, NEW t \in Thread, OneThread(t), file' = file,
         th'[t].exe = th[t].exe, th'[t].fd = th[t].fd
  PROVE  FileInv'
<1> SUFFICES ASSUME NEW u \in Thread, Alive(u)'
             PROVE  /\ th'[u].exe # NULL => file'[th'[u].exe] = th'[u].tid
                    /\ \A i \in DOMAIN th'[u].fd : th'[u].fd[i] # NULL =>
                         /\ file'[th'[u].fd[i]] = th'[u].tid
                         /\ \A j \in DOMAIN th'[u].fd : th'[u].fd[j] = th'[u].fd[i] => i = j
  BY Zenon DEF FileInv
<1>1. Alive(u) /\ th'[u].exe = th[u].exe /\ th'[u].fd = th[u].fd /\ th'[u].tid = th[u].tid
  BY Zenon DEF OneThread, Alive
<1> QED  BY <1>1 DEF FileInv

\* What CpuInv needs of a step of one thread.
LEMMA CpuKeeps ==
  ASSUME CpuInv, NEW t \in Thread, OneThread(t), UNCHANGED <<current, cr3>>,
         th'[t].pagedir = th[t].pagedir, th[t].pc # "deactivate", th'[t].pc # "new",
         TypeOK
  PROVE  CpuInv'
<1>1. current # "idle" => current \in Thread  BY Zenon DEF TypeOK
<1> QED  BY <1>1, Zenon DEF CpuInv, OneThread, Alive

-----------------------------------------------------------------------------
(* Frames.                                                                 *)

\* How a step changes what is mapped and who fills which frame.
SameMaps ==
  \A k \in KPage, u \in UPage, f \in Frame : Maps(k, u, f)' <=> Maps(k, u, f)

Mapped(pd, up, f) ==
  \A k \in KPage, u \in UPage, g \in Frame :
    Maps(k, u, g)' <=> Maps(k, u, g) \/ (k = pd /\ u = up /\ g = f)

Unmapped(pd) ==
  \A k \in KPage, u \in UPage, g \in Frame : Maps(k, u, g)' <=> Maps(k, u, g) /\ k # pd

SameFills ==
  \A t \in Thread, f \in Frame : Fills(t, f)' <=> Fills(t, f)

Filled(o, f) ==
  \A t \in Thread, g \in Frame : Fills(t, g)' <=> Fills(t, g) \/ (t = o /\ g = f)

Emptied(o, f) ==
  \A t \in Thread, g \in Frame : Fills(t, g)' <=> Fills(t, g) /\ ~(t = o /\ g = f)

\* A frame that stays in the same hands stays in one.
LEMMA FrameStays ==
  ASSUME NEW f \in Frame, FrameOK(f), f \in frames' <=> f \in frames,
         \A k \in KPage, u \in UPage : Maps(k, u, f)' <=> Maps(k, u, f),
         \A t \in Thread : Fills(t, f)' <=> Fills(t, f)
  PROVE  FrameOK(f)'
<1>1. Held(f)' <=> Held(f)  BY Zenon DEF Held
<1>2. f \in frames' <=> Held(f)'  BY <1>1, Zenon DEF FrameOK
<1>3. \A k, j \in KPage, u, v \in UPage : Maps(k, u, f)' /\ Maps(j, v, f)' => k = j /\ u = v
  BY Zenon DEF FrameOK
<1>4. \A t, u \in Thread : Fills(t, f)' /\ Fills(u, f)' => t = u
  BY Zenon DEF FrameOK
<1>5. \A t \in Thread, k \in KPage, u \in UPage : ~(Fills(t, f)' /\ Maps(k, u, f)')
  BY Zenon DEF FrameOK
<1> QED  BY <1>2, <1>3, <1>4, <1>5, Zenon DEF FrameOK

\* A step that maps, fills, takes and gives back no frame keeps FrameInv.
LEMMA FrameKeeps ==
  ASSUME FrameInv, frames' = frames,
         SameMaps,
         SameFills
  PROVE  FrameInv'
  BY FrameStays, Zenon DEF FrameInv, SameMaps, SameFills

-----------------------------------------------------------------------------
(* Pages of the kernel pool.                                               *)

\* The pages of u stay the same.
SameRoles(u) ==
  /\ Alive(u)' <=> Alive(u)
  /\ Alive(u) =>
       /\ th'[u].params = th[u].params /\ th'[u].new = th[u].new
       /\ th'[u].fd_table = th[u].fd_table /\ Dir(u)' = Dir(u)

\* So do those of all but o.
OthersKeep(o) == \A u \in Thread \ {o} : SameRoles(u)

\* The pointers of a thread are pointers to pages.
LEMMA RoleTypes ==
  ASSUME TypeOK, NEW t \in Thread, Alive(t)
  PROVE  /\ th[t].params \in Ptr(KPage) /\ th[t].new \in Ptr(KPage)
         /\ th[t].fd_table \in Ptr(KPage) /\ th[t].pagedir \in Ptr(KPage)
         /\ th[t].pd \in Ptr(KPage) /\ Dir(t) \in Ptr(KPage)
<1>1. th[t] \in ThreadType  BY AliveType
<1>2. /\ th[t].params \in Ptr(KPage) /\ th[t].new \in Ptr(KPage)
      /\ th[t].fd_table \in Ptr(KPage) /\ th[t].pagedir \in Ptr(KPage)
      /\ th[t].pd \in Ptr(KPage)
  BY <1>1 DEF ThreadType
<1> QED  BY <1>2, Zenon DEF Dir

\* What a page in use holds.
LEMMA PageTypes ==
  ASSUME TypeOK, NEW k \in KPage, kpage[k] # NULL
  PROVE  /\ kpage[k] \in Content
         /\ kpage[k].pt \in [Pde -> Ptr(KPage)]
         /\ kpage[k].map \in [UPage -> Ptr(Frame)]
<1>1. kpage[k] \in Content  BY Zenon DEF TypeOK, Ptr
<1> QED  BY <1>1 DEF Content

\* A page with an owner is in use.
LEMMA OwnHeld ==
  ASSUME RoleInv, NEW t \in Thread, NEW k \in KPage, Own(t, k)
  PROVE  kpage[k] # NULL
<1>1. k # NULL  BY NullIsNone, Zenon
<1>2. Roles(t)  BY Zenon DEF RoleInv, Own
<1> QED  BY <1>1, <1>2, Zenon DEF Own, Roles, Holds

\* A thread whose pages are the same, and hold the same, owns the same.
LEMMA OwnKeeps ==
  ASSUME NEW u \in Thread, SameRoles(u), TypeOK,
         \A k \in KPage : Own(u, k) => kpage'[k] = kpage[k]
  PROVE  /\ Alive(u) => Dir(u)' = Dir(u)
         /\ \A k \in KPage : Own(u, k)' <=> Own(u, k)
         /\ (Alive(u) => Roles(u)) => (Alive(u)' => Roles(u)')
<1>1. ASSUME Alive(u) PROVE Dir(u)' = Dir(u)
  BY <1>1, Zenon DEF SameRoles
<1>2. ASSUME Alive(u), Dir(u) # NULL PROVE kpage'[Dir(u)] = kpage[Dir(u)]
  <2>1. Dir(u) \in KPage  BY <1>2, RoleTypes, Zenon DEF Ptr
  <2>2. Own(u, Dir(u))  BY <1>2, Zenon DEF Own
  <2> QED  BY <2>1, <2>2, Zenon
<1>3. ASSUME NEW k \in KPage PROVE Own(u, k)' <=> Own(u, k)
  <2>1. CASE Alive(u)
    <3>1. /\ Alive(u)' /\ Dir(u)' = Dir(u)
          /\ th'[u].params = th[u].params /\ th'[u].new = th[u].new
          /\ th'[u].fd_table = th[u].fd_table
      BY <1>1, <2>1, Zenon DEF SameRoles
    <3>2. CASE Dir(u) = NULL  BY <3>1, <3>2, <2>1, Zenon DEF Own
    <3>3. CASE Dir(u) # NULL
      <4>1. kpage'[Dir(u)] = kpage[Dir(u)]  BY <1>2, <2>1, <3>3, Zenon
      <4> QED  BY <4>1, <3>1, <2>1, <3>3, Zenon DEF Own
    <3> QED  BY <3>2, <3>3, Zenon
  <2>2. CASE ~Alive(u)  BY <2>2, Zenon DEF SameRoles, Own
  <2> QED  BY <2>1, <2>2, Zenon
<1>4. ASSUME Alive(u), Roles(u) PROVE Roles(u)'
  <2>1. /\ Dir(u)' = Dir(u)
        /\ th'[u].params = th[u].params /\ th'[u].new = th[u].new
        /\ th'[u].fd_table = th[u].fd_table
    BY <1>1, <1>4, Zenon DEF SameRoles
  <2>2. ASSUME NEW k \in Ptr(KPage), k # NULL, Own(u, k) PROVE kpage'[k] = kpage[k]
    BY <2>2, Zenon DEF Ptr
  <2>3. th[u].params # NULL => kpage'[th[u].params] = kpage[th[u].params]
    BY <2>2, <1>4, RoleTypes, Zenon DEF Own
  <2>4. th[u].new # NULL => kpage'[th[u].new] = kpage[th[u].new]
    BY <2>2, <1>4, RoleTypes, Zenon DEF Own
  <2>5. th[u].fd_table # NULL => kpage'[th[u].fd_table] = kpage[th[u].fd_table]
    BY <2>2, <1>4, RoleTypes, Zenon DEF Own
  <2>6. ASSUME Dir(u) # NULL, NEW e \in Pde, kpage[Dir(u)].pt[e] # NULL
        PROVE  kpage'[kpage[Dir(u)].pt[e]] = kpage[kpage[Dir(u)].pt[e]]
    <3>1. Dir(u) \in KPage /\ kpage[Dir(u)] # NULL
      BY <2>6, <1>4, RoleTypes, Zenon DEF Roles, Holds, Ptr
    <3>2. kpage[Dir(u)].pt[e] \in Ptr(KPage)  BY <3>1, PageTypes
    <3>3. Own(u, kpage[Dir(u)].pt[e])  BY <1>4, <2>6, Zenon DEF Own
    <3> QED  BY <3>2, <3>3, <2>2, <2>6, Zenon
  <2>7. Dir(u) # NULL => kpage'[Dir(u)] = kpage[Dir(u)]  BY <1>2, <1>4, Zenon
  <2>8. /\ th'[u].params # NULL => Holds(th[u].params, "params")'
        /\ th'[u].new # NULL => Holds(th[u].new, "params")'
        /\ th'[u].fd_table # NULL => Holds(th[u].fd_table, "fd_table")'
    <3>1. /\ th[u].params # NULL => Holds(th[u].params, "params")
          /\ th[u].new # NULL => Holds(th[u].new, "params")
          /\ th[u].fd_table # NULL => Holds(th[u].fd_table, "fd_table")
      BY <1>4, Zenon DEF Roles
    <3> QED  BY <3>1, <2>1, <2>3, <2>4, <2>5, Zenon DEF Holds
  <2>9. Dir(u)' # NULL =>
          /\ Holds(Dir(u), "pagedir")'
          /\ \A e \in Pde : kpage'[Dir(u)'].pt[e] # NULL => Holds(kpage[Dir(u)].pt[e], "pt")'
    <3> SUFFICES ASSUME Dir(u) # NULL
                 PROVE  /\ Holds(Dir(u), "pagedir")'
                        /\ \A e \in Pde : kpage'[Dir(u)'].pt[e] # NULL =>
                             Holds(kpage[Dir(u)].pt[e], "pt")'
      BY <2>1, Zenon
    <3>1. kpage'[Dir(u)'] = kpage[Dir(u)]  BY <2>1, <2>7, Zenon
    <3>2. Holds(Dir(u), "pagedir")'  BY <3>1, <1>4, Zenon DEF Roles, Holds
    <3>3. ASSUME NEW e \in Pde, kpage'[Dir(u)'].pt[e] # NULL
          PROVE  Holds(kpage[Dir(u)].pt[e], "pt")'
      <4>1. kpage'[Dir(u)'].pt[e] = kpage[Dir(u)].pt[e] /\ kpage[Dir(u)].pt[e] # NULL
        BY <3>1, <3>3, Zenon
      <4>2. Holds(kpage[Dir(u)].pt[e], "pt")  BY <4>1, <1>4, Zenon DEF Roles
      <4>3. kpage'[kpage[Dir(u)].pt[e]] = kpage[kpage[Dir(u)].pt[e]]  BY <4>1, <2>6, Zenon
      <4> QED  BY <4>1, <4>2, <4>3, Zenon DEF Holds
    <3> QED  BY <3>2, <3>3, Zenon
  <2> QED  BY <2>8, <2>9, Zenon DEF Roles
<1> QED  BY <1>1, <1>3, <1>4, Zenon DEF SameRoles

\* A step that leaves the pages and the pointers to them alone keeps PageInv.
LEMMA PageKeeps ==
  ASSUME PageInv, TypeOK, kpage' = kpage, \A u \in Thread : SameRoles(u)
  PROVE  PageInv'
<1>1. ASSUME NEW u \in Thread
      PROVE  /\ \A k \in KPage : Own(u, k)' <=> Own(u, k)
             /\ Alive(u)' => Roles(u)'
  BY OwnKeeps, Zenon DEF PageInv, RoleInv
<1>2. RoleInv'  BY <1>1, Zenon DEF RoleInv
<1>3. OwnInv'  BY <1>1, Zenon DEF PageInv, OwnInv
<1>4. PlainInv'  BY Zenon DEF PageInv, PlainInv
<1> QED  BY <1>2, <1>3, <1>4 DEF PageInv

\* Holds, after the step.
HoldsNext(k, kind) == kpage'[k] # NULL /\ kpage'[k].kind = kind

\* Roles, after the step.
LEMMA RolesNext ==
  ASSUME NEW o \in Thread,
         th'[o].params # NULL => HoldsNext(th'[o].params, "params"),
         th'[o].new # NULL => HoldsNext(th'[o].new, "params"),
         th'[o].fd_table # NULL => HoldsNext(th'[o].fd_table, "fd_table"),
         Dir(o)' # NULL =>
           /\ HoldsNext(Dir(o)', "pagedir")
           /\ \A e \in Pde : kpage'[Dir(o)'].pt[e] # NULL =>
                HoldsNext(kpage'[Dir(o)'].pt[e], "pt")
  PROVE  Roles(o)'
  BY Zenon DEF Roles, Holds, HoldsNext

\* palloc_get_page (PAL_ZERO) gives a page with nothing in it.
LEMMA Zeroed ==
  ASSUME NEW kind \in {"params", "fd_table", "pagedir", "pt"}
  PROVE  /\ zeroed(kind) \in Content /\ zeroed(kind) # NULL
         /\ zeroed(kind).kind = kind
         /\ \A e \in Pde : zeroed(kind).pt[e] = NULL
         /\ \A u \in UPage : zeroed(kind).map[u] = NULL
<1>1. zeroed(kind) \in Content  BY DEF zeroed, Content, Ptr
<1>2. zeroed(kind).kind = kind  BY DEF zeroed
<1>3. \A e \in Pde : zeroed(kind).pt[e] = NULL  BY DEF zeroed
<1>4. \A u \in UPage : zeroed(kind).map[u] = NULL  BY DEF zeroed
<1> QED  BY <1>1, <1>2, <1>3, <1>4, NullIsNone, Zenon

\* Thread o gets the new page k.
LEMMA PageAlloc ==
  ASSUME PageInv, TypeOK, NEW o \in Thread, NEW k \in KPage,
         NEW kind \in {"params", "fd_table", "pagedir", "pt"}, kpage[k] = NULL,
         kpage' = [kpage EXCEPT ![k] = zeroed(kind)],
         OthersKeep(o),
         Alive(o), Alive(o)', th'[o].params = th[o].params, th'[o].pd = th[o].pd,
         \/ /\ kind = "params" /\ th[o].new = NULL /\ th'[o].new = k
            /\ th'[o].fd_table = th[o].fd_table /\ th'[o].pagedir = th[o].pagedir
         \/ /\ kind = "fd_table" /\ th'[o].fd_table = k
            /\ th'[o].new = th[o].new /\ th'[o].pagedir = th[o].pagedir
         \/ /\ kind = "pagedir" /\ Dir(o) = NULL /\ th'[o].pagedir = k
            /\ th'[o].new = th[o].new /\ th'[o].fd_table = th[o].fd_table
  PROVE  /\ PageInv'
         /\ SameMaps
<1> USE DEF SameMaps, OthersKeep
<1>1. /\ k # NULL /\ kpage'[k] # NULL /\ kpage'[k].kind = kind
      /\ \A e \in Pde : kpage'[k].pt[e] = NULL
      /\ \A u \in UPage : kpage'[k].map[u] = NULL
      /\ \A j \in KPage : j # k => kpage'[j] = kpage[j]
  <2>1. kpage'[k] = zeroed(kind) /\ \A j \in KPage : j # k => kpage'[j] = kpage[j]
    BY Zenon DEF TypeOK
  <2>2. k # NULL  BY NullIsNone, Zenon
  <2> QED  BY <2>1, <2>2, Zeroed
<1>2. \A j \in KPage : kpage[j] # NULL => kpage'[j] = kpage[j]  BY <1>1, Zenon
<1>3. \A u \in Thread : ~Own(u, k)  BY OwnHeld, Zenon DEF PageInv
<1>4. ASSUME NEW u \in Thread, NEW j \in KPage, Own(u, j) PROVE kpage'[j] = kpage[j]
  BY <1>4, <1>1, <1>3, Zenon
<1>5. ASSUME NEW u \in Thread, u # o
      PROVE  (\A j \in KPage : Own(u, j)' <=> Own(u, j)) /\ (Alive(u)' => Roles(u)')
  BY <1>4, <1>5, OwnKeeps, Zenon DEF PageInv, RoleInv
<1>6. Roles(o)  BY Zenon DEF PageInv, RoleInv
<1>8. HoldsNext(k, kind)  BY <1>1, Zenon DEF HoldsNext
<1>7. ASSUME NEW j \in Ptr(KPage), j # NULL, NEW kd, Holds(j, kd) PROVE HoldsNext(j, kd)
  BY <1>7, <1>2, Zenon DEF Holds, HoldsNext, Ptr
<1>a. /\ th[o].params # NULL => HoldsNext(th[o].params, "params")
      /\ th[o].new # NULL => HoldsNext(th[o].new, "params")
      /\ th[o].fd_table # NULL => HoldsNext(th[o].fd_table, "fd_table")
  BY <1>6, <1>7, RoleTypes, Zenon DEF Roles
<1>9. ASSUME Dir(o)' = Dir(o), Dir(o) # NULL
      PROVE  /\ kpage'[Dir(o)] = kpage[Dir(o)] /\ HoldsNext(Dir(o), "pagedir")
             /\ \A e \in Pde : kpage'[Dir(o)].pt[e] # NULL =>
                  HoldsNext(kpage'[Dir(o)].pt[e], "pt")
  <2>1. Dir(o) \in KPage /\ kpage[Dir(o)] # NULL
    BY <1>6, <1>9, RoleTypes, Zenon DEF Ptr, Roles, Holds
  <2>2. kpage'[Dir(o)] = kpage[Dir(o)]  BY <1>2, <2>1, Zenon
  <2>3. HoldsNext(Dir(o), "pagedir")  BY <1>6, <1>9, <2>2, Zenon DEF Roles, Holds, HoldsNext
  <2>4. ASSUME NEW e \in Pde, kpage'[Dir(o)].pt[e] # NULL
        PROVE  HoldsNext(kpage'[Dir(o)].pt[e], "pt")
    <3>1. kpage[Dir(o)].pt[e] \in Ptr(KPage)  BY <2>1, PageTypes
    <3>2. kpage'[Dir(o)].pt[e] = kpage[Dir(o)].pt[e]  BY <2>2, Zenon
    <3>3. Holds(kpage[Dir(o)].pt[e], "pt")  BY <1>6, <1>9, <2>4, <3>2, Zenon DEF Roles
    <3> QED  BY <3>1, <3>2, <3>3, <2>4, <1>7, Zenon
  <2> QED  BY <2>2, <2>3, <2>4, Zenon
<1>b. /\ Own(o, k)' /\ Roles(o)'
      /\ \A j \in KPage : Own(o, j)' => Own(o, j) \/ j = k
      /\ \A j \in KPage : Own(o, j) => Own(o, j)' \/ kpage[j].kind = "fd_table"
  <2>1. CASE kind = "params"
    <3>1. /\ th'[o].new = k /\ th[o].new = NULL /\ th'[o].params = th[o].params
          /\ th'[o].fd_table = th[o].fd_table /\ Dir(o)' = Dir(o)
      BY <2>1, Zenon DEF Dir
    <3>2. Roles(o)'  BY <3>1, <2>1, <1>a, <1>8, <1>9, RolesNext, Zenon
    <3>3. Own(o, k)'  BY <3>1, Zenon DEF Own
    <3>4. \A j \in KPage : Own(o, j)' => Own(o, j) \/ j = k  BY <3>1, <1>9, Zenon DEF Own
    <3>5. \A j \in KPage : Own(o, j) => Own(o, j)'  BY <3>1, <1>9, NullIsNone, Zenon DEF Own
    <3> QED  BY <3>2, <3>3, <3>4, <3>5, Zenon
  <2>2. CASE kind = "fd_table"
    <3>1. /\ th'[o].fd_table = k /\ th'[o].params = th[o].params
          /\ th'[o].new = th[o].new /\ Dir(o)' = Dir(o)
      BY <2>2, Zenon DEF Dir
    <3>2. Roles(o)'  BY <3>1, <2>2, <1>a, <1>8, <1>9, RolesNext, Zenon
    <3>3. Own(o, k)'  BY <3>1, Zenon DEF Own
    <3>4. \A j \in KPage : Own(o, j)' => Own(o, j) \/ j = k  BY <3>1, <1>9, Zenon DEF Own
    <3>5. \A j \in KPage : Own(o, j) /\ j # th[o].fd_table => Own(o, j)'
      BY <3>1, <1>9, Zenon DEF Own
    <3>6. \A j \in KPage : j = th[o].fd_table => kpage[j].kind = "fd_table"
      BY <1>6, NullIsNone, Zenon DEF Roles, Holds
    <3> QED  BY <3>2, <3>3, <3>4, <3>5, <3>6, Zenon
  <2>3. CASE kind = "pagedir"
    <3>1. /\ th'[o].pagedir = k /\ Dir(o) = NULL /\ th'[o].params = th[o].params
          /\ th'[o].new = th[o].new /\ th'[o].fd_table = th[o].fd_table
      BY <2>3, Zenon
    <3>2. Dir(o)' = k  BY <3>1, <1>1, Zenon DEF Dir
    <3>3. Roles(o)'  BY <3>1, <3>2, <2>3, <1>a, <1>8, <1>1, RolesNext, ZenonT(30)
    <3>4. Own(o, k)'  BY <3>2, Zenon DEF Own
    <3>5. \A j \in KPage : Own(o, j)' => Own(o, j) \/ j = k
      BY <3>1, <3>2, <1>1, NullIsNone, ZenonT(30) DEF Own
    <3>6. \A j \in KPage : Own(o, j) => Own(o, j)'  BY <3>1, NullIsNone, Zenon DEF Own
    <3> QED  BY <3>3, <3>4, <3>5, <3>6, Zenon
  <2> QED  BY <2>1, <2>2, <2>3, Zenon
<1>c. RoleInv'  BY <1>5, <1>b, Zenon DEF RoleInv
<1>d. ASSUME NEW j \in KPage, kpage'[j] # NULL
      PROVE  kpage'[j].kind = "fd_table" \/ \E t \in Thread : Own(t, j)'
  <2>1. CASE j = k  BY <2>1, <1>b, Zenon
  <2>2. CASE j # k
    <3>1. kpage'[j] = kpage[j]  BY <2>2, <1>1, Zenon
    <3>2. kpage[j].kind = "fd_table" \/ \E t \in Thread : Own(t, j)
      BY <3>1, <1>d, Zenon DEF PageInv, OwnInv
    <3> QED  BY <3>1, <3>2, <1>5, <1>b, Zenon
  <2> QED  BY <2>1, <2>2, Zenon
<1>e. ASSUME NEW t \in Thread, NEW u \in Thread, NEW j \in KPage, Own(t, j)', Own(u, j)'
      PROVE  t = u
  <2>1. CASE j = k  BY <2>1, <1>e, <1>3, <1>5, Zenon
  <2>2. CASE j # k
    <3>1. Own(t, j) /\ Own(u, j)  BY <2>2, <1>e, <1>5, <1>b, Zenon
    <3> QED  BY <3>1, Zenon DEF PageInv, OwnInv
  <2> QED  BY <2>1, <2>2, Zenon
<1>f. ASSUME NEW j \in KPage, kpage'[j] # NULL, kpage'[j].kind # "pagedir", NEW u \in UPage
      PROVE  kpage'[j].map[u] = NULL
  <2>1. CASE j = k  BY <2>1, <1>1, Zenon
  <2>2. CASE j # k
    <3>1. kpage'[j] = kpage[j]  BY <2>2, <1>1, Zenon
    <3> QED  BY <3>1, <1>f, Zenon DEF PageInv, PlainInv
  <2> QED  BY <2>1, <2>2, Zenon
<1>g. ASSUME NEW j \in KPage, NEW u \in UPage, NEW f \in Frame
      PROVE  Maps(j, u, f)' <=> Maps(j, u, f)
  <2>1. f # NULL  BY NullIsNone, Zenon
  <2>2. CASE j = k  BY <1>1, <2>1, <2>2, Zenon DEF Maps
  <2>3. CASE j # k  BY <1>1, <2>3, Zenon DEF Maps
  <2> QED  BY <2>2, <2>3, Zenon
<1>h. OwnInv'  BY <1>d, <1>e, Zenon DEF OwnInv
<1>i. PlainInv'  BY <1>f, Zenon DEF PlainInv
<1> QED  BY <1>c, <1>h, <1>i, <1>g, Zenon DEF PageInv

\* Thread o gives back the page k of the arguments.
LEMMA PageFree ==
  ASSUME PageInv, TypeOK, NEW o \in Thread, NEW k \in KPage,
         kpage' = [kpage EXCEPT ![k] = NULL],
         OthersKeep(o),
         Alive(o), Alive(o)', th'[o].fd_table = th[o].fd_table,
         th'[o].pagedir = th[o].pagedir, th'[o].pd = th[o].pd,
         \/ th[o].params = k /\ th[o].new = NULL
         \/ th[o].new = k /\ th[o].params = NULL,
         th'[o].params = NULL /\ th'[o].new = NULL
  PROVE  /\ PageInv'
         /\ SameMaps
<1> USE DEF SameMaps, OthersKeep
<1>1. kpage'[k] = NULL /\ \A j \in KPage : j # k => kpage'[j] = kpage[j]
  BY Zenon DEF TypeOK
<1>2. Roles(o) /\ k # NULL  BY NullIsNone, Zenon DEF PageInv, RoleInv
<1>3. Own(o, k)  BY Zenon DEF Own
<1>4. Holds(k, "params")  BY <1>2, Zenon DEF Roles
<1>5. ASSUME NEW u \in Thread, u # o
      PROVE  (\A j \in KPage : Own(u, j)' <=> Own(u, j)) /\ (Alive(u)' => Roles(u)')
  <2>0. ~Own(u, k)  BY <1>3, <1>5, Zenon DEF PageInv, OwnInv
  <2>1. \A j \in KPage : Own(u, j) => kpage'[j] = kpage[j]  BY <1>1, <2>0, Zenon
  <2> QED  BY <2>1, <1>5, OwnKeeps, Zenon DEF PageInv, RoleInv
<1>6. ASSUME NEW j \in Ptr(KPage), NEW kd \in {"fd_table", "pagedir", "pt"}, j # NULL, Holds(j, kd)
      PROVE  HoldsNext(j, kd) /\ kpage'[j] = kpage[j] /\ j # k
  <2>1. j # k  BY <1>6, <1>4 DEF Holds
  <2> QED  BY <2>1, <1>1, <1>6, Zenon DEF Holds, HoldsNext, Ptr
<1>7. /\ Dir(o)' = Dir(o) /\ th'[o].fd_table # k /\ Dir(o) # k
      /\ Dir(o) # NULL =>
           /\ kpage'[Dir(o)] = kpage[Dir(o)]
           /\ \A e \in Pde : kpage[Dir(o)].pt[e] # k
  <2>1. Dir(o)' = Dir(o)  BY Zenon DEF Dir
  <2>2. th'[o].fd_table # k  BY <1>2, <1>6, RoleTypes, Zenon DEF Roles
  <2>3. Dir(o) # k /\ (Dir(o) # NULL => kpage'[Dir(o)] = kpage[Dir(o)])
    BY <1>2, <1>6, RoleTypes, Zenon DEF Roles
  <2>4. ASSUME Dir(o) # NULL, NEW e \in Pde PROVE kpage[Dir(o)].pt[e] # k
    <3>1. Dir(o) \in KPage /\ kpage[Dir(o)] # NULL
      BY <2>4, <1>2, RoleTypes, Zenon DEF Ptr, Roles, Holds
    <3>2. kpage[Dir(o)].pt[e] \in Ptr(KPage)  BY <3>1, PageTypes
    <3> QED  BY <3>2, <2>4, <1>2, <1>6, Zenon DEF Roles
  <2> QED  BY <2>1, <2>2, <2>3, <2>4, Zenon
<1>8. \A j \in KPage : Own(o, j)' <=> Own(o, j) /\ j # k
  BY <1>7, NullIsNone, Zenon DEF Own
<1>9. Roles(o)'
  <2>1. th'[o].fd_table # NULL => HoldsNext(th'[o].fd_table, "fd_table")
    BY <1>2, <1>6, RoleTypes, Zenon DEF Roles
  <2>2. Dir(o) # NULL => HoldsNext(Dir(o), "pagedir")
    BY <1>2, <1>6, RoleTypes, Zenon DEF Roles
  <2>3. ASSUME Dir(o) # NULL, NEW e \in Pde, kpage'[Dir(o)].pt[e] # NULL
        PROVE  HoldsNext(kpage'[Dir(o)].pt[e], "pt")
    <3>1. Dir(o) \in KPage /\ kpage[Dir(o)] # NULL
      BY <2>3, <1>2, RoleTypes, Zenon DEF Ptr, Roles, Holds
    <3>2. kpage[Dir(o)].pt[e] \in Ptr(KPage)  BY <3>1, PageTypes
    <3>3. kpage'[Dir(o)].pt[e] = kpage[Dir(o)].pt[e]  BY <1>7, <2>3, Zenon
    <3>4. Holds(kpage[Dir(o)].pt[e], "pt")  BY <2>3, <3>3, <1>2, Zenon DEF Roles
    <3> QED  BY <3>2, <3>3, <3>4, <2>3, <1>6, Zenon
  <2> QED  BY <1>7, <2>1, <2>2, <2>3, RolesNext, Zenon
<1>a. RoleInv'  BY <1>5, <1>9, Zenon DEF RoleInv
<1>b. ASSUME NEW j \in KPage, kpage'[j] # NULL
      PROVE  kpage'[j].kind = "fd_table" \/ \E t \in Thread : Own(t, j)'
  <2>1. j # k /\ kpage'[j] = kpage[j]  BY <1>1, <1>b, Zenon
  <2>2. kpage[j].kind = "fd_table" \/ \E t \in Thread : Own(t, j)
    BY <2>1, <1>b, Zenon DEF PageInv, OwnInv
  <2> QED  BY <2>1, <2>2, <1>5, <1>8, Zenon
<1>c. ASSUME NEW t \in Thread, NEW u \in Thread, NEW j \in KPage, Own(t, j)', Own(u, j)'
      PROVE  t = u
  <2>1. Own(t, j) /\ Own(u, j)  BY <1>c, <1>5, <1>8, Zenon
  <2> QED  BY <2>1, Zenon DEF PageInv, OwnInv
<1>d. OwnInv'  BY <1>b, <1>c, Zenon DEF OwnInv
<1>e. PlainInv'
  <2> SUFFICES ASSUME NEW j \in KPage, kpage'[j] # NULL, kpage'[j].kind # "pagedir",
                      NEW u \in UPage
               PROVE  kpage'[j].map[u] = NULL
    BY Zenon DEF PlainInv
  <2>1. kpage'[j] = kpage[j]  BY <1>1, Zenon
  <2> QED  BY <2>1, Zenon DEF PageInv, PlainInv
<1>f. ASSUME NEW j \in KPage, NEW u \in UPage, NEW f \in Frame
      PROVE  Maps(j, u, f)' <=> Maps(j, u, f)
  <2>1. CASE j = k
    <3>1. kpage[k].map[u] = NULL  BY <1>4 DEF Holds, PageInv, PlainInv
    <3> QED  BY <2>1, <3>1, <1>1, NullIsNone, Zenon DEF Maps
  <2>2. CASE j # k  BY <2>2, <1>1, Zenon DEF Maps
  <2> QED  BY <2>1, <2>2, Zenon
<1> QED  BY <1>a, <1>d, <1>e, <1>f, Zenon DEF PageInv

\* thread_create() hands the arguments k of t over to the new thread c.
LEMMA PageMove ==
  ASSUME PageInv, TypeOK, kpage' = kpage,
         NEW t \in Thread, NEW c \in Thread, c # t, NEW k \in KPage,
         \A u \in Thread \ {t, c} : SameRoles(u),
         Alive(t), Alive(t)', th[t].new = k, th[t].params = NULL,
         th'[t].new = NULL, th'[t].params = NULL, th'[t].fd_table = th[t].fd_table,
         th'[t].pagedir = th[t].pagedir, th'[t].pd = th[t].pd,
         Alive(c), Alive(c)', th[c].params = NULL, th'[c].params = k,
         th'[c].new = th[c].new, th'[c].fd_table = th[c].fd_table,
         th'[c].pagedir = th[c].pagedir, th'[c].pd = th[c].pd
  PROVE  PageInv'
<1>1. Roles(t) /\ Roles(c) /\ k # NULL  BY NullIsNone, Zenon DEF PageInv, RoleInv
<1>2. Holds(k, "params")  BY <1>1, Zenon DEF Roles
<1>3. Dir(t)' = Dir(t) /\ Dir(c)' = Dir(c)  BY Zenon DEF Dir
<1>4. ASSUME NEW u \in Thread, u # t, u # c
      PROVE  (\A j \in KPage : Own(u, j)' <=> Own(u, j)) /\ (Alive(u)' => Roles(u)')
  BY <1>4, OwnKeeps, Zenon DEF PageInv, RoleInv
<1>5. /\ th[t].fd_table # k /\ Dir(t) # k
      /\ Dir(t) # NULL => \A e \in Pde : kpage[Dir(t)].pt[e] # k
  BY <1>1, <1>2 DEF Roles, Holds
<1>6. \A j \in KPage : Own(t, j)' <=> Own(t, j) /\ j # k
  BY <1>3, <1>5, NullIsNone, Zenon DEF Own
<1>7. \A j \in KPage : Own(c, j)' <=> Own(c, j) \/ j = k
  BY <1>3, NullIsNone, Zenon DEF Own
<1>8. \A j, kd : Holds(j, kd) => HoldsNext(j, kd)  BY Zenon DEF Holds, HoldsNext
<1>9. Roles(t)'
  <2>1. th'[t].fd_table # NULL => HoldsNext(th'[t].fd_table, "fd_table")
    BY <1>1, <1>8, Zenon DEF Roles
  <2>2. Dir(t)' # NULL =>
          /\ HoldsNext(Dir(t)', "pagedir")
          /\ \A e \in Pde : kpage'[Dir(t)'].pt[e] # NULL => HoldsNext(kpage'[Dir(t)'].pt[e], "pt")
    BY <1>1, <1>3, <1>8, Zenon DEF Roles
  <2> QED  BY <2>1, <2>2, RolesNext, Zenon
<1>a. Roles(c)'
  <2>1. /\ th'[c].params # NULL => HoldsNext(th'[c].params, "params")
        /\ th'[c].new # NULL => HoldsNext(th'[c].new, "params")
        /\ th'[c].fd_table # NULL => HoldsNext(th'[c].fd_table, "fd_table")
    BY <1>1, <1>2, <1>8, Zenon DEF Roles
  <2>2. Dir(c)' # NULL =>
          /\ HoldsNext(Dir(c)', "pagedir")
          /\ \A e \in Pde : kpage'[Dir(c)'].pt[e] # NULL => HoldsNext(kpage'[Dir(c)'].pt[e], "pt")
    BY <1>1, <1>3, <1>8, Zenon DEF Roles
  <2> QED  BY <2>1, <2>2, RolesNext, Zenon
<1>b. RoleInv'  BY <1>4, <1>9, <1>a, Zenon DEF RoleInv
<1>c. ASSUME NEW j \in KPage, kpage'[j] # NULL
      PROVE  kpage'[j].kind = "fd_table" \/ \E u \in Thread : Own(u, j)'
  <2>1. kpage[j].kind = "fd_table" \/ \E u \in Thread : Own(u, j)
    BY <1>c, Zenon DEF PageInv, OwnInv
  <2> QED  BY <2>1, <1>4, <1>6, <1>7, Zenon
<1>d. ASSUME NEW u \in Thread, NEW v \in Thread, NEW j \in KPage, Own(u, j)', Own(v, j)'
      PROVE  u = v
  <2>1. Own(t, k)  BY Zenon DEF Own
  <2>2. \A w \in Thread : Own(w, k) => w = t  BY <2>1, Zenon DEF PageInv, OwnInv
  <2>3. CASE j = k  BY <2>3, <2>2, <1>d, <1>4, <1>6, Zenon
  <2>4. CASE j # k
    <3>1. Own(u, j) /\ Own(v, j)  BY <2>4, <1>d, <1>4, <1>6, <1>7, Zenon
    <3> QED  BY <3>1, Zenon DEF PageInv, OwnInv
  <2> QED  BY <2>3, <2>4, Zenon
<1>e. OwnInv'  BY <1>c, <1>d, Zenon DEF OwnInv
<1>f. PlainInv'  BY Zenon DEF PageInv, PlainInv
<1> QED  BY <1>b, <1>e, <1>f, Zenon DEF PageInv

\* A thread that begins or ends has no page but its fd_table.
LEMMA PageBare ==
  ASSUME PageInv, TypeOK, kpage' = kpage, NEW o \in Thread,
         OthersKeep(o),
         \/ /\ ~Alive(o) /\ Alive(o)' /\ Dir(o)' = NULL
            /\ th'[o].params = NULL /\ th'[o].new = NULL /\ th'[o].fd_table = NULL
         \/ /\ Alive(o) /\ ~Alive(o)' /\ Dir(o) = NULL
            /\ th[o].params = NULL /\ th[o].new = NULL
  PROVE  PageInv'
<1> USE DEF OthersKeep
<1>1. ASSUME NEW u \in Thread, u # o
      PROVE  (\A j \in KPage : Own(u, j)' <=> Own(u, j)) /\ (Alive(u)' => Roles(u)')
  BY <1>1, OwnKeeps, Zenon DEF PageInv, RoleInv
<1>2. \A j \in KPage : ~Own(o, j)'  BY NullIsNone, Zenon DEF Own
<1>3. Alive(o)' => Roles(o)'  BY Zenon DEF Roles
<1>4. ASSUME NEW j \in KPage, Own(o, j) PROVE kpage[j].kind = "fd_table"
  <2>1. Alive(o) /\ j = th[o].fd_table  BY <1>4, NullIsNone, Zenon DEF Own
  <2>2. Roles(o)  BY <2>1, Zenon DEF PageInv, RoleInv
  <2> QED  BY <2>1, <2>2, NullIsNone, Zenon DEF Roles, Holds
<1>5. RoleInv'  BY <1>1, <1>3, Zenon DEF RoleInv
<1>6. ASSUME NEW j \in KPage, kpage'[j] # NULL
      PROVE  kpage'[j].kind = "fd_table" \/ \E u \in Thread : Own(u, j)'
  <2>1. kpage[j].kind = "fd_table" \/ \E u \in Thread : Own(u, j)
    BY <1>6, Zenon DEF PageInv, OwnInv
  <2> QED  BY <2>1, <1>1, <1>4, Zenon
<1>7. ASSUME NEW u \in Thread, NEW v \in Thread, NEW j \in KPage, Own(u, j)', Own(v, j)'
      PROVE  u = v
  <2>1. Own(u, j) /\ Own(v, j)  BY <1>7, <1>1, <1>2, Zenon
  <2> QED  BY <2>1, Zenon DEF PageInv, OwnInv
<1>8. OwnInv'  BY <1>6, <1>7, Zenon DEF OwnInv
<1>9. PlainInv'  BY Zenon DEF PageInv, PlainInv
<1> QED  BY <1>5, <1>8, <1>9, Zenon DEF PageInv

\* What palloc_get_page() takes from the two pools was free.
LEMMA FreePages ==
  /\ \A k \in Lowest(FreeKPage) : k \in KPage /\ kpage[k] = NULL
  /\ \A f \in Lowest(FreeFrame) : f \in Frame /\ f \notin frames
  BY Zenon DEF Lowest, FreeKPage, FreeFrame

\* What pagedir_set_page() writes: the mapping, and the page table k if there
\* was none for its part of the address space.
SetsPage(pd, up, f) ==
  /\ kpage' \in [KPage -> Ptr(Content)]
  /\ kpage'[pd] # NULL /\ kpage'[pd].kind = kpage[pd].kind
  /\ \A u \in UPage : kpage'[pd].map[u] = IF u = up THEN f ELSE kpage[pd].map[u]

KeepsTables(pd) ==
  /\ \A e \in Pde : kpage'[pd].pt[e] = kpage[pd].pt[e]
  /\ \A j \in KPage : j # pd => kpage'[j] = kpage[j]

AddsTable(pd, k, d) ==
  /\ k # pd /\ kpage[k] = NULL /\ kpage'[k] = zeroed("pt") /\ kpage[pd].pt[d] = NULL
  /\ \A e \in Pde : kpage'[pd].pt[e] = IF e = d THEN k ELSE kpage[pd].pt[e]
  /\ \A j \in KPage : j # pd /\ j # k => kpage'[j] = kpage[j]

\* pagedir_set_page() does just that.
LEMMA SetPage ==
  ASSUME TypeOK, NEW pd \in KPage, kpage[pd] # NULL, NEW up \in UPage, NEW f \in Frame,
         pagedir_set_page(pd, up, f)
  PROVE  /\ SetsPage(pd, up, f)
         /\ KeepsTables(pd) \/ \E k \in KPage, d \in Pde : AddsTable(pd, k, d)
<1> DEFINE d == pd_no(up)
           c == kpage[pd]
<1>1. /\ c \in Content /\ c.pt \in [Pde -> Ptr(KPage)] /\ c.map \in [UPage -> Ptr(Frame)]
  BY PageTypes
<1>2. d \in Pde  BY DEF pd_no, Pde
<1>3. f \in Ptr(Frame)  BY Zenon DEF Ptr
<1>4. kpage \in [KPage -> Ptr(Content)]  BY Zenon DEF TypeOK
<1>5. CASE kpage[pd].pt[d] # NULL
  <2> DEFINE n == [c EXCEPT !.map[up] = f]
  <2>1. kpage' = [kpage EXCEPT ![pd] = n]
    BY <1>5, Zenon DEF pagedir_set_page, lookup_page
  <2>2. n \in Content /\ n.kind = c.kind /\ n.pt = c.pt
        /\ \A u \in UPage : n.map[u] = IF u = up THEN f ELSE c.map[u]
    BY <1>1, <1>3 DEF Content
  <2>3. n # NULL /\ n \in Ptr(Content)  BY <2>2, NullIsNone, Zenon DEF Ptr
  <2> HIDE DEF n
  <2>4. kpage' \in [KPage -> Ptr(Content)]  BY <2>1, <2>3, <1>4, Zenon
  <2>5. kpage'[pd] = n /\ \A j \in KPage : j # pd => kpage'[j] = kpage[j]
    BY <2>1, <1>4, Zenon
  <2>6. SetsPage(pd, up, f)  BY <2>2, <2>3, <2>4, <2>5, Zenon DEF SetsPage
  <2>7. KeepsTables(pd)  BY <2>2, <2>5, Zenon DEF KeepsTables
  <2> QED  BY <2>6, <2>7, Zenon
<1>6. CASE kpage[pd].pt[d] = NULL
  <2>4. PICK k \in Lowest(FreeKPage) :
          kpage' = [[kpage EXCEPT ![k] = zeroed("pt"), ![pd].pt[d] = k] EXCEPT ![pd].map[up] = f]
    <3> DEFINE G(k) == [kpage EXCEPT ![k] = zeroed("pt"), ![pd].pt[d] = k]
    <3>1. lookup_page(pd, up) = {G(k) : k \in Lowest(FreeKPage)}
      BY <1>6, Zenon DEF lookup_page
    <3>2. PICK pages \in lookup_page(pd, up) : kpage' = [pages EXCEPT ![pd].map[up] = f]
      BY Zenon DEF pagedir_set_page
    <3> HIDE DEF G
    <3>3. PICK k \in Lowest(FreeKPage) : pages = G(k)  BY <3>1, <3>2, Zenon
    <3> QED  BY <3>2, <3>3, Zenon DEF G
  <2> DEFINE n == [[c EXCEPT !.pt[d] = k] EXCEPT !.map[up] = f]
  <2>2. k \in KPage /\ kpage[k] = NULL  BY FreePages, Zenon
  <2>3. k # pd /\ k \in Ptr(KPage)  BY <2>2, Zenon DEF Ptr
  <2>5. n \in Content /\ n.kind = c.kind
        /\ (\A e \in Pde : n.pt[e] = IF e = d THEN k ELSE c.pt[e])
        /\ \A u \in UPage : n.map[u] = IF u = up THEN f ELSE c.map[u]
    <3>1. [c EXCEPT !.pt[d] = k] \in Content  BY <1>1, <1>2, <2>3 DEF Content
    <3>2. n \in Content  BY <3>1, <1>3, Zenon DEF Content
    <3>3. n.kind = c.kind  BY <1>1 DEF Content
    <3>4. \A e \in Pde : n.pt[e] = IF e = d THEN k ELSE c.pt[e]  BY <1>1, <1>2 DEF Content
    <3>5. \A u \in UPage : n.map[u] = IF u = up THEN f ELSE c.map[u]  BY <1>1 DEF Content
    <3> QED  BY <3>2, <3>3, <3>4, <3>5, Zenon
  <2>6. n # NULL /\ n \in Ptr(Content) /\ zeroed("pt") \in Ptr(Content)
    BY <2>5, NullIsNone, Zeroed, Zenon DEF Ptr
  <2>7. kpage' = [[kpage EXCEPT ![k] = zeroed("pt")] EXCEPT ![pd] = n]
    BY <2>4, <2>2, <2>3, <1>4, Zenon
  <2> HIDE DEF n
  <2>8. kpage' \in [KPage -> Ptr(Content)]  BY <2>7, <2>6, <1>4, Zenon
  <2>9. /\ kpage'[pd] = n /\ kpage'[k] = zeroed("pt")
        /\ \A j \in KPage : j # pd /\ j # k => kpage'[j] = kpage[j]
    BY <2>7, <2>2, <2>3, <1>4, Zenon
  <2>a. SetsPage(pd, up, f)  BY <2>5, <2>6, <2>8, <2>9, Zenon DEF SetsPage
  <2>b. AddsTable(pd, k, d)  BY <2>5, <2>9, <2>2, <2>3, <1>6, Zenon DEF AddsTable
  <2> QED  BY <2>a, <2>b, <2>2, <1>2, Zenon
<1> QED  BY <1>5, <1>6, Zenon

\* pagedir_set_page() by the owner o of the page directory pd.
LEMMA PageInstall ==
  ASSUME PageInv, TypeOK, \A u \in Thread : SameRoles(u),
         NEW o \in Thread, Alive(o), NEW pd \in KPage, Dir(o) = pd,
         NEW up \in UPage, NEW f \in Frame, SetsPage(pd, up, f),
         KeepsTables(pd) \/ \E k \in KPage, d \in Pde : AddsTable(pd, k, d)
  PROVE  PageInv'
<1>1. Roles(o) /\ pd # NULL  BY NullIsNone, Zenon DEF PageInv, RoleInv
<1>2. kpage[pd] # NULL /\ kpage[pd].kind = "pagedir"  BY <1>1, Zenon DEF Roles, Holds
<1>3. kpage'[pd] # NULL /\ kpage'[pd].kind = "pagedir"  BY <1>2, Zenon DEF SetsPage
<1>4. Own(o, pd)  BY Zenon DEF Own
<1>5. \A j \in KPage : kpage[j] # NULL /\ j # pd => kpage'[j] = kpage[j]
  BY Zenon DEF KeepsTables, AddsTable
<1>6. ASSUME NEW u \in Thread, u # o
      PROVE  (\A j \in KPage : Own(u, j)' <=> Own(u, j)) /\ (Alive(u)' => Roles(u)')
  <2>1. ASSUME NEW j \in KPage, Own(u, j) PROVE kpage'[j] = kpage[j]
    <3>1. j # pd  BY <2>1, <1>4, <1>6, Zenon DEF PageInv, OwnInv
    <3>2. kpage[j] # NULL  BY <2>1, OwnHeld, Zenon DEF PageInv
    <3> QED  BY <3>1, <3>2, <1>5, Zenon
  <2> QED  BY <2>1, OwnKeeps, Zenon DEF PageInv, RoleInv
<1>7. /\ Alive(o)' /\ Dir(o)' = pd
      /\ th'[o].params = th[o].params /\ th'[o].new = th[o].new
      /\ th'[o].fd_table = th[o].fd_table
  BY Zenon DEF SameRoles
<1>8. ASSUME NEW j \in Ptr(KPage), j # NULL, NEW kd, Holds(j, kd) PROVE HoldsNext(j, kd)
  <2>1. j \in KPage  BY <1>8, Zenon DEF Ptr
  <2>2. CASE j = pd  BY <2>2, <1>8, <1>2, <1>3, Zenon DEF Holds, HoldsNext
  <2>3. CASE j # pd  BY <2>1, <2>3, <1>5, <1>8, Zenon DEF Holds, HoldsNext
  <2> QED  BY <2>2, <2>3, Zenon
<1>9. /\ th'[o].params # NULL => HoldsNext(th'[o].params, "params")
      /\ th'[o].new # NULL => HoldsNext(th'[o].new, "params")
      /\ th'[o].fd_table # NULL => HoldsNext(th'[o].fd_table, "fd_table")
      /\ HoldsNext(Dir(o)', "pagedir")
  <2>1. th[o].params # NULL => HoldsNext(th[o].params, "params")
    BY <1>1, <1>8, RoleTypes, Zenon DEF Roles
  <2>2. th[o].new # NULL => HoldsNext(th[o].new, "params")
    BY <1>1, <1>8, RoleTypes, Zenon DEF Roles
  <2>3. th[o].fd_table # NULL => HoldsNext(th[o].fd_table, "fd_table")
    BY <1>1, <1>8, RoleTypes, Zenon DEF Roles
  <2>4. HoldsNext(pd, "pagedir")  BY <1>3, Zenon DEF HoldsNext
  <2> QED  BY <2>1, <2>2, <2>3, <2>4, <1>7, Zenon
<1>a. ASSUME NEW e \in Pde, kpage[pd].pt[e] # NULL PROVE HoldsNext(kpage[pd].pt[e], "pt")
  <2>1. kpage[pd].pt[e] \in Ptr(KPage)  BY <1>2, PageTypes
  <2> QED  BY <2>1, <1>a, <1>1, <1>8, Zenon DEF Roles
<1>b. CASE KeepsTables(pd)
  <2>1. \A e \in Pde : kpage'[pd].pt[e] = kpage[pd].pt[e]  BY <1>b, Zenon DEF KeepsTables
  <2>2. Roles(o)'  BY <1>7, <1>9, <1>a, <2>1, RolesNext, Zenon
  <2>3. \A j \in KPage : Own(o, j)' <=> Own(o, j)  BY <1>7, <2>1, Zenon DEF Own
  <2>4. \A j \in KPage : j # pd => kpage'[j] = kpage[j]  BY <1>b, Zenon DEF KeepsTables
  <2>5. RoleInv'  BY <1>6, <2>2, Zenon DEF RoleInv
  <2>6. ASSUME NEW j \in KPage, kpage'[j] # NULL
        PROVE  kpage'[j].kind = "fd_table" \/ \E t \in Thread : Own(t, j)'
    <3>1. CASE j = pd  BY <3>1, <1>4, <2>3, Zenon
    <3>2. CASE j # pd
      <4>1. kpage'[j] = kpage[j]  BY <3>2, <2>4, Zenon
      <4>2. kpage[j].kind = "fd_table" \/ \E t \in Thread : Own(t, j)
        BY <4>1, <2>6, Zenon DEF PageInv, OwnInv
      <4> QED  BY <4>1, <4>2, <1>6, <2>3, Zenon
    <3> QED  BY <3>1, <3>2, Zenon
  <2>7. ASSUME NEW t \in Thread, NEW u \in Thread, NEW j \in KPage, Own(t, j)', Own(u, j)'
        PROVE  t = u
    <3>1. Own(t, j) /\ Own(u, j)  BY <2>7, <1>6, <2>3, Zenon
    <3> QED  BY <3>1, Zenon DEF PageInv, OwnInv
  <2>8. OwnInv'  BY <2>6, <2>7, Zenon DEF OwnInv
  <2>9. ASSUME NEW j \in KPage, kpage'[j] # NULL, kpage'[j].kind # "pagedir", NEW u \in UPage
        PROVE  kpage'[j].map[u] = NULL
    <3>1. kpage'[j] = kpage[j]  BY <2>9, <1>3, <2>4, Zenon
    <3> QED  BY <3>1, <2>9, Zenon DEF PageInv, PlainInv
  <2>a. PlainInv'  BY <2>9, Zenon DEF PlainInv
  <2> QED  BY <2>5, <2>8, <2>a, Zenon DEF PageInv
<1>c. CASE \E k \in KPage, d \in Pde : AddsTable(pd, k, d)
  <2>1. PICK k \in KPage, d \in Pde : AddsTable(pd, k, d)  BY <1>c, Zenon
  <2>2. /\ \A e \in Pde : kpage'[pd].pt[e] = IF e = d THEN k ELSE kpage[pd].pt[e]
        /\ \A j \in KPage : j # pd /\ j # k => kpage'[j] = kpage[j]
        /\ k # pd /\ kpage[k] = NULL /\ kpage'[k] = zeroed("pt") /\ kpage[pd].pt[d] = NULL
    BY <2>1, Zenon DEF AddsTable
  <2>3. /\ HoldsNext(k, "pt") /\ k # NULL
        /\ \A u \in UPage : kpage'[k].map[u] = NULL
    BY <2>2, Zeroed, NullIsNone DEF HoldsNext
  <2>4. \A e \in Pde : kpage'[pd].pt[e] # NULL => HoldsNext(kpage'[pd].pt[e], "pt")
    BY <2>2, <2>3, <1>a, Zenon
  <2>5. Roles(o)'  BY <1>7, <1>9, <2>4, RolesNext, Zenon
  <2>6. \A u \in Thread : ~Own(u, k)  BY <2>2, OwnHeld, Zenon DEF PageInv
  <2>7. \A j \in KPage : Own(o, j)' <=> Own(o, j) \/ j = k
    <3>1. Own(o, k)'  BY <1>7, <2>2, <1>1, Zenon DEF Own
    <3>2. ASSUME NEW j \in KPage, j # k PROVE Own(o, j)' <=> Own(o, j)
      <4>1. (\E e \in Pde : kpage'[pd].pt[e] = j) <=> (\E e \in Pde : kpage[pd].pt[e] = j)
        BY <2>2, <3>2, NullIsNone
      <4> QED  BY <4>1, <1>7, Zenon DEF Own
    <3> QED  BY <3>1, <3>2, Zenon
  <2>8. RoleInv'  BY <1>6, <2>5, Zenon DEF RoleInv
  <2>9. ASSUME NEW j \in KPage, kpage'[j] # NULL
        PROVE  kpage'[j].kind = "fd_table" \/ \E t \in Thread : Own(t, j)'
    <3>1. CASE j = pd \/ j = k  BY <3>1, <1>4, <2>7, Zenon
    <3>2. CASE j # pd /\ j # k
      <4>1. kpage'[j] = kpage[j]  BY <3>2, <2>2, Zenon
      <4>2. kpage[j].kind = "fd_table" \/ \E t \in Thread : Own(t, j)
        BY <4>1, <2>9, Zenon DEF PageInv, OwnInv
      <4> QED  BY <4>1, <4>2, <1>6, <2>7, Zenon
    <3> QED  BY <3>1, <3>2, Zenon
  <2>a. ASSUME NEW t \in Thread, NEW u \in Thread, NEW j \in KPage, Own(t, j)', Own(u, j)'
        PROVE  t = u
    <3>1. CASE j = k  BY <3>1, <2>a, <2>6, <1>6, Zenon
    <3>2. CASE j # k
      <4>1. Own(t, j) /\ Own(u, j)  BY <3>2, <2>a, <1>6, <2>7, Zenon
      <4> QED  BY <4>1, Zenon DEF PageInv, OwnInv
    <3> QED  BY <3>1, <3>2, Zenon
  <2>b. OwnInv'  BY <2>9, <2>a, Zenon DEF OwnInv
  <2>c. ASSUME NEW j \in KPage, kpage'[j] # NULL, kpage'[j].kind # "pagedir", NEW u \in UPage
        PROVE  kpage'[j].map[u] = NULL
    <3>1. CASE j = k  BY <3>1, <2>3, Zenon
    <3>2. CASE j # k
      <4>1. kpage'[j] = kpage[j]  BY <3>2, <2>c, <1>3, <2>2, Zenon
      <4> QED  BY <4>1, <2>c, Zenon DEF PageInv, PlainInv
    <3> QED  BY <3>1, <3>2, Zenon
  <2>d. PlainInv'  BY <2>c, Zenon DEF PlainInv
  <2> QED  BY <2>8, <2>b, <2>d, Zenon DEF PageInv
<1> QED  BY <1>b, <1>c, Zenon

\* pagedir_set_page() adds one mapping.
LEMMA InstallMaps ==
  ASSUME PageInv, TypeOK, NEW pd \in KPage, NEW up \in UPage, NEW f \in Frame,
         kpage[pd] # NULL, kpage[pd].map[up] = NULL, SetsPage(pd, up, f),
         KeepsTables(pd) \/ \E k \in KPage, d \in Pde : AddsTable(pd, k, d)
  PROVE  Mapped(pd, up, f)
<1> USE DEF Mapped
<1> SUFFICES ASSUME NEW j \in KPage, NEW u \in UPage, NEW g \in Frame
             PROVE  Maps(j, u, g)' <=> Maps(j, u, g) \/ (j = pd /\ u = up /\ g = f)
  BY Zenon
<1>0. g # NULL  BY NullIsNone, Zenon
<1>1. CASE j = pd
  <2>1. kpage'[pd] # NULL /\ kpage'[pd].map[u] = IF u = up THEN f ELSE kpage[pd].map[u]
    BY Zenon DEF SetsPage
  <2>2. CASE u = up  BY <1>0, <1>1, <2>1, <2>2, Zenon DEF Maps
  <2>3. CASE u # up  BY <1>1, <2>1, <2>3, Zenon DEF Maps
  <2> QED  BY <2>2, <2>3, Zenon
<1>2. CASE j # pd
  <2>1. CASE kpage'[j] = kpage[j]  BY <1>2, <2>1, Zenon DEF Maps
  <2>2. CASE kpage'[j] # kpage[j]
    <3>1. kpage[j] = NULL /\ kpage'[j] = zeroed("pt")
      BY <1>2, <2>2, Zenon DEF KeepsTables, AddsTable
    <3>2. kpage'[j].map[u] = NULL  BY <3>1, Zeroed
    <3> QED  BY <3>1, <3>2, <1>2, <1>0, Zenon DEF Maps
  <2> QED  BY <2>1, <2>2, Zenon
<1> QED  BY <1>1, <1>2, Zenon

\* A frame is taken, given back, or mapped, by thread o.
LEMMA FrameTake ==
  ASSUME FrameInv, NEW o \in Thread, NEW f \in Frame, f \notin frames,
         frames' = frames \cup {f},
         SameMaps,
         Filled(o, f)
  PROVE  FrameInv'
<1> USE DEF SameMaps, Filled
<1>1. ~Held(f)  BY Zenon DEF FrameInv, FrameOK
<1>2. \A k \in KPage, u \in UPage : ~Maps(k, u, f)'  BY <1>1, Zenon DEF Held
<1>3. \A t \in Thread : Fills(t, f)' <=> t = o  BY <1>1, Zenon DEF Held
<1> SUFFICES ASSUME NEW g \in Frame PROVE FrameOK(g)'
  BY Zenon DEF FrameInv
<1>0. FrameOK(g)  BY Zenon DEF FrameInv
<1>4. CASE g = f
  <2>1. Held(f)'  BY <1>3, Zenon DEF Held
  <2> QED  BY <2>1, <1>2, <1>3, <1>4, Zenon DEF FrameOK
<1>5. CASE g # f
  <2>2. g \in frames' <=> g \in frames  BY <1>5, Zenon
  <2>3. \A t \in Thread : Fills(t, g)' <=> Fills(t, g)  BY <1>5, Zenon
  <2> QED  BY <1>0, <2>2, <2>3, FrameStays, Zenon
<1> QED  BY <1>4, <1>5, Zenon

LEMMA FrameGive ==
  ASSUME FrameInv, NEW o \in Thread, NEW f \in Frame, Fills(o, f),
         frames' = frames \ {f},
         SameMaps,
         Emptied(o, f)
  PROVE  FrameInv'
<1> USE DEF SameMaps, Emptied
<1>1. \A k \in KPage, u \in UPage : ~Maps(k, u, f)  BY Zenon DEF FrameInv, FrameOK
<1>2. \A t \in Thread : ~Fills(t, f)'  BY Zenon DEF FrameInv, FrameOK
<1>3. ~Held(f)'  BY <1>1, <1>2, Zenon DEF Held
<1> SUFFICES ASSUME NEW g \in Frame PROVE FrameOK(g)'
  BY Zenon DEF FrameInv
<1>0. FrameOK(g)  BY Zenon DEF FrameInv
<1>4. CASE g = f  BY <1>1, <1>2, <1>3, <1>4, Zenon DEF FrameOK
<1>5. CASE g # f
  <2>2. g \in frames' <=> g \in frames  BY <1>5, Zenon
  <2>3. \A t \in Thread : Fills(t, g)' <=> Fills(t, g)  BY <1>5, Zenon
  <2> QED  BY <1>0, <2>2, <2>3, FrameStays, Zenon
<1> QED  BY <1>4, <1>5, Zenon

LEMMA FrameInstall ==
  ASSUME FrameInv, NEW o \in Thread, NEW f \in Frame, Fills(o, f), frames' = frames,
         NEW pd \in KPage, NEW up \in UPage,
         Mapped(pd, up, f),
         Emptied(o, f)
  PROVE  FrameInv'
<1> USE DEF Mapped, Emptied
<1>1. \A k \in KPage, u \in UPage : Maps(k, u, f)' <=> k = pd /\ u = up
  <2>1. FrameOK(f)  BY Zenon DEF FrameInv
  <2>2. \A k \in KPage, u \in UPage : ~Maps(k, u, f)  BY <2>1, Zenon DEF FrameOK
  <2> QED  BY <2>2, Zenon
<1>2. \A t \in Thread : ~Fills(t, f)'  BY Zenon DEF FrameInv, FrameOK
<1>3. Held(f) /\ Held(f)'  BY <1>1, Zenon DEF Held
<1> SUFFICES ASSUME NEW g \in Frame PROVE FrameOK(g)'
  BY Zenon DEF FrameInv
<1>0. FrameOK(g)  BY Zenon DEF FrameInv
<1>4. CASE g = f
  <2>1. f \in frames'  BY <1>3, Zenon DEF FrameInv, FrameOK
  <2> QED  BY <2>1, <1>1, <1>2, <1>3, <1>4, Zenon DEF FrameOK
<1>5. CASE g # f
  <2>2. \A k \in KPage, u \in UPage : Maps(k, u, g)' <=> Maps(k, u, g)  BY <1>5, Zenon
  <2>3. \A t \in Thread : Fills(t, g)' <=> Fills(t, g)  BY <1>5, Zenon
  <2> QED  BY <1>0, <2>2, <2>3, FrameStays, Zenon
<1> QED  BY <1>4, <1>5, Zenon

\* All the frames mapped in pd are given back with it.
LEMMA FrameDestroy ==
  ASSUME FrameInv, NEW pd \in KPage,
         \A g \in Frame : g \in frames' <=> g \in frames /\ \A u \in UPage : ~Maps(pd, u, g),
         Unmapped(pd),
         SameFills
  PROVE  FrameInv'
<1> USE DEF Unmapped, SameFills
<1> SUFFICES ASSUME NEW g \in Frame PROVE FrameOK(g)'
  BY Zenon DEF FrameInv
<1>0. FrameOK(g)  BY Zenon DEF FrameInv
<1>1. CASE \E u \in UPage : Maps(pd, u, g)
  <2>1. \A k \in KPage, u \in UPage : ~Maps(k, u, g)'  BY <1>1, Zenon DEF FrameInv, FrameOK
  <2>2. \A t \in Thread : ~Fills(t, g)'  BY <1>1, Zenon DEF FrameInv, FrameOK
  <2>3. ~Held(g)'  BY <2>1, <2>2, Zenon DEF Held
  <2> QED  BY <2>1, <2>2, <2>3, <1>1, Zenon DEF FrameOK
<1>2. CASE \A u \in UPage : ~Maps(pd, u, g)
  <2>1. \A k \in KPage, u \in UPage : Maps(k, u, g)' <=> Maps(k, u, g)  BY <1>2, Zenon
  <2> QED  BY <2>1, <1>0, <1>2, FrameStays, Zenon
<1> QED  BY <1>1, <1>2, Zenon

\* pagedir_destroy() by the owner o of the page directory pd.
LEMMA PageDestroy ==
  ASSUME PageInv, TypeOK, NEW o \in Thread, NEW pd \in KPage,
         OthersKeep(o),
         Alive(o), Alive(o)', Dir(o) = pd, Dir(o)' = NULL,
         th[o].params = NULL, th[o].new = NULL, th'[o].params = NULL, th'[o].new = NULL,
         th'[o].fd_table = th[o].fd_table, NEW P, P = {pd} \cup Range(kpage[pd].pt),
         kpage' = [k \in KPage |-> IF k \in P THEN NULL ELSE kpage[k]]
  PROVE  /\ PageInv'
         /\ Unmapped(pd)
<1> USE DEF Unmapped, OthersKeep
<1>1. Roles(o) /\ pd # NULL  BY NullIsNone, Zenon DEF PageInv, RoleInv
<1>2. kpage[pd] # NULL /\ kpage[pd].kind = "pagedir"  BY <1>1, Zenon DEF Roles, Holds
<1>3. /\ \A j \in KPage : j \in P => kpage'[j] = NULL
      /\ \A j \in KPage : j \notin P => kpage'[j] = kpage[j]
  BY Zenon
<1>4. \A j : j \in P <=> j = pd \/ \E e \in Pde : kpage[pd].pt[e] = j
  <2>1. DOMAIN kpage[pd].pt = Pde  BY <1>2, PageTypes
  <2> QED  BY <2>1, Zenon DEF Range
<1>5. \A j \in KPage : j \in P => Own(o, j)  BY <1>4, <1>1, Zenon DEF Own
<1>6. \A j \in KPage : j \in P /\ j # pd => Holds(j, "pt")
  <2> SUFFICES ASSUME NEW j \in KPage, j \in P, j # pd PROVE Holds(j, "pt")
    BY Zenon
  <2>1. PICK e \in Pde : kpage[pd].pt[e] = j  BY <1>4, Zenon
  <2>2. kpage[Dir(o)].pt[e] # NULL  BY <2>1, NullIsNone, Zenon
  <2>3. Holds(kpage[Dir(o)].pt[e], "pt")  BY <2>2, <1>1, Zenon DEF Roles
  <2> QED  BY <2>1, <2>3, Zenon
<1>7. ASSUME NEW j \in KPage, Own(o, j), j \notin P PROVE j = th[o].fd_table
  BY <1>7, <1>4, NullIsNone, Zenon DEF Own
<1>8. ASSUME NEW u \in Thread, u # o
      PROVE  (\A j \in KPage : Own(u, j)' <=> Own(u, j)) /\ (Alive(u)' => Roles(u)')
  <2>1. \A j \in KPage : Own(u, j) => kpage'[j] = kpage[j]
    BY <1>8, <1>5, <1>3, Zenon DEF PageInv, OwnInv
  <2> QED  BY <2>1, <1>8, OwnKeeps, Zenon DEF PageInv, RoleInv
<1>9. \A j \in KPage : j = th[o].fd_table => j \notin P /\ kpage'[j] = kpage[j]
  <2> SUFFICES ASSUME NEW j \in KPage, j = th[o].fd_table PROVE j \notin P
    BY <1>3, Zenon
  <2>1. Holds(j, "fd_table")  BY <1>1, NullIsNone, Zenon DEF Roles
  <2> QED  BY <2>1, <1>2, <1>6 DEF Holds
<1>a. Roles(o)'
  <2>1. th'[o].fd_table # NULL => HoldsNext(th'[o].fd_table, "fd_table")
    BY <1>1, <1>9, RoleTypes, Zenon DEF Roles, Holds, HoldsNext, Ptr
  <2> QED  BY <2>1, RolesNext, Zenon
<1>b. \A j \in KPage : Own(o, j)' <=> j = th[o].fd_table
  BY NullIsNone, Zenon DEF Own
<1>c. RoleInv'  BY <1>8, <1>a, Zenon DEF RoleInv
<1>d. ASSUME NEW j \in KPage, kpage'[j] # NULL
      PROVE  kpage'[j].kind = "fd_table" \/ \E t \in Thread : Own(t, j)'
  <2>1. j \notin P /\ kpage'[j] = kpage[j]  BY <1>3, <1>d, Zenon
  <2>2. kpage[j].kind = "fd_table" \/ \E t \in Thread : Own(t, j)
    BY <2>1, <1>d, Zenon DEF PageInv, OwnInv
  <2> QED  BY <2>1, <2>2, <1>7, <1>8, <1>b, Zenon
<1>e. ASSUME NEW t \in Thread, NEW u \in Thread, NEW j \in KPage, Own(t, j)', Own(u, j)'
      PROVE  t = u
  <2>1. Own(o, j)' => Own(o, j)  BY <1>b, Zenon DEF Own
  <2>2. Own(t, j) /\ Own(u, j)  BY <2>1, <1>8, <1>e, Zenon
  <2> QED  BY <2>2, Zenon DEF PageInv, OwnInv
<1>f. OwnInv'  BY <1>d, <1>e, Zenon DEF OwnInv
<1>g. PlainInv'
  <2> SUFFICES ASSUME NEW j \in KPage, kpage'[j] # NULL, kpage'[j].kind # "pagedir",
                      NEW u \in UPage
               PROVE  kpage'[j].map[u] = NULL
    BY Zenon DEF PlainInv
  <2>1. kpage'[j] = kpage[j]  BY <1>3, Zenon
  <2> QED  BY <2>1, Zenon DEF PageInv, PlainInv
<1>h. ASSUME NEW j \in KPage, NEW u \in UPage, NEW f \in Frame
      PROVE  Maps(j, u, f)' <=> Maps(j, u, f) /\ j # pd
  <2>1. CASE j \in P
    <3>1. ~Maps(j, u, f)'  BY <2>1, <1>3, Zenon DEF Maps
    <3>2. j # pd => ~Maps(j, u, f)
      <4>1. j # pd => kpage[j].map[u] = NULL  BY <2>1, <1>6 DEF Holds, PageInv, PlainInv
      <4> QED  BY <4>1, NullIsNone, Zenon DEF Maps
    <3> QED  BY <3>1, <3>2, Zenon
  <2>2. CASE j \notin P
    <3>1. j # pd /\ kpage'[j] = kpage[j]  BY <2>2, <1>3, <1>4, Zenon
    <3> QED  BY <3>1, Zenon DEF Maps
  <2> QED  BY <2>1, <2>2, Zenon
<1> QED  BY <1>c, <1>f, <1>g, <1>h, Zenon DEF PageInv

(* The steps.                                                              *)

-----------------------------------------------------------------------------
(* Steps of one thread.                                                    *)

\* The pages of t stay the same.
SamePages(t) ==
  /\ th'[t].params = th[t].params /\ th'[t].new = th[t].new
  /\ th'[t].fd_table = th[t].fd_table
  /\ th'[t].pagedir = th[t].pagedir /\ th'[t].pd = th[t].pd

\* A step of t leaves the pages and frames of the other threads alone.
LEMMA OthersSame ==
  ASSUME NEW t \in Thread, OneThread(t)
  PROVE  /\ OthersKeep(t)
         /\ \A u \in Thread \ {t}, f \in Frame : Fills(u, f)' <=> Fills(u, f)
         /\ SamePages(t) => \A u \in Thread : SameRoles(u)
         /\ th'[t].kpage = th[t].kpage =>
              SameFills
<1> USE DEF OthersKeep, SameFills
<1>1. OthersKeep(t)  BY Zenon DEF OneThread, SameRoles, Alive, Dir
<1>2. \A u \in Thread \ {t}, f \in Frame : Fills(u, f)' <=> Fills(u, f)
  BY Zenon DEF OneThread, Fills, Alive
<1>3. SamePages(t) => SameRoles(t)  BY Zenon DEF OneThread, SameRoles, SamePages, Dir
<1>4. th'[t].kpage = th[t].kpage => \A f \in Frame : Fills(t, f)' <=> Fills(t, f)
  BY Zenon DEF OneThread, Fills
<1> QED  BY <1>1, <1>2, <1>3, <1>4, Zenon

\* A step of one thread that leaves its pages and frames alone.
LEMMA PagesAlone ==
  ASSUME PageInv, FrameInv, TypeOK, NEW t \in Thread, OneThread(t), SamePages(t),
         th'[t].kpage = th[t].kpage, UNCHANGED <<kpage, frames>>
  PROVE  PageInv' /\ FrameInv'
<1>1. PageInv'  BY OthersSame, PageKeeps, Zenon
<1>2. SameMaps  BY Zenon DEF SameMaps, Maps
<1>3. FrameInv'  BY <1>2, OthersSame, FrameKeeps, Zenon
<1> QED  BY <1>1, <1>3

\* A move from label p to label q that says nothing to other threads.
Calm(p, q) ==
  /\ p \notin {"new", "deactivate"} /\ q \notin Execing \cup {"new"}
  /\ p \in {"open", "transfer"} <=> q \in {"open", "transfer"}
  /\ p \in Loading <=> q \in Loading

\* Such a move keeps what the threads know of one another.
LEMMA CalmStep ==
  ASSUME ProcInv, NEW t \in Thread, OneThread(t), Calm(th[t].pc, th'[t].pc),
         th'[t].load_sema = th[t].load_sema, LocalOK(th'[t])
  PROVE  /\ LocalInv' /\ TidInv' /\ ExecInv' /\ LoadInv'
         /\ file_lock' = file_lock => LockInv'
         /\ UNCHANGED <<current, cr3>> /\ th'[t].pagedir = th[t].pagedir => CpuInv'
<1>0. TypeOK /\ LocalInv /\ TidInv /\ ExecInv /\ LoadInv /\ LockInv /\ CpuInv
  BY Zenon DEF ProcInv
<1> HIDE DEF LocalOK
<1>1. LocalInv' /\ TidInv'  BY <1>0, LocalKeeps, TidKeeps, Zenon
<1>2. ExecInv'
  <2>1. th[t].pc # "new" /\ th'[t].pc \notin Execing /\ th'[t].pc \notin Creating
    BY Zenon DEF Calm, Execing
  <2> QED  BY <1>0, <2>1, ExecKeeps, Zenon
<1>3. LoadInv'
  <2>1. /\ th'[t].pc \notin {"get_child", "load_down"} /\ th'[t].pc # "load_read"
        /\ th'[t].pc # "new" /\ (th[t].pc \in Loading <=> th'[t].pc \in Loading)
    BY Zenon DEF Calm, Execing
  <2> QED  BY <1>0, <2>1, LoadKeeps, Zenon
<1>4. file_lock' = file_lock => LockInv'
  <2>1. th'[t].pc \in {"open", "transfer"} <=> th[t].pc \in {"open", "transfer"}
    BY Zenon DEF Calm
  <2> QED  BY <1>0, <2>1, LockKeeps, Zenon
<1>5. UNCHANGED <<current, cr3>> /\ th'[t].pagedir = th[t].pagedir => CpuInv'
  <2>1. th[t].pc # "deactivate" /\ th'[t].pc # "new"  BY Zenon DEF Calm
  <2> QED  BY <1>0, <2>1, CpuKeeps, Zenon
<1> QED  BY <1>1, <1>2, <1>3, <1>4, <1>5, Zenon

\* Thread t becomes r, and nothing that other threads look at changes.
Moves(t, r) ==
  /\ Alive(t) /\ Set(t, r) /\ r \in ThreadType /\ r.tid = th[t].tid
  /\ r.load_sema = th[t].load_sema /\ LocalOK(r) /\ Calm(th[t].pc, r.pc)

\* r and s have the same pages.
SamePagesAs(r, s) ==
  /\ r.params = s.params /\ r.new = s.new /\ r.fd_table = s.fd_table
  /\ r.pagedir = s.pagedir /\ r.pd = s.pd

\* What such a move keeps, and what is left to show.
LEMMA MoveStep ==
  ASSUME ProcInv, NEW t \in Thread, NEW r, Moves(t, r), next_tid' = next_tid
  PROVE  /\ th' \in [Thread -> Ptr(ThreadType)] /\ OneThread(t) /\ th'[t] = r
         /\ LocalInv' /\ TidInv' /\ ExecInv' /\ LoadInv'
         /\ file_lock' = file_lock => LockInv'
         /\ UNCHANGED <<current, cr3>> /\ r.pagedir = th[t].pagedir => CpuInv'
         /\ file' = file /\ r.exe = th[t].exe /\ r.fd = th[t].fd => FileInv'
         /\ SamePagesAs(r, th[t]) /\ kpage' = kpage => PageInv'
         /\ /\ SamePagesAs(r, th[t]) /\ r.kpage = th[t].kpage
            /\ UNCHANGED <<kpage, frames>>
            => FrameInv'
<1>1. /\ Alive(t) /\ Set(t, r) /\ r \in ThreadType /\ r.tid = th[t].tid
      /\ r.load_sema = th[t].load_sema /\ LocalOK(r) /\ Calm(th[t].pc, r.pc)
  BY Zenon DEF Moves
<1>2. TypeOK /\ FileInv /\ PageInv /\ FrameInv  BY Zenon DEF ProcInv
<1> HIDE DEF LocalOK
<1>3. th' \in [Thread -> Ptr(ThreadType)] /\ OneThread(t) /\ th'[t] = r
  <2>1. /\ th' \in [Thread -> Ptr(ThreadType)] /\ th'[t] = r /\ Alive(t)'
        /\ \A u \in Thread \ {t} : th'[u] = th[u]
    BY <1>1, <1>2, SetType, Zenon
  <2> QED  BY <2>1, <1>1, Zenon DEF OneThread
<1>4. /\ LocalInv' /\ TidInv' /\ ExecInv' /\ LoadInv'
      /\ file_lock' = file_lock => LockInv'
      /\ UNCHANGED <<current, cr3>> /\ r.pagedir = th[t].pagedir => CpuInv'
  BY <1>1, <1>3, CalmStep, Zenon
<1>5. file' = file /\ r.exe = th[t].exe /\ r.fd = th[t].fd => FileInv'
  BY <1>2, <1>3, FileKeeps, Zenon
<1>6. SamePagesAs(r, th[t]) => SamePages(t)
  BY <1>3, Zenon DEF SamePagesAs, SamePages
<1>7. SamePagesAs(r, th[t]) /\ kpage' = kpage => PageInv'
  BY <1>2, <1>3, <1>6, OthersSame, PageKeeps, Zenon
<1>8. SamePagesAs(r, th[t]) /\ r.kpage = th[t].kpage /\ UNCHANGED <<kpage, frames>> => FrameInv'
  BY <1>2, <1>3, <1>6, PagesAlone, Zenon
<1> QED  BY <1>3, <1>4, <1>5, <1>7, <1>8, Zenon

\* r and s differ in the label, the child and the tid of the child at most.
Like(r, s) ==
  /\ r.tid = s.tid /\ r.load_sema = s.load_sema /\ r.wait_sema = s.wait_sema
  /\ r.exe = s.exe /\ r.fd = s.fd /\ r.params = s.params /\ r.new = s.new
  /\ r.fd_table = s.fd_table /\ r.pagedir = s.pagedir /\ r.pd = s.pd
  /\ r.kpage = s.kpage /\ r.upage = s.upage

\* The invariant, read at the running thread.
LEMMA AtFacts ==
  ASSUME ProcInv, NEW t \in Thread, NEW label, At(t, label)
  PROVE  /\ Alive(t) /\ current = t /\ th[t].pc = label /\ th[t] \in ThreadType
         /\ LocalOK(th[t])
<1>1. Alive(t) /\ current = t /\ th[t].pc = label  BY Zenon DEF At, Alive
<1>2. th[t] \in ThreadType  BY <1>1, AliveType, Zenon DEF ProcInv
<1>3. LocalOK(th[t])  BY <1>1, Zenon DEF ProcInv, LocalInv
<1> QED  BY <1>1, <1>2, <1>3, Zenon

\* A goto changes nothing but the label.
LEMMA GotoType ==
  ASSUME NEW s \in ThreadType, NEW label \in Label
  PROVE  /\ [s EXCEPT !.pc = label] \in ThreadType /\ [s EXCEPT !.pc = label].pc = label
         /\ Like([s EXCEPT !.pc = label], s)
<1>1. [s EXCEPT !.pc = label] \in ThreadType  BY Zenon DEF ThreadType
<1>2. [s EXCEPT !.pc = label].pc = label /\ Like([s EXCEPT !.pc = label], s)
  BY DEF ThreadType, Like
<1> QED  BY <1>1, <1>2, Zenon

\* The moves that leave everything else as it was.
QuietMove(p, q) ==
  \/ p = "header" /\ q \in {"segment", "close_exe"}
  \/ p = "user" /\ q \in {"exit", "user"}
  \/ p = "create" /\ q = "free_params"
  \/ p \in {"pagedir", "open_exe", "segment", "stack"} /\ q = "close_exe"
  \/ p = "segment" /\ q = "stack"
  \/ p = "user" /\ q \in {"wait", "lock"}
  \/ p \in {"get_child", "wait", "load_read"} /\ q = "user"

\* They are calm, and what the thread holds fits the next label.
LEMMA QuietMoves ==
  ASSUME NEW r, NEW s, Like(r, s), LocalOK(s), QuietMove(s.pc, r.pc)
  PROVE  LocalOK(r) /\ Calm(s.pc, r.pc)
<1>1. Calm(s.pc, r.pc)
  BY DEF QuietMove, Calm, Execing, Creating, Loading
<1>2. LocalOK(r)
  BY DEF QuietMove, LocalOK, Like, Loading, HasExe, Calls, Creating, Installing
<1> QED  BY <1>1, <1>2

\* They keep the invariant,
LEMMA SetStep ==
  ASSUME ProcInv, NEW t \in Thread, Alive(t), LocalOK(th[t]), NEW r \in ThreadType,
         Set(t, r), Like(r, th[t]), QuietMove(th[t].pc, r.pc),
         UNCHANGED <<current, cr3, kpage, frames, file, file_lock, next_tid, stopped>>
  PROVE  ProcInv'
<1>1. LocalOK(r) /\ Calm(th[t].pc, r.pc)  BY QuietMoves
<1> HIDE DEF LocalOK
<1>2. /\ Moves(t, r) /\ SamePagesAs(r, th[t]) /\ r.kpage = th[t].kpage
      /\ r.exe = th[t].exe /\ r.fd = th[t].fd /\ r.pagedir = th[t].pagedir
  BY <1>1, Zenon DEF Like, Moves, SamePagesAs
<1>3. /\ th' \in [Thread -> Ptr(ThreadType)] /\ LocalInv' /\ TidInv' /\ ExecInv'
      /\ LoadInv' /\ LockInv' /\ CpuInv' /\ FileInv' /\ PageInv' /\ FrameInv'
  BY <1>2, MoveStep, Zenon
<1> QED  BY <1>3, Zenon DEF ProcInv, TypeOK

\* and so do gotos among them.
LEMMA GotoStep ==
  ASSUME ProcInv, NEW t \in Thread, NEW from, At(t, from), NEW label \in Label,
         Goto(t, label), QuietMove(from, label),
         UNCHANGED <<current, cr3, kpage, frames, file, file_lock, next_tid, stopped>>
  PROVE  ProcInv'
<1> DEFINE r == [th[t] EXCEPT !.pc = label]
<1>1. Alive(t) /\ th[t].pc = from /\ th[t] \in ThreadType /\ LocalOK(th[t])  BY AtFacts
<1>2. r \in ThreadType /\ r.pc = label /\ Like(r, th[t])  BY <1>1, GotoType
<1>3. Set(t, r)  BY Zenon DEF Goto
<1> HIDE DEF LocalOK, r
<1> QED  BY <1>1, <1>2, <1>3, SetStep, Zenon

\* What palloc_get_page() on the kernel pool does.
LEMMA AllocFacts ==
  ASSUME TypeOK, NEW k \in KPage, NEW kind \in {"params", "fd_table", "pagedir", "pt"},
         get_kpage(k, kind)
  PROVE  /\ kpage[k] = NULL /\ k # NULL /\ k \in Ptr(KPage)
         /\ kpage' = [kpage EXCEPT ![k] = zeroed(kind)]
         /\ kpage' \in [KPage -> Ptr(Content)]
<1>1. kpage[k] = NULL  BY FreePages, Zenon DEF get_kpage
<1>2. k # NULL /\ k \in Ptr(KPage)  BY NullIsNone, Zenon DEF Ptr
<1>3. kpage' = [kpage EXCEPT ![k] = zeroed(kind)]  BY Zenon DEF get_kpage
<1>4. zeroed(kind) \in Ptr(Content) /\ kpage \in [KPage -> Ptr(Content)]
  BY Zeroed, Zenon DEF Ptr, TypeOK
<1>5. kpage' \in [KPage -> Ptr(Content)]  BY <1>3, <1>4, Zenon
<1> QED  BY <1>1, <1>2, <1>3, <1>5, Zenon

-----------------------------------------------------------------------------
(* Steps of two threads.                                                   *)

\* The running thread t becomes r, and the struct thread in c becomes s.
Pair(t, c, r, s) ==
  /\ c # t /\ Alive(t) /\ current = t
  /\ th' \in [Thread -> Ptr(ThreadType)] /\ r # NULL
  /\ th'[t] = r /\ th'[c] = s /\ \A u \in Thread \ {t, c} : th'[u] = th[u]

\* r and s have the same tid, files and frame, and both are inside the file
\* system or neither is.
SameFile(r, s) ==
  /\ r.tid = s.tid /\ r.exe = s.exe /\ r.fd = s.fd /\ r.kpage = s.kpage
  /\ r.pc \in {"open", "transfer"} <=> s.pc \in {"open", "transfer"}

\* s has no file and no frame.
Bare(s) ==
  /\ s.exe = NULL /\ s.fd = <<>> /\ s.kpage = NULL
  /\ s.pc \notin {"open", "transfer"}

\* The child c goes on, is made or is given up.
ChildTo(c, s) ==
  \/ Alive(c) /\ s # NULL /\ LocalOK(s) /\ SameFile(s, th[c])
  \/ ~Alive(c) /\ s # NULL /\ LocalOK(s) /\ Bare(s)
  \/ Alive(c) /\ Bare(th[c]) /\ s = NULL

\* A struct thread is something.
LEMMA ThreadPtr ==
  ASSUME NEW s \in ThreadType
  PROVE  s \in Ptr(ThreadType) /\ s # NULL
  BY NullIsNone, Zenon DEF Ptr

\* An assignment to two struct threads is such a step.
LEMMA PairSet ==
  ASSUME TypeOK, NEW t \in Thread, NEW c \in Thread, c # t, Alive(t), current = t,
         NEW r \in ThreadType, NEW s \in Ptr(ThreadType),
         th' = [th EXCEPT ![t] = r, ![c] = s]
  PROVE  Pair(t, c, r, s)
<1>1. th \in [Thread -> Ptr(ThreadType)]  BY Zenon DEF TypeOK
<1>2. r \in Ptr(ThreadType) /\ r # NULL  BY NullIsNone, Zenon DEF Ptr
<1>3. /\ th' \in [Thread -> Ptr(ThreadType)] /\ th'[t] = r /\ th'[c] = s
      /\ \A u \in Thread \ {t, c} : th'[u] = th[u]
  BY <1>1, <1>2
<1> QED  BY <1>2, <1>3, Zenon DEF Pair

\* If t keeps its pages then only those of c can change.
LEMMA PairKeeps ==
  ASSUME NEW t \in Thread, NEW c \in Thread, NEW r, NEW s, Pair(t, c, r, s),
         SamePagesAs(r, th[t])
  PROVE  OthersKeep(c)
<1> SUFFICES ASSUME NEW u \in Thread \ {c}
             PROVE  SameRoles(u)
  BY Zenon DEF OthersKeep
<1>1. CASE u = t  BY <1>1, Zenon DEF Pair, SamePagesAs, SameRoles, Dir, Alive
<1>2. CASE u # t
  <2>1. th'[u] = th[u]  BY <1>2, Zenon DEF Pair
  <2> QED  BY <2>1, Zenon DEF SameRoles, Dir, Alive
<1> QED  BY <1>1, <1>2, Zenon

\* The two threads after the step.
LEMMA PairAfter ==
  ASSUME NEW t, NEW c, NEW r, NEW s, Pair(t, c, r, s)
  PROVE  th'[t] = r /\ th'[c] = s /\ Alive(t)' /\ (Alive(c)' <=> s # NULL)
  BY Zenon DEF Pair, Alive

\* It keeps the parts of the invariant about single threads.
LEMMA PairStep ==
  ASSUME ProcInv, NEW t \in Thread, NEW c \in Thread, NEW r, NEW s, Pair(t, c, r, s),
         LocalOK(r), SameFile(r, th[t]), r.pagedir = th[t].pagedir,
         th[t].pc # "deactivate", r.pc # "new", ChildTo(c, s),
         UNCHANGED <<current, cr3, file, file_lock>>
  PROVE  LocalInv' /\ LockInv' /\ FileInv' /\ CpuInv' /\ SameFills
<1> USE DEF Pair, Alive
<1>1. TypeOK /\ LocalInv /\ LockInv /\ FileInv /\ CpuInv  BY Zenon DEF ProcInv
<1>2. ASSUME NEW u \in Thread, Alive(u)'
      PROVE  \/ Alive(u) /\ SameFile(th'[u], th[u]) /\ LocalOK(th'[u])
             \/ Bare(th'[u]) /\ LocalOK(th'[u]) /\ ~Alive(u)
  <2> HIDE DEF LocalOK
  <2>1. CASE u = t  BY <2>1, Zenon
  <2>2. CASE u = c  BY <1>2, <2>2, Zenon DEF ChildTo
  <2>3. CASE u # t /\ u # c
    BY <1>1, <1>2, <2>3, Zenon DEF LocalInv, SameFile
  <2> QED  BY <2>1, <2>2, <2>3, Zenon
<1>3. ASSUME NEW u \in Thread, Alive(u), ~Alive(u)'
      PROVE  Bare(th[u])
  BY <1>3, Zenon DEF ChildTo
<1>4. LocalInv'
  <2> HIDE DEF LocalOK
  <2>1. \A u \in Thread : Alive(u)' => LocalOK(th'[u])  BY <1>2, Zenon
  <2> QED  BY <2>1, Zenon DEF LocalInv, LocalOK
<1> HIDE DEF LocalOK
<1>5. LockInv'
  <2>1. \A u \in Thread : Alive(u)' /\ th'[u].pc \in {"open", "transfer"}
                            <=> Alive(u) /\ th[u].pc \in {"open", "transfer"}
    BY <1>2, <1>3, Zenon DEF SameFile, Bare
  <2>2. file_lock # NULL => file_lock \in Thread  BY <1>1, Zenon DEF TypeOK, Ptr
  <2> QED  BY <1>1, <2>1, <2>2, Zenon DEF LockInv, FileLockLive
<1>6. FileInv'
  <2>1. ASSUME NEW u \in Thread, Alive(u)'
        PROVE  /\ th'[u].exe # NULL => file[th'[u].exe] = th'[u].tid
               /\ \A i \in DOMAIN th'[u].fd : th'[u].fd[i] # NULL =>
                    /\ file[th'[u].fd[i]] = th'[u].tid
                    /\ \A j \in DOMAIN th'[u].fd : th'[u].fd[j] = th'[u].fd[i] => i = j
    <3>1. CASE Alive(u) /\ SameFile(th'[u], th[u])
      BY <1>1, <3>1 DEF FileInv, SameFile
    <3>2. CASE Bare(th'[u])
      BY <3>2 DEF Bare
    <3> QED  BY <1>2, <2>1, <3>1, <3>2, ZenonT(30)
  <2> QED  BY <2>1, Zenon DEF FileInv
<1>7. CpuInv'  BY <1>1, NullIsNone, Zenon DEF CpuInv
<1>8. SameFills
  <2>1. ASSUME NEW u \in Thread, NEW f \in Frame
        PROVE  Fills(u, f)' <=> Fills(u, f)
    <3>1. f # NULL  BY NullIsNone, Zenon
    <3> QED  BY <1>2, <1>3, <3>1, Zenon DEF Fills, SameFile, Bare
  <2> QED  BY <2>1, Zenon DEF SameFills
<1> QED  BY <1>4, <1>5, <1>6, <1>7, <1>8, Zenon

\* What a parent in the middle of exec() does to its child c.
Hands(t, c, r, s) ==
  /\ r.tid = th[t].tid /\ r.load_sema = th[t].load_sema /\ r.pc \notin Loading \cup {"new"}
  /\ r.pc \in Execing => r.ctid = th[t].ctid
  /\ s # NULL => /\ s.tid = th[c].tid
                 /\ s.pc \in Execing =>
                      s.pc = th[c].pc /\ s.ctid = th[c].ctid /\ s.child = th[c].child
  /\ r.pc \in Creating => r.child = c /\ s # NULL /\ s.pc = "new"
  /\ r.pc \in {"get_child", "load_down"} => s.pc \in Loading
  /\ r.pc = "load_read" => s.pc \notin Loading \cup {"new"}
  /\ \/ th[t].pc \in Creating /\ th[t].child = c
     \/ s # NULL /\ s.pc = th[c].pc

\* It keeps what parents and children know of one another.
LEMMA HandsStep ==
  ASSUME ProcInv, NEW t \in Thread, NEW c \in Thread, NEW r, NEW s, Pair(t, c, r, s),
         Alive(c), th[t].pc \in Execing, th[c].tid = th[t].ctid, Hands(t, c, r, s),
         next_tid' = next_tid
  PROVE  TidInv' /\ ExecInv' /\ LoadInv'
<1> USE DEF Alive
<1>1. TidInv /\ ExecInv /\ LoadInv  BY Zenon DEF ProcInv
<1>2. \A u \in Thread : Alive(u)' => Alive(u) /\ th'[u].tid = th[u].tid
  BY Zenon DEF Pair, Hands
<1>3. ASSUME NEW u \in Thread \ {t}, Alive(u)', th'[u].pc \in Execing
      PROVE  /\ Alive(u) /\ th[u].pc = th'[u].pc /\ th[u].pc \in Execing
             /\ th'[u].ctid = th[u].ctid /\ th'[u].child = th[u].child
             /\ th[u].ctid # th[t].ctid
  <2>1. /\ Alive(u) /\ th[u].pc = th'[u].pc /\ th[u].pc \in Execing
        /\ th'[u].ctid = th[u].ctid /\ th'[u].child = th[u].child
    BY <1>3, Zenon DEF Pair, Hands
  <2>2. Alive(t)  BY Zenon DEF Pair
  <2> QED  BY <1>1, <2>1, <2>2, Zenon DEF ExecInv
<1>4. /\ th'[t] = r /\ th'[c] = s /\ c # t /\ Alive(t) /\ Alive(t)'
      /\ th[t].pc \notin Loading \cup {"new"} /\ Creating \subseteq Execing
      /\ {"get_child", "load_down", "load_read"} \subseteq Execing
  <2>1. "new" \notin Execing /\ Execing \cap Loading = {}
        /\ Creating \subseteq Execing
        /\ {"get_child", "load_down", "load_read"} \subseteq Execing
    BY DEF Execing, Creating, Loading
  <2> QED  BY <2>1, Zenon DEF Pair
<1>5. TidInv'  BY <1>1, <1>2, ZenonT(30) DEF TidInv
<1>6. ASSUME NEW u \in Thread, Alive(u)', th'[u].pc \in Creating
      PROVE  /\ th'[u].child \in Thread /\ th'[th'[u].child] # NULL
             /\ th'[th'[u].child].pc = "new" /\ th'[th'[u].child].tid = th'[u].ctid
  <2>1. CASE u = t  BY <1>4, <1>6, <2>1, Zenon DEF Hands
  <2>2. CASE u # t
    <3>1. /\ Alive(u) /\ th[u].pc \in Creating /\ th'[u].ctid = th[u].ctid
          /\ th'[u].child = th[u].child /\ th[u].ctid # th[t].ctid
      BY <1>3, <1>4, <1>6, <2>2, Zenon
    <3>2. /\ th[u].child \in Thread /\ Alive(th[u].child)
          /\ th[th[u].child].pc = "new" /\ th[th[u].child].tid = th[u].ctid
      BY <1>1, <3>1, Zenon DEF ExecInv
    <3>3. th[u].child # t /\ th[u].child # c  BY <1>4, <3>1, <3>2, Zenon
    <3>4. th'[th[u].child] = th[th[u].child]  BY <3>2, <3>3, Zenon DEF Pair
    <3> QED  BY <3>1, <3>2, <3>4, Zenon
  <2> QED  BY <2>1, <2>2, Zenon
<1>7. ASSUME NEW u \in Thread, Alive(u)', th'[u].pc \in Execing
      PROVE  Alive(u) /\ th[u].pc \in Execing /\ th'[u].ctid = th[u].ctid
  BY <1>3, <1>4, <1>7, Zenon DEF Hands
<1>8. ExecInv'
  <2>1. \A u \in Thread : Alive(u)' /\ th'[u].pc \in Execing =>
          th'[u].ctid < next_tid' /\ th'[u].ctid # th'[u].tid
    BY <1>1, <1>2, <1>7, Zenon DEF ExecInv
  <2>2. ASSUME NEW u \in Thread, NEW v \in Thread,
               Alive(u)', th'[u].pc \in Execing, Alive(v)', th'[v].pc \in Execing,
               th'[u].ctid = th'[v].ctid
        PROVE  u = v
    <3>1. /\ Alive(u) /\ th[u].pc \in Execing /\ Alive(v) /\ th[v].pc \in Execing
          /\ th[u].ctid = th[v].ctid
      BY <1>7, <2>2, Zenon
    <3> QED  BY <1>1, <3>1, Zenon DEF ExecInv
  <2> QED  BY <1>6, <2>1, <2>2, Zenon DEF ExecInv
<1>9. LoadInv'
  <2> SUFFICES ASSUME NEW u \in Thread, NEW d \in Thread, Alive(u)', Alive(d)',
                      th'[d].tid = th'[u].ctid, th'[u].pc \in Execing
               PROVE  /\ th'[u].pc \in {"get_child", "load_down"} =>
                           th'[d].pc \in Loading \/ th'[d].load_sema # 0
                      /\ th'[u].pc = "load_read" => th'[d].pc \notin Loading \cup {"new"}
    BY <1>4, Zenon DEF LoadInv
  <2>1. /\ Alive(u) /\ Alive(d) /\ th'[u].ctid = th[u].ctid
        /\ th[d].tid = th[u].ctid
    BY <1>2, <1>7, Zenon
  <2>2. CASE u = t
    <3>1. d = c  BY <1>1, <2>1, <2>2, Zenon DEF TidInv
    <3> QED  BY <1>4, <2>2, <3>1, Zenon DEF Hands
  <2>3. CASE u # t
    <3>1. th[u].pc = th'[u].pc /\ d # c  BY <1>3, <2>1, <2>3, Zenon
    <3>2. CASE d = t  BY <1>1, <1>4, <2>1, <3>1, <3>2, Zenon DEF LoadInv, Hands
    <3>3. CASE d # t
      <4>1. th'[d] = th[d]  BY <3>1, <3>3, Zenon DEF Pair
      <4> QED  BY <1>1, <2>1, <3>1, <4>1, Zenon DEF LoadInv
    <3> QED  BY <3>2, <3>3, Zenon
  <2> QED  BY <2>2, <2>3, Zenon
<1> QED  BY <1>5, <1>8, <1>9, Zenon

\* The invariant, read at a parent in thread_create() and its child.
LEMMA ChildFacts ==
  ASSUME ProcInv, NEW t \in Thread, NEW from \in Creating, At(t, from)
  PROVE  /\ TypeOK /\ PageInv /\ FrameInv /\ Alive(t) /\ current = t /\ th[t].pc = from
         /\ th[t] \in ThreadType /\ LocalOK(th[t])
         /\ th[t].child \in Thread /\ th[t].child # t /\ Alive(th[t].child)
         /\ th[th[t].child] \in ThreadType /\ LocalOK(th[th[t].child])
         /\ th[th[t].child].pc = "new" /\ th[th[t].child].tid = th[t].ctid
<1>1. /\ TypeOK /\ PageInv /\ FrameInv /\ LocalInv /\ ExecInv /\ Alive(t) /\ current = t
      /\ th[t].pc = from /\ th[t] \in ThreadType /\ LocalOK(th[t])
  BY AtFacts, Zenon DEF ProcInv
<1>2. /\ th[t].child \in Thread /\ Alive(th[t].child)
      /\ th[th[t].child].pc = "new" /\ th[th[t].child].tid = th[t].ctid
  BY <1>1, Zenon DEF ExecInv
<1>3. "new" \notin Creating  BY DEF Creating
<1> HIDE DEF LocalOK
<1> QED  BY <1>1, <1>2, <1>3, AliveType, Zenon DEF LocalInv

\* The steps of thread_create() after the struct thread is there.
LEMMA ChildStep ==
  ASSUME ProcInv, NEW t \in Thread, NEW c \in Thread, NEW r \in ThreadType,
         NEW s \in Ptr(ThreadType), Pair(t, c, r, s), Alive(c),
         LocalOK(r), SameFile(r, th[t]), r.pagedir = th[t].pagedir, ChildTo(c, s),
         th[t].pc \in Execing, th[c].tid = th[t].ctid, Hands(t, c, r, s),
         UNCHANGED <<current, cr3, frames, file, file_lock, next_tid, stopped>>
  PROVE  /\ SameFills
         /\ kpage' \in [KPage -> Ptr(Content)] /\ PageInv' /\ SameMaps => ProcInv'
<1>1. th[t].pc # "deactivate" /\ r.pc # "new"  BY DEF Hands, Execing, Creating
<1>2. TypeOK /\ FrameInv /\ th' \in [Thread -> Ptr(ThreadType)]  BY Zenon DEF ProcInv, Pair
<1> HIDE DEF LocalOK
<1>3. LocalInv' /\ LockInv' /\ FileInv' /\ CpuInv' /\ SameFills  BY <1>1, PairStep, Zenon
<1>4. TidInv' /\ ExecInv' /\ LoadInv'  BY HandsStep, Zenon
<1>5. SameMaps => FrameInv'  BY <1>2, <1>3, FrameKeeps, Zenon
<1>6. kpage' \in [KPage -> Ptr(Content)] => TypeOK'  BY <1>2, Zenon DEF TypeOK
<1> QED  BY <1>3, <1>4, <1>5, <1>6, Zenon DEF ProcInv

-----------------------------------------------------------------------------
(* What the invariant implies.                                             *)

\* Nothing has no element,
LEMMA CardEmpty == Cardinality({}) = 0
<1> DEFINE D(f) == [T \in SUBSET {} |-> IF T = {} THEN 0 ELSE 1 + f[T \ {CHOOSE y : y \in T}]]
           C == CHOOSE f : f = D(f)
           g == [T \in SUBSET {} |-> 0]
<1>1. Cardinality({}) = C[{}]  BY Zenon DEF Cardinality
<1>2. g = D(g)  OBVIOUS
<1>3. C = D(C)
  <2> HIDE DEF D, g
  <2> QED  BY <1>2, Zenon
<1>4. D(C)[{}] = 0  OBVIOUS
<1> HIDE DEF C, D
<1> QED  BY <1>1, <1>3, <1>4, Zenon

\* and a singleton one.
LEMMA CardOne ==
  ASSUME NEW x
  PROVE  Cardinality({x}) = 1
<1> DEFINE D(f) == [T \in SUBSET {x} |-> IF T = {} THEN 0 ELSE 1 + f[T \ {CHOOSE y : y \in T}]]
           C == CHOOSE f : f = D(f)
           g == [T \in SUBSET {x} |-> IF T = {} THEN 0 ELSE 1]
<1>1. Cardinality({x}) = C[{x}]  BY Zenon DEF Cardinality
<1>2. \A T \in SUBSET {x} : T = {} \/ T = {x}  OBVIOUS
<1>3. {x} \ {CHOOSE y : y \in {x}} = {}  OBVIOUS
<1>4. g = D(g)  BY <1>2, <1>3
<1>5. C = D(C)
  <2> HIDE DEF D, g
  <2> QED  BY <1>4, Zenon
<1>6. D(C)[{}] = 0 /\ D(C)[{x}] = 1 + C[{}]  BY <1>3
<1> HIDE DEF C, D
<1> QED  BY <1>1, <1>5, <1>6

\* Owned of Process is Own.
LEMMA OwnedIs ==
  ASSUME ProcInv, NEW t \in Thread, NEW p \in KPage
  PROVE  p \in Owned(t) <=> Own(t, p)
<1>1. CASE ~Alive(t)  BY <1>1, Zenon DEF Owned, Own, Alive
<1>2. CASE Alive(t)
  <2> DEFINE pds == {th[t].pagedir, th[t].pd} \ {NULL}
             tables == UNION {Range(kpage[k].pt) : k \in pds}
             rest == {th[t].params, th[t].new, th[t].fd_table}
  <2>0. p \in Owned(t) <=> p \in pds \/ p \in tables \/ p \in rest
    <3>1. th[t] # NULL /\ p # NULL  BY <1>2, NullIsNone, Zenon DEF Alive
    <3> QED  BY <3>1 DEF Owned
  <2>1. /\ TypeOK /\ RoleInv /\ LocalOK(th[t]) /\ Dir(t) \in Ptr(KPage) /\ p # NULL
    BY <1>2, RoleTypes, NullIsNone, ZenonT(30) DEF ProcInv, PageInv, LocalInv
  <2>2. \A d : d \in pds <=> d = Dir(t) /\ d # NULL
    BY <2>1 DEF LocalOK, Dir
  <2> HIDE DEF pds
  <2>3. ASSUME Dir(t) # NULL
        PROVE  Range(kpage[Dir(t)].pt) = {kpage[Dir(t)].pt[e] : e \in Pde}
    <3>1. Dir(t) \in KPage  BY <2>1, <2>3, Zenon DEF Ptr
    <3>2. kpage[Dir(t)] # NULL  BY <1>2, <2>1, <2>3, Zenon DEF RoleInv, Roles, Holds
    <3>3. kpage[Dir(t)].pt \in [Pde -> Ptr(KPage)]  BY <2>1, <3>1, <3>2, PageTypes, Zenon
    <3> QED  BY <3>3, Zenon DEF Range
  <2>4. p \in tables <=> Dir(t) # NULL /\ \E e \in Pde : kpage[Dir(t)].pt[e] = p
    <3>1. CASE Dir(t) = NULL
      <4>1. pds = {}  BY <2>2, <3>1, Zenon
      <4> QED  BY <3>1, <4>1, Zenon
    <3>2. CASE Dir(t) # NULL
      <4>1. pds = {Dir(t)}  BY <2>2, <3>2
      <4>2. tables = Range(kpage[Dir(t)].pt)  BY <4>1
      <4> HIDE DEF tables
      <4> QED  BY <2>3, <3>2, <4>2, Zenon
    <3> QED  BY <3>1, <3>2, Zenon
  <2> HIDE DEF tables
  <2> QED  BY <1>2, <2>0, <2>1, <2>2, <2>4, Zenon DEF Own
<1> QED  BY <1>1, <1>2, Zenon

\* A set whose elements are all the same has one.
LEMMA OneOf ==
  ASSUME NEW S, NEW x \in S, \A y \in S : y = x
  PROVE  Cardinality(S) = 1
<1>1. S = {x}  BY Zenon
<1> QED  BY <1>1, CardOne, Zenon

\* The CPU never translates with a page that was given back.
LEMMA CpuSound == ProcInv => ActivePagedirLive
<1> SUFFICES ASSUME ProcInv, cr3 # NULL
             PROVE  /\ kpage[cr3] # NULL /\ kpage[cr3].kind = "pagedir"
                    /\ current # "idle" /\ cr3 \in {th[current].pagedir, th[current].pd}
  BY Zenon DEF ActivePagedirLive
<1>1. TypeOK /\ CpuInv /\ LocalInv /\ RoleInv  BY Zenon DEF ProcInv, PageInv
<1>2. /\ current \in Thread /\ current # "idle" /\ Alive(current)
      /\ \/ cr3 = th[current].pagedir
         \/ th[current].pc = "deactivate" /\ cr3 = th[current].pd
  BY <1>1, Zenon DEF TypeOK, CpuInv
<1>3. LocalOK(th[current]) /\ Roles(current)  BY <1>1, <1>2, Zenon DEF LocalInv, RoleInv
<1>4. Dir(current) = cr3  BY <1>2, <1>3, Zenon DEF LocalOK, Dir
<1> QED  BY <1>2, <1>3, <1>4, Zenon DEF Roles, Holds

\* Every page of the kernel pool is accounted for,
LEMMA KPagesSound ==
  ASSUME ProcInv, NEW k \in KPage, NEW owners, owners = {t \in Thread : k \in Owned(t)}
  PROVE  IF kpage[k] = NULL THEN owners = {}
         ELSE \/ Cardinality(owners) = 1
              \/ owners = {} /\ kpage[k].kind = "fd_table"
<1>1. RoleInv /\ OwnInv  BY Zenon DEF ProcInv, PageInv
<1>2. \A t : t \in owners <=> t \in Thread /\ Own(t, k)  BY OwnedIs, Zenon
<1>3. CASE kpage[k] = NULL
  <2>1. \A t \in Thread : ~Own(t, k)  BY <1>1, <1>3, OwnHeld, Zenon
  <2> QED  BY <1>2, <1>3, <2>1, Zenon
<1>4. CASE kpage[k] # NULL /\ \E t \in Thread : Own(t, k)
  <2>1. PICK t \in Thread : Own(t, k)  BY <1>4
  <2>2. t \in owners /\ \A u \in owners : u = t  BY <1>1, <1>2, <2>1, Zenon DEF OwnInv
  <2>3. Cardinality(owners) = 1  BY <2>2, OneOf, Zenon
  <2> QED  BY <1>4, <2>3, Zenon
<1>5. CASE kpage[k] # NULL /\ ~\E t \in Thread : Own(t, k)
  <2>1. kpage[k].kind = "fd_table"  BY <1>1, <1>5, Zenon DEF OwnInv
  <2>2. owners = {}  BY <1>2, <1>5, Zenon
  <2> QED  BY <1>5, <2>1, <2>2, Zenon
<1> QED  BY <1>3, <1>4, <1>5, Zenon

\* and so is every frame,
LEMMA FramesSound ==
  ASSUME ProcInv, NEW f \in Frame, NEW A, NEW B,
         A = {m \in Mappings : kpage[m[1]].map[m[2]] = f},
         B = {t \in Thread : th[t] # NULL /\ th[t].kpage = f}
  PROVE  Cardinality(A) + Cardinality(B) = IF f \in frames THEN 1 ELSE 0
<1>1. FrameOK(f)  BY Zenon DEF ProcInv, FrameInv
<1>2. \A m : m \in A <=> m \in KPage \X UPage /\ Maps(m[1], m[2], f)
  BY NullIsNone, Zenon DEF Mappings, Maps
<1>3. \A t : t \in B <=> t \in Thread /\ Fills(t, f)  BY Zenon DEF Fills, Alive
<1>4. CASE f \notin frames
  <2>1. /\ \A k \in KPage, u \in UPage : ~Maps(k, u, f)
        /\ \A t \in Thread : ~Fills(t, f)
    BY <1>1, <1>4, Zenon DEF FrameOK, Held
  <2>2. A = {} /\ B = {}  BY <1>2, <1>3, <2>1
  <2>3. Cardinality(A) = 0 /\ Cardinality(B) = 0  BY <2>2, CardEmpty, Zenon
  <2> QED  BY <1>4, <2>3
<1>5. ASSUME f \in frames, NEW t \in Thread, Fills(t, f)
      PROVE  Cardinality(A) + Cardinality(B) = 1
  <2>1. t \in B /\ \A u \in B : u = t  BY <1>1, <1>3, <1>5, Zenon DEF FrameOK
  <2>2. A = {}  BY <1>1, <1>2, <1>5 DEF FrameOK
  <2>3. Cardinality(B) = 1  BY <2>1, OneOf, Zenon
  <2>4. Cardinality(A) = 0  BY <2>2, CardEmpty, Zenon
  <2> QED  BY <2>3, <2>4
<1>6. ASSUME f \in frames, NEW k \in KPage, NEW u \in UPage, Maps(k, u, f)
      PROVE  Cardinality(A) + Cardinality(B) = 1
  <2>1. B = {}  BY <1>1, <1>3, <1>6, Zenon DEF FrameOK
  <2>2. <<k, u>> \in A  BY <1>2, <1>6
  <2>3. ASSUME NEW m \in A
        PROVE  m = <<k, u>>
    <3>1. m \in KPage \X UPage /\ Maps(m[1], m[2], f)  BY <1>2
    <3>2. m[1] \in KPage /\ m[2] \in UPage /\ m = <<m[1], m[2]>>  BY <3>1
    <3>3. m[1] = k /\ m[2] = u  BY <1>1, <1>6, <3>1, <3>2, Zenon DEF FrameOK
    <3> QED  BY <3>2, <3>3
  <2>4. Cardinality(A) = 1  BY <2>2, <2>3, OneOf, Zenon
  <2>5. Cardinality(B) = 0  BY <2>1, CardEmpty, Zenon
  <2> QED  BY <2>4, <2>5
<1>7. f \in frames => \/ \E t \in Thread : Fills(t, f)
                      \/ \E k \in KPage, u \in UPage : Maps(k, u, f)
  BY <1>1, Zenon DEF FrameOK, Held
<1> QED  BY <1>4, <1>5, <1>6, <1>7, Zenon

\* so that no page is lost or freed twice.
LEMMA AccountsSound == ProcInv => PagesAccounted
<1> SUFFICES ASSUME ProcInv
             PROVE  PagesAccounted
  OBVIOUS
<1>1. ASSUME NEW k \in KPage
      PROVE  LET owners == {t \in Thread : k \in Owned(t)}
             IN  IF kpage[k] = NULL THEN owners = {}
                 ELSE \/ Cardinality(owners) = 1
                      \/ owners = {} /\ kpage[k].kind = "fd_table"
  BY KPagesSound, Zenon
<1>2. ASSUME NEW f \in Frame
      PROVE  Cardinality({m \in Mappings : kpage[m[1]].map[m[2]] = f})
               + Cardinality({t \in Thread : th[t] # NULL /\ th[t].kpage = f})
             = IF f \in frames THEN 1 ELSE 0
  BY FramesSound, Zenon
<1> QED  BY <1>1, <1>2, Zenon DEF PagesAccounted

\* The child a parent in exec() waits for has the tid that exec() returned.
LEMMA ChildIn ==
  ASSUME ProcInv, NEW t \in Thread, Alive(t), th[t].pc \in {"load_down", "load_read"},
         ChildLive(t)
  PROVE  /\ th[t].child \in Thread /\ Alive(th[t].child)
         /\ th[th[t].child].tid = th[t].ctid
<1>1. th[t] \in ThreadType /\ LocalOK(th[t])  BY AliveType, Zenon DEF ProcInv, LocalInv
<1>2. th[t].child \in Ptr(Thread)  BY <1>1 DEF ThreadType
<1>3. th[t].child \in Thread  BY <1>1, <1>2, Zenon DEF LocalOK, Ptr
<1> QED  BY <1>3 DEF ChildLive, Live, Alive

\* exec() waits for load(), and load() is signalled.
LEMMA HandshakeSound == ProcInv => LoadHandshake
<1> SUFFICES ASSUME ProcInv
             PROVE  LoadHandshake
  OBVIOUS
<1>1. LoadInv  BY Zenon DEF ProcInv
<1>2. ASSUME NEW t \in Thread, th[t] # NULL, th[t].pc = "load_read", ChildLive(t)
      PROVE  th[th[t].child].pc \notin Loading \cup {"new"}
  BY <1>1, <1>2, ChildIn, Zenon DEF LoadInv, Alive
<1>3. ASSUME NEW t \in Thread, th[t] # NULL, th[t].pc = "load_down", Blocked(t)
      PROVE  th[th[t].child].pc \in Loading
  <2>1. ChildLive(t) /\ th[th[t].child].load_sema = 0  BY <1>3 DEF Blocked
  <2> QED  BY <1>1, <1>3, <2>1, ChildIn, Zenon DEF LoadInv, Alive
<1> QED  BY <1>2, <1>3, Zenon DEF LoadHandshake, ExecSeesLoad, LoadIsSignalled

\* Descriptors lead to open files.
LEMMA OpenFilesOwn == ProcInv => FilesSound
  BY Zenon DEF ProcInv, FileInv, LockInv, FilesSound, DescriptorsOpen, Alive
=============================================================================
