---------------------------- MODULE ProcessProofs ---------------------------
(***************************************************************************)
(* The steps of Process that change two struct threads, or make or free    *)
(* one, keep ProcInv; so do all steps, and the properties of Process       *)
(* follow.                                                                 *)
(***************************************************************************)
EXTENDS ProcessSteps

-----------------------------------------------------------------------------
(* thread_create().                                                        *)

\* What the two steps that touch the child do to the threads.
GivesTable(t, c, k) == th' = [th EXCEPT ![c].fd_table = k, ![t].pc = "push"]

GivesUp(t, c) == th' = [th EXCEPT ![c] = NULL, ![t].pc = "free_params"]

Starts(t, c, m, q) ==
  th' = [th EXCEPT ![t].child_list = m, ![t].new = NULL, ![t].child = NULL,
                   ![t].pc = q, ![c].params = th[t].new, ![c].pc = "pagedir"]

\* What the struct threads of parent and child hold after these steps.
LEMMA PushOK ==
  ASSUME NEW r, NEW s, LocalOK(s), Like(r, s), s.pc = "fd_table", r.pc = "push"
  PROVE  LocalOK(r)
  BY DEF LocalOK, Like, Loading, HasExe, Calls, Creating, Installing

LEMMA NewOK ==
  ASSUME NEW r, NEW s, LocalOK(s), s.pc = "new", r.pc = "new", r.params = s.params,
         r.new = s.new, r.pagedir = s.pagedir, r.pd = s.pd, r.exe = s.exe, r.fd = s.fd,
         r.kpage = s.kpage, r.load_sema = s.load_sema, r.wait_sema = s.wait_sema
  PROVE  LocalOK(r)
  BY DEF LocalOK, Loading, HasExe, Calls, Creating, Installing

LEMMA CallOK ==
  ASSUME NEW r, NEW s, LocalOK(s), s.pc = "push", r.pc \in {"wait", "get_child"},
         r.params = s.params, r.new = NULL, r.pagedir = s.pagedir, r.pd = s.pd,
         r.exe = s.exe, r.fd = s.fd, r.kpage = s.kpage, r.wait_sema = s.wait_sema
  PROVE  LocalOK(r)
  BY DEF LocalOK, Loading, HasExe, Calls, Creating, Installing

LEMMA StartOK ==
  ASSUME NEW r, NEW s, LocalOK(s), s.pc = "new", r.pc = "pagedir", r.params # NULL,
         r.new = s.new, r.pagedir = s.pagedir, r.pd = s.pd, r.exe = s.exe, r.fd = s.fd,
         r.kpage = s.kpage, r.load_sema = s.load_sema, r.wait_sema = s.wait_sema
  PROVE  LocalOK(r)
  BY DEF LocalOK, Loading, HasExe, Calls, Creating, Installing

\* There is no page for the fd_table, and the struct thread is freed.
LEMMA FdTableFails ==
  ASSUME ProcInv, NEW t \in Thread, NEW c, c = th[t].child, At(t, "fd_table"),
         GivesUp(t, c),
         UNCHANGED <<current, cr3, kpage, frames, file, file_lock, next_tid, stopped>>
  PROVE  ProcInv'
<1> DEFINE r == [th[t] EXCEPT !.pc = "free_params"]
<1>1. /\ TypeOK /\ PageInv /\ c \in Thread /\ c # t /\ Alive(c) /\ Alive(t) /\ current = t
      /\ th[t] \in ThreadType
  BY ChildFacts DEF Creating
<1>2. /\ LocalOK(th[t]) /\ th[t].pc = "fd_table"
      /\ LocalOK(th[c]) /\ th[c].pc = "new" /\ th[c].tid = th[t].ctid
  BY ChildFacts DEF Creating
<1>3. "free_params" \in Label /\ NULL \in Ptr(ThreadType)  BY Zenon DEF Label, Calling, Ptr
<1>4. r \in ThreadType /\ r.pc = "free_params" /\ Like(r, th[t])  BY <1>1, <1>3, GotoType
<1>5. th' = [th EXCEPT ![t] = r, ![c] = NULL]  BY <1>1, ZenonT(30) DEF TypeOK, GivesUp
<1> HIDE DEF r
<1>6. /\ LocalOK(r) /\ Bare(th[c]) /\ Dir(c) = NULL /\ th[c].params = NULL
      /\ th[c].new = NULL
  BY <1>2, <1>4
  DEF LocalOK, Like, Loading, HasExe, Calls, Creating, Installing, Bare, Dir
<1>7. Pair(t, c, r, NULL)  BY <1>1, <1>3, <1>4, <1>5, PairSet, ZenonT(30)
<1>8. /\ SameFile(r, th[t]) /\ ChildTo(c, NULL) /\ r.pagedir = th[t].pagedir
      /\ th[t].pc \in Execing /\ Hands(t, c, r, NULL) /\ SamePagesAs(r, th[t])
  BY <1>1, <1>2, <1>4, <1>6
  DEF Like, SameFile, ChildTo, Hands, Execing, Creating, Loading, SamePagesAs
<1>9. OthersKeep(c) /\ ~Alive(c)'  BY <1>1, <1>7, <1>8, PairKeeps, PairAfter, Zenon
<1>10. PageInv'  BY <1>1, <1>6, <1>9, PageBare, Zenon
<1>11. kpage' \in [KPage -> Ptr(Content)] /\ SameMaps
  BY <1>1, Zenon DEF SameMaps, Maps, TypeOK
<1> QED
  BY <1>1, <1>2, <1>3, <1>4, <1>6, <1>7, <1>8, <1>10, <1>11, ChildStep, Zenon

\* The child gets its fd_table.
LEMMA FdTableMade ==
  ASSUME ProcInv, NEW t \in Thread, NEW c, c = th[t].child, At(t, "fd_table"),
         NEW k \in KPage, get_kpage(k, "fd_table"),
         GivesTable(t, c, k),
         UNCHANGED <<current, cr3, frames, file, file_lock, next_tid, stopped>>
  PROVE  ProcInv'
<1> DEFINE r == [th[t] EXCEPT !.pc = "push"]
           s == [th[c] EXCEPT !.fd_table = k]
<1>1. /\ TypeOK /\ PageInv /\ c \in Thread /\ c # t /\ Alive(c) /\ Alive(t) /\ current = t
      /\ th[t] \in ThreadType
  BY ChildFacts DEF Creating
<1>2. /\ LocalOK(th[t]) /\ th[t].pc = "fd_table"
      /\ LocalOK(th[c]) /\ th[c].pc = "new" /\ th[c].tid = th[t].ctid
  BY ChildFacts DEF Creating
<1>3. th[c] \in ThreadType  BY ChildFacts DEF Creating
<1>4. /\ kpage[k] = NULL /\ k \in Ptr(KPage)
      /\ kpage' = [kpage EXCEPT ![k] = zeroed("fd_table")]
      /\ kpage' \in [KPage -> Ptr(Content)]
  BY <1>1, AllocFacts
<1>5. "push" \in Label  BY Zenon DEF Label, Calling
<1>6. r \in ThreadType /\ r.pc = "push" /\ Like(r, th[t])  BY <1>1, <1>5, GotoType
<1>7. r.child = c /\ r.ctid = th[t].ctid  BY <1>1 DEF ThreadType
<1>8. s \in ThreadType  BY <1>3, <1>4, ZenonT(30) DEF ThreadType
<1>9. /\ s.fd_table = k /\ s.params = th[c].params /\ s.new = th[c].new
      /\ s.pagedir = th[c].pagedir /\ s.pd = th[c].pd
      /\ s.tid = th[c].tid /\ s.pc = th[c].pc /\ s.load_sema = th[c].load_sema
      /\ s.exe = th[c].exe /\ s.fd = th[c].fd /\ s.kpage = th[c].kpage
      /\ s.wait_sema = th[c].wait_sema
  BY <1>3 DEF ThreadType
<1>10. th' = [th EXCEPT ![t] = r, ![c] = s]  BY <1>1, Zenon DEF TypeOK, GivesTable
<1>11. s \in Ptr(ThreadType) /\ s # NULL  BY <1>8, ThreadPtr, ZenonT(30)
<1> HIDE DEF r, s
<1>12. LocalOK(r) /\ LocalOK(s)
  <2>1. LocalOK(r)  BY <1>2, <1>6, PushOK, Zenon
  <2>2. LocalOK(s)  BY <1>2, <1>9, NewOK, Zenon
  <2> QED  BY <2>1, <2>2, Zenon
<1>13. Pair(t, c, r, s)  BY <1>1, <1>6, <1>10, <1>11, PairSet, Zenon
<1>14. /\ SameFile(r, th[t]) /\ SameFile(s, th[c]) /\ r.pagedir = th[t].pagedir
       /\ th[t].pc \in Execing /\ Hands(t, c, r, s) /\ SamePagesAs(r, th[t])
  BY <1>2, <1>6, <1>7, <1>9, <1>11
  DEF Like, SameFile, Hands, Execing, Creating, Loading, SamePagesAs
<1>15. ChildTo(c, s)  BY <1>1, <1>11, <1>12, <1>14, Zenon DEF ChildTo
<1>16. OthersKeep(c) /\ th'[c] = s /\ Alive(c)'
  <2>1. OthersKeep(c)  BY <1>1, <1>13, <1>14, PairKeeps, Zenon
  <2>2. th'[c] = s /\ (Alive(c)' <=> s # NULL)  BY <1>13, PairAfter
  <2> QED  BY <1>11, <2>1, <2>2
<1>17. /\ th'[c].params = th[c].params /\ th'[c].pd = th[c].pd /\ th'[c].fd_table = k
       /\ th'[c].new = th[c].new /\ th'[c].pagedir = th[c].pagedir
  BY <1>9, <1>16, Zenon
<1>18. PageInv' /\ SameMaps  BY <1>1, <1>4, <1>16, <1>17, PageAlloc, Zenon
<1> QED
  BY <1>1, <1>2, <1>4, <1>6, <1>11, <1>12, <1>13, <1>14, <1>15, <1>18, ChildStep, Zenon

\* Both ends of that allocation.
LEMMA FdTableStep ==
  ASSUME ProcInv, NEW t \in Thread, FdTable(t)
  PROVE  ProcInv'
  BY FdTableFails, FdTableMade, Zenon DEF FdTable, GivesTable, GivesUp

\* The child is in child_list, has the arguments, and may run.
LEMMA PushMade ==
  ASSUME ProcInv, NEW t \in Thread, NEW c, c = th[t].child, At(t, "push"),
         NEW m, m = Append(th[t].child_list, <<c, th[t].ctid>>),
         NEW q \in {"wait", "get_child"},
         Starts(t, c, m, q),
         UNCHANGED <<current, cr3, kpage, frames, file, file_lock, next_tid, stopped>>
  PROVE  ProcInv'
<1> DEFINE k == th[t].new
           r == [th[t] EXCEPT !.child_list = m, !.new = NULL, !.child = NULL, !.pc = q]
           s == [th[c] EXCEPT !.params = k, !.pc = "pagedir"]
<1>1. /\ TypeOK /\ PageInv /\ c \in Thread /\ c # t /\ Alive(c) /\ Alive(t) /\ current = t
      /\ th[t] \in ThreadType
  BY ChildFacts DEF Creating
<1>2. /\ LocalOK(th[t]) /\ th[t].pc = "push"
      /\ LocalOK(th[c]) /\ th[c].pc = "new" /\ th[c].tid = th[t].ctid
  BY ChildFacts DEF Creating
<1>3. th[c] \in ThreadType  BY ChildFacts DEF Creating
<1>4. m \in Seq(Thread \X (1..MaxTid)) /\ k \in Ptr(KPage)
  <2>1. th[t].child_list \in Seq(Thread \X (1..MaxTid)) /\ k \in Ptr(KPage)
    BY <1>1, SMTT(30) DEF ThreadType
  <2>2. th[c].tid \in 1..MaxTid  BY <1>3 DEF ThreadType
  <2>3. <<c, th[t].ctid>> \in Thread \X (1..MaxTid)  BY <1>1, <1>2, <2>2
  <2> QED  BY <2>1, <2>3
<1>5. /\ q \in Label /\ "pagedir" \in Label /\ NULL \in Ptr(KPage) /\ NULL \in Ptr(Thread)
  BY Zenon DEF Label, Calling, Loading, Ptr
<1>6. th' = [th EXCEPT ![t] = r, ![c] = s]  BY <1>1, Zenon DEF TypeOK, Starts
<1> HIDE DEF k
<1>7. r \in ThreadType  BY <1>1, <1>4, <1>5, Zenon DEF ThreadType
<1>8. s \in ThreadType  BY <1>3, <1>4, <1>5, ZenonT(30) DEF ThreadType
<1>9. /\ r.pc = q /\ r.new = NULL /\ r.params = th[t].params
      /\ r.fd_table = th[t].fd_table /\ r.pagedir = th[t].pagedir /\ r.pd = th[t].pd
      /\ r.tid = th[t].tid /\ r.load_sema = th[t].load_sema
      /\ r.wait_sema = th[t].wait_sema /\ r.exe = th[t].exe /\ r.fd = th[t].fd
      /\ r.kpage = th[t].kpage /\ r.upage = th[t].upage /\ r.ctid = th[t].ctid
  BY <1>1, SMTT(30) DEF ThreadType
<1>10. /\ s.pc = "pagedir" /\ s.new = th[c].new /\ s.params = k
       /\ s.fd_table = th[c].fd_table /\ s.pagedir = th[c].pagedir /\ s.pd = th[c].pd
       /\ s.tid = th[c].tid /\ s.load_sema = th[c].load_sema
       /\ s.wait_sema = th[c].wait_sema /\ s.exe = th[c].exe /\ s.fd = th[c].fd
       /\ s.kpage = th[c].kpage /\ s.upage = th[c].upage
  BY <1>3 DEF ThreadType
<1>11. s \in Ptr(ThreadType) /\ s # NULL  BY <1>8, ThreadPtr, Zenon
<1> HIDE DEF r, s
<1>12. LocalOK(r) /\ k # NULL /\ th[t].params = NULL /\ th[c].params = NULL
  <2>1. k # NULL /\ th[t].params = NULL /\ th[c].params = NULL
    BY <1>2, ZenonT(30) DEF k, LocalOK, Loading, Calls, Creating
  <2>2. LocalOK(r)  BY <1>2, <1>9, CallOK, Zenon
  <2> QED  BY <2>1, <2>2, Zenon
<1>13. LocalOK(s)  BY <1>2, <1>10, <1>12, StartOK, Zenon
<1>14. Pair(t, c, r, s)  BY <1>1, <1>6, <1>7, <1>11, PairSet, Zenon
<1>15. /\ SameFile(r, th[t]) /\ SameFile(s, th[c])
       /\ th[t].pc \in Execing /\ Hands(t, c, r, s)
  BY <1>2, <1>9, <1>10, <1>11 DEF SameFile, Hands, Execing, Creating, Loading
<1>16. ChildTo(c, s)  BY <1>1, <1>11, <1>13, <1>15, Zenon DEF ChildTo
<1>17. \A u \in Thread \ {t, c} : SameRoles(u)
  BY <1>14, Zenon DEF Pair, SameRoles, Dir, Alive
<1>18. th'[t] = r /\ th'[c] = s /\ Alive(t)' /\ Alive(c)'
  <2>1. /\ th'[t] = r /\ th'[c] = s /\ Alive(t)' /\ (Alive(c)' <=> s # NULL)
    BY <1>14, PairAfter
  <2> QED  BY <1>11, <2>1
<1>19. /\ th'[t].new = NULL /\ th'[t].params = NULL /\ th'[t].fd_table = th[t].fd_table
       /\ th'[t].pagedir = th[t].pagedir /\ th'[t].pd = th[t].pd
       /\ th'[c].params = k /\ th'[c].new = th[c].new
       /\ th'[c].fd_table = th[c].fd_table
       /\ th'[c].pagedir = th[c].pagedir /\ th'[c].pd = th[c].pd
  BY <1>9, <1>10, <1>12, <1>18, Zenon
<1>20. k \in KPage /\ th[t].new = k  BY <1>4, <1>12, Zenon DEF k, Ptr
<1>21. PageInv'  BY <1>1, <1>12, <1>17, <1>18, <1>19, <1>20, PageMove, Zenon
<1>22. kpage' \in [KPage -> Ptr(Content)] /\ SameMaps
  BY <1>1, Zenon DEF SameMaps, Maps, TypeOK
<1> QED
  BY <1>1, <1>2, <1>7, <1>9, <1>11, <1>12, <1>14, <1>15, <1>16, <1>21, <1>22, ChildStep, Zenon

\* list_push_back() on child_list, whose last thread may be gone.
LEMMA PushStep ==
  ASSUME ProcInv, NEW t \in Thread, Push(t)
  PROVE  ProcInv'
<1>1. CASE wild  BY <1>1, StopStep, Zenon DEF wild
<1>2. (IF t = main THEN "wait" ELSE "get_child") \in {"wait", "get_child"}  OBVIOUS
<1> QED  BY <1>1, <1>2, PushMade, Zenon DEF Push, Starts

\* thread_create() makes the struct thread.
Makes(t, c) ==
  th' = [th EXCEPT ![c] = init_thread(next_tid, "new"), ![t].child = c,
                   ![t].ctid = next_tid, ![t].pc = "fd_table"]

\* A struct thread out of init_thread() holds nothing.
LEMMA NewThread ==
  ASSUME NEW i \in 1..MaxTid, NEW pc \in {"new", "user"}
  PROVE  LET s == init_thread(i, pc)
         IN  /\ s \in ThreadType /\ s.tid = i /\ s.pc = pc /\ LocalOK(s) /\ Bare(s)
             /\ s.params = NULL /\ s.new = NULL /\ s.fd_table = NULL
             /\ s.pagedir = NULL /\ s.pd = NULL
<1> DEFINE s == init_thread(i, pc)
<1>1. /\ pc \in Label /\ NULL \in Ptr(KPage) /\ NULL \in Ptr(Frame) /\ NULL \in Ptr(File)
      /\ NULL \in Ptr(UPage) /\ NULL \in Ptr(Thread) /\ NULL \in Ptr({"open", "io"})
      /\ FALSE \in BOOLEAN
  BY Zenon DEF Label, Ptr
<1>2. 0 \in Nat /\ 0 \in 0..MaxTid  BY ProcessAssumption
<1>3. <<>> \in Seq(Thread \X (1..MaxTid)) /\ <<>> \in Seq(Ptr(File))  OBVIOUS
<1>4. s \in ThreadType  BY <1>1, <1>2, <1>3, Zenon DEF ThreadType, init_thread
<1>5. /\ s.tid = i /\ s.pc = pc /\ s.params = NULL /\ s.new = NULL /\ s.fd_table = NULL
      /\ s.pagedir = NULL /\ s.pd = NULL /\ s.exe = NULL /\ s.fd = <<>> /\ s.kpage = NULL
      /\ s.wait_sema = 0 /\ s.load_sema = 0
  BY DEF init_thread
<1> HIDE DEF s
<1>6. LocalOK(s) /\ Bare(s)
  BY <1>5 DEF LocalOK, Bare, Loading, HasExe, Calls, Creating, Installing
<1> QED  BY <1>4, <1>5, <1>6, Zenon DEF s

\* The new thread is a child nobody else knows.
LEMMA NewChild ==
  ASSUME ProcInv, NEW t \in Thread, NEW c \in Thread, NEW r, NEW s, Pair(t, c, r, s),
         ~Alive(c), th[t].pc = "create", r.pc = "fd_table", r.tid = th[t].tid, r.child = c,
         r.ctid = next_tid, r.load_sema = th[t].load_sema, s # NULL,
         s.tid = next_tid, s.pc = "new", next_tid' = next_tid + 1
  PROVE  TidInv' /\ ExecInv' /\ LoadInv'
<1> USE DEF Alive
<1>1. TidInv /\ ExecInv /\ LoadInv /\ TypeOK  BY Zenon DEF ProcInv
<1>2. ASSUME NEW i \in Nat, i < next_tid
      PROVE  i < next_tid' /\ i # next_tid
  BY <1>1, <1>2, ProcessAssumption DEF TypeOK
<1>3. next_tid < next_tid'  BY <1>1, ProcessAssumption DEF TypeOK
<1>4. ASSUME NEW u \in Thread, Alive(u)
      PROVE  th[u].tid \in Nat /\ th[u].ctid \in Nat /\ th[u].tid < next_tid
  <2>1. th[u] \in ThreadType  BY <1>1, <1>4, AliveType
  <2>2. th[u].tid \in Nat /\ th[u].ctid \in Nat  BY <2>1 DEF ThreadType
  <2> QED  BY <1>1, <1>4, <2>2, Zenon DEF TidInv
<1>5. /\ th'[t] = r /\ th'[c] = s /\ c # t /\ Alive(t)
      /\ \A u \in Thread \ {t, c} : th'[u] = th[u]
      /\ {"create", "new", "fd_table"} \cap Loading = {} /\ {"create", "new"} \cap Execing = {}
      /\ Creating \subseteq Execing /\ "fd_table" \in Creating
      /\ {"get_child", "load_down", "load_read"} \subseteq Execing \ Creating
  <2>1. /\ {"create", "new", "fd_table"} \cap Loading = {} /\ {"create", "new"} \cap Execing = {}
        /\ Creating \subseteq Execing /\ "fd_table" \in Creating
        /\ {"get_child", "load_down", "load_read"} \subseteq Execing \ Creating
    BY DEF Execing, Creating, Loading
  <2> QED  BY <2>1, Zenon DEF Pair
<1>6. TidInv'
  <2>1. ASSUME NEW u \in Thread, Alive(u)'
        PROVE  \/ u = c /\ th'[u].tid = next_tid
               \/ Alive(u) /\ th'[u].tid = th[u].tid
    BY <1>5, <2>1, Zenon
  <2>2. \A u \in Thread : Alive(u)' => th'[u].tid < next_tid'
    BY <1>2, <1>3, <1>4, <2>1, Zenon
  <2>3. ASSUME NEW u \in Thread, NEW v \in Thread, Alive(u)', Alive(v)',
               th'[u].tid = th'[v].tid
        PROVE  u = v
    <3>1. ASSUME NEW x \in Thread \ {c}, Alive(x)'
          PROVE  th'[x].tid # th'[c].tid
      <4>1. Alive(x) /\ th'[x].tid = th[x].tid  BY <2>1, <3>1, Zenon
      <4>2. th[x].tid # next_tid  BY <1>2, <1>4, <4>1, Zenon
      <4> QED  BY <1>5, <4>1, <4>2, Zenon
    <3>2. CASE u = c \/ v = c  BY <2>3, <3>1, <3>2, Zenon
    <3>3. CASE u # c /\ v # c
      <4>1. Alive(u) /\ Alive(v) /\ th[u].tid = th[v].tid  BY <2>1, <2>3, <3>3, Zenon
      <4> QED  BY <1>1, <4>1, Zenon DEF TidInv
    <3> QED  BY <3>2, <3>3, Zenon
  <2> QED  BY <2>2, <2>3, Zenon DEF TidInv
<1>7. ASSUME NEW u \in Thread, Alive(u)', th'[u].pc \in Execing
      PROVE  \/ u = t
             \/ /\ u # t /\ u # c /\ th'[u] = th[u] /\ Alive(u) /\ th[u].pc \in Execing
                /\ th[u].ctid < next_tid /\ th[u].ctid # th[u].tid
  <2>1. u # c  BY <1>5, <1>7, Zenon
  <2>2. u # t => th'[u] = th[u] /\ Alive(u) /\ th[u].pc \in Execing
    BY <1>5, <1>7, <2>1, Zenon
  <2> QED  BY <1>1, <2>1, <2>2, Zenon DEF ExecInv
<1>8. ASSUME NEW u \in Thread, Alive(u)', th'[u].pc \in Creating
      PROVE  /\ th'[u].child \in Thread /\ th'[th'[u].child] # NULL
             /\ th'[th'[u].child].pc = "new" /\ th'[th'[u].child].tid = th'[u].ctid
  <2>1. CASE u = t  BY <1>5, <2>1, Zenon
  <2>2. CASE u # t
    <3>1. th'[u] = th[u] /\ Alive(u) /\ th[u].pc \in Creating  BY <1>5, <1>7, <1>8, <2>2, Zenon
    <3>2. /\ th[u].child \in Thread /\ Alive(th[u].child)
          /\ th[th[u].child].pc = "new" /\ th[th[u].child].tid = th[u].ctid
      BY <1>1, <3>1, Zenon DEF ExecInv
    <3>3. th[u].child # t /\ th[u].child # c  BY <3>2, Zenon
    <3>4. th'[th[u].child] = th[th[u].child]  BY <1>5, <3>2, <3>3, Zenon
    <3> QED  BY <3>1, <3>2, <3>4, Zenon
  <2> QED  BY <2>1, <2>2, Zenon
<1>9. ExecInv'
  <2>1. ASSUME NEW u \in Thread, Alive(u)', th'[u].pc \in Execing
        PROVE  th'[u].ctid < next_tid' /\ th'[u].ctid # th'[u].tid
    <3>1. CASE u = t  BY <1>2, <1>3, <1>4, <1>5, <3>1, Zenon
    <3>2. CASE u # t  BY <1>2, <1>4, <1>7, <2>1, <3>2, Zenon
    <3> QED  BY <3>1, <3>2, Zenon
  <2>2. ASSUME NEW u \in Thread \ {t}, Alive(u)', th'[u].pc \in Execing
        PROVE  /\ Alive(u) /\ th[u].pc \in Execing /\ th'[u].ctid = th[u].ctid
               /\ th'[u].ctid # next_tid
    BY <1>2, <1>4, <1>7, <2>2, Zenon
  <2>3. ASSUME NEW u \in Thread, NEW v \in Thread,
               Alive(u)', th'[u].pc \in Execing, Alive(v)', th'[v].pc \in Execing,
               th'[u].ctid = th'[v].ctid
        PROVE  u = v
    <3>0. \A x \in Thread \ {t} : Alive(x)' /\ th'[x].pc \in Execing =>
            th'[x].ctid # th'[t].ctid
      BY <1>5, <2>2, Zenon
    <3>1. CASE u = t \/ v = t  BY <2>3, <3>0, <3>1, Zenon
    <3>2. CASE u # t /\ v # t
      <4>1. /\ Alive(u) /\ th[u].pc \in Execing /\ Alive(v) /\ th[v].pc \in Execing
            /\ th[u].ctid = th[v].ctid
        BY <2>2, <2>3, <3>2, Zenon
      <4> QED  BY <1>1, <4>1, Zenon DEF ExecInv
    <3> QED  BY <3>1, <3>2, Zenon
  <2> QED  BY <1>8, <2>1, <2>3, Zenon DEF ExecInv
<1>10. LoadInv'
  <2> SUFFICES ASSUME NEW u \in Thread, NEW d \in Thread, Alive(u)', Alive(d)',
                      th'[d].tid = th'[u].ctid,
                      th'[u].pc \in {"get_child", "load_down", "load_read"}
               PROVE  /\ th'[u].pc \in {"get_child", "load_down"} =>
                           th'[d].pc \in Loading \/ th'[d].load_sema # 0
                      /\ th'[u].pc = "load_read" => th'[d].pc \notin Loading \cup {"new"}
    BY Zenon DEF LoadInv
  <2>1. th'[u] = th[u] /\ Alive(u) /\ th[u].ctid < next_tid  BY <1>5, <1>7, Zenon
  <2>2. d # c  BY <1>2, <1>4, <1>5, <2>1, Zenon
  <2>3. Alive(d) /\ th[d].tid = th[u].ctid
    <3>1. Alive(d) /\ th'[d].tid = th[d].tid  BY <1>5, <2>2, Zenon
    <3> QED  BY <2>1, <3>1, Zenon
  <2>4. CASE d = t  BY <1>1, <1>5, <2>1, <2>3, <2>4, ZenonT(30) DEF LoadInv
  <2>5. CASE d # t
    <3>1. th'[d] = th[d]  BY <1>5, <2>2, <2>5, Zenon
    <3> QED  BY <1>1, <2>1, <2>3, <3>1, Zenon DEF LoadInv
  <2> QED  BY <2>4, <2>5, Zenon
<1> QED  BY <1>6, <1>9, <1>10, Zenon

\* thread_create() makes the struct thread,
LEMMA CreateMade ==
  ASSUME ProcInv, NEW t \in Thread, At(t, "create"), NEW c \in Thread, th[c] = NULL,
         next_tid <= MaxTid, Makes(t, c), next_tid' = next_tid + 1,
         UNCHANGED <<current, cr3, kpage, frames, file, file_lock, stopped>>
  PROVE  ProcInv'
<1> DEFINE r == [th[t] EXCEPT !.child = c, !.ctid = next_tid, !.pc = "fd_table"]
           s == init_thread(next_tid, "new")
<1>1. /\ TypeOK /\ PageInv /\ FrameInv /\ Alive(t) /\ current = t /\ th[t].pc = "create"
      /\ th[t] \in ThreadType /\ LocalOK(th[t])
  BY AtFacts, Zenon DEF ProcInv
<1>2. ~Alive(c) /\ c # t  BY <1>1, Zenon DEF Alive
<1>3. /\ next_tid \in 1..MaxTid /\ next_tid \in 0..MaxTid /\ next_tid' \in 1..MaxTid + 1
  BY <1>1, ProcessAssumption DEF TypeOK
<1>4. "fd_table" \in Label /\ c \in Ptr(Thread)  BY Zenon DEF Label, Calling, Ptr
<1>5. r \in ThreadType  BY <1>1, <1>3, <1>4, Zenon DEF ThreadType
<1>6. /\ r.pc = "fd_table" /\ r.child = c /\ r.ctid = next_tid /\ SamePagesAs(r, th[t])
      /\ r.exe = th[t].exe /\ r.fd = th[t].fd /\ r.kpage = th[t].kpage
      /\ r.tid = th[t].tid /\ r.upage = th[t].upage
      /\ r.wait_sema = th[t].wait_sema /\ r.load_sema = th[t].load_sema
  BY <1>1 DEF ThreadType, SamePagesAs
<1>7. /\ s \in ThreadType /\ s.tid = next_tid /\ s.pc = "new" /\ LocalOK(s) /\ Bare(s)
      /\ s.params = NULL /\ s.new = NULL /\ s.fd_table = NULL
      /\ s.pagedir = NULL /\ s.pd = NULL
  BY <1>3, NewThread, Zenon
<1> HIDE DEF s
<1>8. th' = [th EXCEPT ![t] = r, ![c] = s]  BY <1>1, <1>2, ZenonT(30) DEF TypeOK, Makes, s
<1> HIDE DEF r
<1>9. /\ LocalOK(r) /\ SameFile(r, th[t]) /\ r.pagedir = th[t].pagedir
  BY <1>1, <1>6
  DEF LocalOK, SameFile, SamePagesAs, Loading, HasExe, Calls, Creating, Installing
<1>10. s \in Ptr(ThreadType) /\ s # NULL  BY <1>7, ThreadPtr, Zenon
<1>11. Pair(t, c, r, s)  BY <1>1, <1>2, <1>5, <1>8, <1>10, PairSet, Zenon
<1>12. ChildTo(c, s)  BY <1>1, <1>2, <1>7, <1>10, Zenon DEF ChildTo
<1>13. LocalInv' /\ LockInv' /\ FileInv' /\ CpuInv' /\ SameFills
  BY <1>1, <1>6, <1>9, <1>11, <1>12, PairStep, Zenon
<1>14. TidInv' /\ ExecInv' /\ LoadInv'
  BY <1>1, <1>2, <1>6, <1>7, <1>10, <1>11, NewChild, Zenon
<1>15. OthersKeep(c)  BY <1>6, <1>11, PairKeeps, Zenon
<1>16. th'[c] = s /\ (Alive(c)' <=> s # NULL)  BY <1>11, PairAfter
<1>17. /\ Alive(c)' /\ th'[c].params = NULL /\ th'[c].new = NULL
       /\ th'[c].fd_table = NULL /\ Dir(c)' = NULL
  BY <1>7, <1>10, <1>16, Zenon DEF Dir
<1>18. PageInv'  BY <1>1, <1>2, <1>15, <1>17, PageBare, Zenon
<1>19. SameMaps  BY Zenon DEF SameMaps, Maps
<1>20. FrameInv'  BY <1>1, <1>13, <1>19, FrameKeeps, Zenon
<1>21. th' \in [Thread -> Ptr(ThreadType)]  BY <1>11, Zenon DEF Pair
<1>22. TypeOK'  BY <1>1, <1>3, <1>21, Zenon DEF TypeOK
<1> QED  BY <1>13, <1>14, <1>18, <1>20, <1>22, Zenon DEF ProcInv

\* or has no page for it.
LEMMA CreateStep ==
  ASSUME ProcInv, NEW t \in Thread, Create(t)
  PROVE  ProcInv'
<1>1. "free_params" \in Label /\ QuietMove("create", "free_params")
  BY Zenon DEF Label, Calling, QuietMove
<1> QED  BY <1>1, CreateMade, GotoStep, Zenon DEF Create, Makes

-----------------------------------------------------------------------------
(* The semaphores of a child.                                              *)

\* The parent takes the load_sema of its child.
Lowers(t, c) == th' = [th EXCEPT ![c].load_sema = @ - 1, ![t].pc = "load_read"]

\* Two ways for a struct thread to hold what its label says.
LEMMA LocalSame ==
  ASSUME NEW r, NEW s, LocalOK(s), SamePagesAs(r, s), r.pc = s.pc, r.exe = s.exe,
         r.fd = s.fd, r.kpage = s.kpage, r.upage = s.upage, r.wait_sema = s.wait_sema,
         r.child = s.child, s.pc \notin Loading \cup {"new"}
  PROVE  LocalOK(r)
  BY DEF LocalOK, SamePagesAs

LEMMA LoadReadOK ==
  ASSUME NEW r, NEW s, LocalOK(s), Like(r, s), s.pc = "load_down", r.pc = "load_read",
         r.child # NULL
  PROVE  LocalOK(r)
  BY DEF LocalOK, Like, Loading, HasExe, Calls, Creating, Installing

\* sema_down (&child->load_sema).
LEMMA LoadDown ==
  ASSUME ProcInv, NEW t \in Thread, At(t, "load_down"), NEW c, c = th[t].child,
         ChildLive(t), th[c].load_sema # 0, Lowers(t, c),
         UNCHANGED <<current, cr3, kpage, frames, file, file_lock, next_tid, stopped>>
  PROVE  ProcInv'
<1> DEFINE n == th[c].load_sema - 1
           r == [th[t] EXCEPT !.pc = "load_read"]
           s == [th[c] EXCEPT !.load_sema = n]
<1>1. /\ TypeOK /\ PageInv /\ ExecInv /\ LocalInv /\ Alive(t) /\ current = t
      /\ th[t] \in ThreadType
  BY AtFacts, Zenon DEF ProcInv
<1>2. th[t].pc = "load_down" /\ LocalOK(th[t]) /\ th[t].pc \in Execing
  BY AtFacts, Zenon DEF Execing
<1>3. c \in Thread
  <2>1. c \in Ptr(Thread)  BY <1>1 DEF ThreadType
  <2>2. c # NULL  BY <1>2, Zenon DEF LocalOK
  <2> QED  BY <2>1, <2>2, ZenonT(30) DEF Ptr
<1>4. Alive(c) /\ th[c].tid = th[t].ctid  BY DEF ChildLive, Live, Alive
<1>5. c # t  BY <1>1, <1>2, <1>4, Zenon DEF ExecInv
<1>6. th[c] \in ThreadType  BY <1>1, <1>3, <1>4, AliveType, Zenon
<1>0. LocalOK(th[c])  BY <1>1, <1>3, <1>4, ZenonT(30) DEF LocalInv
<1>7. n \in Nat
  <2>1. th[c].load_sema \in Nat  BY <1>6, SMTT(30) DEF ThreadType
  <2> QED  BY <2>1
<1>8. "load_read" \in Label  BY Zenon DEF Label, Calling
<1>9. r \in ThreadType /\ r.pc = "load_read" /\ Like(r, th[t])  BY <1>1, <1>8, GotoType
<1>10. r.child = c /\ r.ctid = th[t].ctid  BY <1>1 DEF ThreadType
<1>11. th' = [th EXCEPT ![t] = r, ![c] = s]  BY <1>1, <1>3, <1>5, Zenon DEF TypeOK, Lowers
<1> HIDE DEF n
<1>12. s \in ThreadType  BY <1>6, <1>7, ZenonT(30) DEF ThreadType
<1>13. /\ SamePagesAs(s, th[c]) /\ s.tid = th[c].tid /\ s.pc = th[c].pc
       /\ s.exe = th[c].exe /\ s.fd = th[c].fd /\ s.kpage = th[c].kpage
       /\ s.upage = th[c].upage /\ s.wait_sema = th[c].wait_sema
       /\ s.child = th[c].child /\ s.ctid = th[c].ctid
  BY <1>6 DEF ThreadType, SamePagesAs
<1>14. s \in Ptr(ThreadType) /\ s # NULL  BY <1>12, ThreadPtr, Zenon
<1> HIDE DEF r, s
<1>15. LocalOK(r) /\ th[c].pc \notin Loading \cup {"new"}
  <2>1. th[c].pc \notin Loading \cup {"new"}  BY <1>0, Zenon DEF LocalOK
  <2>2. c # NULL  BY <1>3, NullIsNone, Zenon
  <2>3. LocalOK(r)
    BY <1>2, <1>9, <1>10, <2>2, LoadReadOK, Zenon
  <2> QED  BY <2>1, <2>3, Zenon
<1>16. LocalOK(s)
  BY <1>0, <1>13, <1>15, LocalSame, Zenon
<1>17. Pair(t, c, r, s)  BY <1>1, <1>3, <1>5, <1>9, <1>11, <1>14, PairSet, Zenon
<1>18. /\ SameFile(r, th[t]) /\ SameFile(s, th[c]) /\ r.pagedir = th[t].pagedir
       /\ SamePagesAs(r, th[t])
  BY <1>2, <1>9, <1>13 DEF Like, SameFile, SamePagesAs
<1>19. Hands(t, c, r, s)
  BY <1>9, <1>10, <1>13, <1>14, <1>15 DEF Like, Hands, Creating, Loading
<1>20. ChildTo(c, s)  BY <1>4, <1>14, <1>16, <1>18, Zenon DEF ChildTo
<1>21. OthersKeep(c)  BY <1>3, <1>17, <1>18, PairKeeps, Zenon
<1>22. th'[c] = s /\ (Alive(c)' <=> s # NULL)  BY <1>17, PairAfter
<1>23. SameRoles(c)  BY <1>4, <1>13, <1>14, <1>22, Zenon DEF SameRoles, SamePagesAs, Dir
<1>24. PageInv'  BY <1>1, <1>21, <1>23, PageKeeps, Zenon DEF OthersKeep
<1>25. kpage' \in [KPage -> Ptr(Content)] /\ SameMaps
  BY <1>1, Zenon DEF SameMaps, Maps, TypeOK
<1> QED
  BY <1>2, <1>3, <1>4, <1>9, <1>14, <1>15, <1>17, <1>18, <1>19, <1>20, <1>24, <1>25,
     ChildStep, Zenon

\* Both semaphores, with a child that is there or gone.
LEMMA SemaDownStep ==
  ASSUME ProcInv, NEW t \in Thread, SemaDown(t)
  PROVE  ProcInv'
<1>1. CASE wild  BY <1>1, StopStep, Zenon DEF wild
<1>2. ASSUME At(t, "wait_down") \/ At(t, "wait_asleep"), ChildLive(t)
      PROVE  FALSE
  <2>1. /\ LocalInv /\ th[t].pc \in {"wait_down", "wait_asleep"}
        /\ LocalOK(th[t]) /\ th[t] \in ThreadType
    BY <1>2, AtFacts, ZenonT(30) DEF ProcInv
  <2>2. th[t].child \in Ptr(Thread)  BY <2>1 DEF ThreadType
  <2>3. th[t].child \in Thread  BY <2>1, <2>2, Zenon DEF LocalOK, Ptr
  <2>4. th[th[t].child] # NULL  BY <1>2 DEF ChildLive, Live
  <2>5. th[th[t].child].wait_sema = 0  BY <2>1, <2>3, <2>4, Zenon DEF LocalInv, LocalOK, Alive
  <2> QED  BY <1>2, <2>1, <2>5, Zenon DEF Blocked, SemaDown
<1>3. CASE ~wild
  <2>1. At(t, "load_down") /\ ChildLive(t) /\ ~Blocked(t)  BY <1>2, <1>3, Zenon DEF SemaDown
  <2>2. th[t].pc = "load_down" /\ th[th[t].child].load_sema # 0
    BY <2>1, Zenon DEF Blocked, At
  <2> QED  BY <1>3, <2>1, <2>2, LoadDown, Zenon DEF SemaDown, Lowers
<1> QED  BY <1>1, <1>3, Zenon

-----------------------------------------------------------------------------
(* The end of a thread.                                                    *)

\* The page of t is freed, and nothing of it was left.
LEMMA DeathStep ==
  ASSUME ProcInv, NEW t \in Thread, Alive(t), th[t].pc = "die",
         th' = [th EXCEPT ![t] = NULL],
         UNCHANGED <<kpage, frames, file, file_lock, next_tid>>
  PROVE  /\ th' \in [Thread -> Ptr(ThreadType)]
         /\ LocalInv' /\ TidInv' /\ ExecInv' /\ LoadInv' /\ LockInv' /\ FileInv'
         /\ PageInv' /\ FrameInv'
<1>1. /\ TypeOK /\ LocalInv /\ TidInv /\ ExecInv /\ LoadInv /\ LockInv /\ FileInv
      /\ PageInv /\ FrameInv /\ LocalOK(th[t])
  BY Zenon DEF ProcInv, LocalInv
<1>2. /\ th' \in [Thread -> Ptr(ThreadType)] /\ th'[t] = NULL
      /\ \A u \in Thread \ {t} : th'[u] = th[u]
  BY <1>1 DEF TypeOK, Ptr
<1>3. \A u \in Thread : Alive(u)' => Alive(u) /\ u # t /\ th'[u] = th[u]
  BY <1>2, Zenon DEF Alive
<1>4. LocalInv'
  <2>1. \A u \in Thread : Alive(u)' => LocalOK(th'[u])  BY <1>1, <1>3, Zenon DEF LocalInv
  <2> QED  BY <2>1, Zenon DEF LocalInv, LocalOK
<1>5. TidInv'  BY <1>1, <1>3, Zenon DEF TidInv
<1>6. ExecInv'
  <2>1. ASSUME NEW u \in Thread, Alive(u)', th'[u].pc \in Creating
        PROVE  /\ th'[u].child \in Thread /\ th'[th'[u].child] # NULL
               /\ th'[th'[u].child].pc = "new" /\ th'[th'[u].child].tid = th'[u].ctid
    <3>1. /\ th[u].child \in Thread /\ Alive(th[u].child) /\ th'[u] = th[u]
          /\ th[th[u].child].pc = "new" /\ th[th[u].child].tid = th[u].ctid
      BY <1>1, <1>3, <2>1, Zenon DEF ExecInv
    <3>2. th'[th[u].child] = th[th[u].child]  BY <1>2, <3>1, Zenon
    <3> QED  BY <3>1, <3>2, Zenon DEF Alive
  <2>2. \A u \in Thread : Alive(u)' /\ th'[u].pc \in Execing =>
          th'[u].ctid < next_tid /\ th'[u].ctid # th'[u].tid
    BY <1>1, <1>3, Zenon DEF ExecInv
  <2>3. ASSUME NEW u \in Thread, NEW v \in Thread,
               Alive(u)', th'[u].pc \in Execing, Alive(v)', th'[v].pc \in Execing,
               th'[u].ctid = th'[v].ctid
        PROVE  u = v
    <3>1. th'[u] = th[u] /\ th'[v] = th[v] /\ Alive(u) /\ Alive(v)  BY <1>3, <2>3, Zenon
    <3> QED  BY <1>1, <2>3, <3>1, Zenon DEF ExecInv
  <2> QED  BY <2>1, <2>2, <2>3, Zenon DEF ExecInv, Alive
<1>7. LoadInv'
  <2> SUFFICES ASSUME NEW u \in Thread, NEW c \in Thread, Alive(u)', Alive(c)',
                      th'[c].tid = th'[u].ctid
               PROVE  /\ th'[u].pc \in {"get_child", "load_down"} =>
                           th'[c].pc \in Loading \/ th'[c].load_sema # 0
                      /\ th'[u].pc = "load_read" => th'[c].pc \notin Loading \cup {"new"}
    BY Zenon DEF LoadInv
  <2>1. th'[u] = th[u] /\ th'[c] = th[c] /\ Alive(u) /\ Alive(c)  BY <1>3, Zenon
  <2> QED  BY <1>1, <2>1, Zenon DEF LoadInv
<1>8. LockInv'
  <2>1. file_lock # NULL => file_lock \in Thread /\ file_lock # t
    BY <1>1, Zenon DEF TypeOK, Ptr, LockInv, FileLockLive
  <2>2. file_lock # NULL => th'[file_lock] = th[file_lock]  BY <1>2, <2>1, Zenon
  <2>3. FileLockLive'  BY <1>1, <2>2, Zenon DEF LockInv, FileLockLive
  <2>4. \A u \in Thread : Alive(u)' /\ th'[u].pc \in {"open", "transfer"} => file_lock = u
    BY <1>1, <1>3, ZenonT(30) DEF LockInv
  <2> QED  BY <2>3, <2>4, Zenon DEF LockInv
<1>9. FileInv'  BY <1>1, <1>3 DEF FileInv
<1>10. /\ Dir(t) = NULL /\ th[t].params = NULL /\ th[t].new = NULL /\ th[t].kpage = NULL
  BY <1>1 DEF LocalOK, Dir, Loading, Calls, Creating, Installing
<1>11. OthersKeep(t) /\ ~Alive(t)'
  BY <1>2, Zenon DEF OthersKeep, SameRoles, Dir, Alive
<1>12. PageInv'  BY <1>1, <1>10, <1>11, PageBare, Zenon
<1>13. SameMaps  BY Zenon DEF SameMaps, Maps
<1>14. SameFills
  <2> SUFFICES ASSUME NEW u \in Thread, NEW f \in Frame
               PROVE  Fills(u, f)' <=> Fills(u, f)
    BY Zenon DEF SameFills
  <2>1. f # NULL  BY NullIsNone, Zenon
  <2> QED  BY <1>2, <1>10, <2>1, Zenon DEF Fills, Alive
<1>15. FrameInv'  BY <1>1, <1>13, <1>14, FrameKeeps, Zenon
<1> QED  BY <1>2, <1>4, <1>5, <1>6, <1>7, <1>8, <1>9, <1>12, <1>15, Zenon

\* thread_schedule_tail() frees the page of a thread that died.
LEMMA DieStep ==
  ASSUME ProcInv, NEW t \in Thread, Die(t)
  PROVE  ProcInv'
<1>1. Alive(t) /\ current = t /\ th[t].pc = "die" /\ TypeOK
  BY AtFacts, Zenon DEF Die, ProcInv
<1>2. /\ th' = [th EXCEPT ![t] = NULL]
      /\ UNCHANGED <<kpage, frames, file, file_lock, next_tid, stopped>>
  BY Zenon DEF Die
<1>3. PICK n \in Thread \cup {"idle"} :
        next_thread_to_run(n) /\ current' = n /\ process_activate(n)
  BY Zenon DEF Die
<1>4. /\ th' \in [Thread -> Ptr(ThreadType)]
      /\ LocalInv' /\ TidInv' /\ ExecInv' /\ LoadInv' /\ LockInv' /\ FileInv'
      /\ PageInv' /\ FrameInv'
  BY <1>1, <1>2, DeathStep, Zenon
<1>5. CASE n = "idle"
  <2>1. cr3' = NULL /\ current' = "idle"
    BY <1>3, <1>5, Zenon DEF process_activate, pagedir_activate
  <2>2. CpuInv'  BY <2>1, Zenon DEF CpuInv
  <2>3. TypeOK'  BY <1>1, <1>2, <1>4, <2>1, Zenon DEF TypeOK, Ptr
  <2> QED  BY <1>4, <2>2, <2>3, Zenon DEF ProcInv
<1>6. CASE n # "idle"
  <2>1. n \in Thread /\ n # t /\ Alive(n) /\ th[n].pc # "new"
    BY <1>1, <1>3, <1>6, Zenon DEF next_thread_to_run, Ready, Alive
  <2>2. cr3' = th[n].pagedir /\ th[n].pagedir \in Ptr(KPage) /\ current' = n
    BY <1>1, <1>3, <1>6, <2>1, RoleTypes, Zenon DEF process_activate, pagedir_activate
  <2>3. th'[n] = th[n]  BY <1>1, <1>2, <2>1 DEF TypeOK
  <2>4. CpuInv'  BY <1>6, <2>1, <2>2, <2>3, Zenon DEF CpuInv, Alive
  <2>5. TypeOK'  BY <1>1, <1>2, <1>4, <2>1, <2>2, Zenon DEF TypeOK
  <2> QED  BY <1>4, <2>4, <2>5, Zenon DEF ProcInv
<1> QED  BY <1>5, <1>6, Zenon

-----------------------------------------------------------------------------
(* The theorems.                                                           *)

\* The invariant holds when the first process starts.
LEMMA InitInv == Init => ProcInv
<1> SUFFICES ASSUME Init
             PROVE  ProcInv
  OBVIOUS
<1> DEFINE s == init_thread(1, "user")
<1>1. 1 \in 1..MaxTid /\ 2 \in 1..MaxTid + 1 /\ 1 < 2 /\ main \in Thread
  BY ProcessAssumption
<1>2. /\ s \in ThreadType /\ s.tid = 1 /\ s.pc = "user" /\ LocalOK(s) /\ Bare(s)
      /\ s.params = NULL /\ s.new = NULL /\ s.fd_table = NULL
      /\ s.pagedir = NULL /\ s.pd = NULL
  BY <1>1, NewThread, Zenon
<1> HIDE DEF s
<1>3. /\ th = [t \in Thread |-> IF t = main THEN s ELSE NULL] /\ current = main
      /\ cr3 = NULL /\ kpage = [k \in KPage |-> NULL] /\ frames = {}
      /\ file = [f \in File |-> NULL] /\ file_lock = NULL /\ next_tid = 2 /\ stopped = "no"
  BY Zenon DEF Init, s
<1>4. s \in Ptr(ThreadType) /\ s # NULL  BY <1>2, ThreadPtr, Zenon
<1>5. /\ NULL \in Ptr(ThreadType) /\ NULL \in Ptr(KPage) /\ NULL \in Ptr(Content)
      /\ NULL \in Ptr(1..MaxTid) /\ NULL \in Ptr(Thread)
  BY Zenon DEF Ptr
<1>6. th \in [Thread -> Ptr(ThreadType)]  BY <1>3, <1>4, <1>5, Zenon
<1>7. TypeOK  BY <1>1, <1>3, <1>5, <1>6, Zenon DEF TypeOK
<1>8. th[main] = s /\ Alive(main) /\ \A t \in Thread : Alive(t) => t = main
  BY <1>1, <1>3, <1>4, Zenon DEF Alive
<1>9. LocalInv  BY <1>2, <1>8, Zenon DEF LocalInv
<1>10. TidInv  BY <1>1, <1>2, <1>3, <1>8 DEF TidInv
<1>11. "user" \notin Execing \cup Creating \cup Loading  BY DEF Execing, Creating, Loading
<1>12. ExecInv  BY <1>2, <1>8, <1>11, Zenon DEF ExecInv
<1>13. LoadInv  BY <1>2, <1>8, Zenon DEF LoadInv
<1>14. LockInv  BY <1>2, <1>3, <1>8, Zenon DEF LockInv, FileLockLive
<1>15. FileInv  BY <1>2, <1>8 DEF FileInv, Bare
<1>16. CpuInv  BY <1>2, <1>3, <1>8, ProcessAssumption, Zenon DEF CpuInv
<1>17. Dir(main) = NULL  BY <1>2, <1>8, Zenon DEF Dir
<1>18. RoleInv  BY <1>2, <1>8, <1>17, Zenon DEF RoleInv, Roles
<1>19. \A k \in KPage : kpage[k] = NULL  BY <1>3, Zenon
<1>20. OwnInv  BY <1>8, <1>19, Zenon DEF OwnInv, Own
<1>21. PageInv  BY <1>18, <1>19, <1>20, Zenon DEF PageInv, PlainInv
<1>22. ASSUME NEW f \in Frame
       PROVE  FrameOK(f)
  <2>1. \A k \in KPage, u \in UPage : ~Maps(k, u, f)  BY <1>19, Zenon DEF Maps
  <2>2. \A t \in Thread : ~Fills(t, f)  BY <1>2, <1>8, NullIsNone, Zenon DEF Fills, Bare
  <2>3. f \notin frames /\ ~Held(f)  BY <1>3, <2>1, <2>2, Zenon DEF Held
  <2> QED  BY <2>1, <2>2, <2>3, Zenon DEF FrameOK
<1> QED
  BY <1>7, <1>9, <1>10, <1>12, <1>13, <1>14, <1>15, <1>16, <1>21, <1>22, Zenon
  DEF ProcInv, FrameInv

\* The steps of a program keep it,
LEMMA UserSteps ==
  ASSUME ProcInv, NEW t \in Thread, UserStep(t)
  PROVE  ProcInv'
  BY ExecuteStep, EndSteps, HaltSteps, WaitStep, FileCallStep, CloseStep, Zenon DEF UserStep

\* and those of the kernel,
LEMMA KernelSteps ==
  ASSUME ProcInv, NEW t \in Thread, KernelStep(t)
  PROVE  ProcInv'
<1>1. CASE Create(t) \/ FdTable(t) \/ Push(t) \/ FreeParams(t)
           \/ GetChild(t) \/ WaitSleep(t) \/ SemaDown(t) \/ LoadRead(t)
  BY <1>1, CreateStep, FdTableStep, PushStep, FreeParamsStep, GetChildStep, WaitSleepStep,
     SemaDownStep, LoadReadStep, Zenon
<1>2. CASE PagedirCreate(t) \/ OpenExe(t) \/ Header(t) \/ Segment(t) \/ SetupStack(t)
           \/ Install(t) \/ CloseExe(t) \/ LoadUp(t) \/ FreeOwn(t)
  BY <1>2, PagedirCreateStep, OpenExeStep, HeaderStep, SegmentStep, SetupStackStep,
     InstallStep, CloseExeStep, LoadUpStep, FreeOwnStep, Zenon
<1>3. CASE Exit(t) \/ Clear(t) \/ Deactivate(t) \/ Destroy(t) \/ Die(t)
           \/ Lock(t) \/ Open(t) \/ Transfer(t)
  BY <1>3, ExitStep, ClearStep, DeactivateStep, DestroyStep, DieStep, LockAction, OpenStep,
     TransferStep, Zenon
<1> QED  BY <1>1, <1>2, <1>3, Zenon DEF KernelStep

\* and all others.
LEMMA NextInv == ProcInv /\ [Next]_vars => ProcInv'
<1> SUFFICES ASSUME ProcInv, [Next]_vars
             PROVE  ProcInv'
  OBVIOUS
<1>1. CASE Next  BY <1>1, UserSteps, KernelSteps, SwitchStep, Zenon DEF Next
<1>2. CASE UNCHANGED vars
  <2>1. stopped \in {"no", "halt", "wild"}  BY Zenon DEF ProcInv, TypeOK
  <2> QED  BY <1>2, <2>1, StopStep, ZenonT(30) DEF vars
<1> QED  BY <1>1, <1>2

\* The invariant holds in every state of every behaviour of Process, for any
\* number of threads, pages, frames and files: what exec(), load(), wait(),
\* exit() and the file system calls leave in a struct thread at each point, who
\* owns each page, frame and open file, and what a parent knows of its child.
THEOREM ProcessesSound == Spec => []ProcInv
  BY InitInv, NextInv, PTL DEF Spec

\* The CPU never translates with a page directory that process_exit() has
\* destroyed; every page of the kernel pool in use has one owner, or is an
\* fd_table that was left behind, and no free one has any; and every frame in
\* use is mapped by one directory at one page, or held by one load().
THEOREM AddressSpacesAreSound == Spec => []AddressSpacesSound
<1>1. ProcInv => AddressSpacesSound
  BY CpuSound, AccountsSound, Zenon DEF ProcInv, AddressSpacesSound
<1> QED  BY <1>1, ProcessesSound, PTL

\* exec() reads load_succeeded only after the child is through load(), and a
\* parent that sleeps on load_sema has a child that will raise it.
THEOREM LoadsHandshake == Spec => []LoadHandshake
  BY HandshakeSound, ProcessesSound, PTL

\* Every descriptor leads to a file that is open for its process, and that no
\* other descriptor leads to; and the holder of file_lock is alive, so that no
\* process dies with it.
THEOREM FilesAreSound == Spec => []FilesSound
  BY OpenFilesOwn, ProcessesSound, PTL
=============================================================================
