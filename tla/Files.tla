-------------------------------- MODULE Files --------------------------------
(***************************************************************************)
(* The file system as its callers use it: the descriptors and pipes of      *)
(* fs/vfs.c behind the system calls, the generated files of fs/procfs.c and *)
(* fs/devfs.c, and the commands of the kernel shell (boot/kernel_stub.c),   *)
(* of the window terminal (gui/terminal.c) and of the editor and packages   *)
(* (apps/apps.c) that change the tree.                                      *)
(*                                                                          *)
(* Everything runs in task 0, one call after the other.  What is hard is    *)
(* what a caller keeps between two calls: node indexes in descriptors, in   *)
(* working directories and in procfs.c, which ramfs_remove frees and the    *)
(* next creation hands out again.                                           *)
(***************************************************************************)
EXTENDS Ramfs

CONSTANTS
  BootDirs,    \* the directories of the root made by ramfs_init, in order
  BootFiles,   \* the files ramfs_init makes in the first of them
  GenFiles,    \* <<directory, file>> of procfs_init and devfs_init
  NumFds,      \* VFS_MAX_FD
  MaxPipes,    \* VFS_MAX_PIPES
  PipeBuf,     \* VFS_PIPE_BUF
  Mixes,       \* the sets of callers that are followed together
  Names,       \* input: the words a user types
  Paths,       \* input: the paths a user types
  Datas,       \* input: the byte sequences that are written
  Counts,      \* input: the numbers of bytes that are read
  SeekTo,      \* input: the positions vfs_seek is asked for
  MaxFed       \* bound: the bytes a pipe takes in its life

Fd == 0 .. NumFds - 1
Pipe == 0 .. MaxPipes - 1
GenRange == DOMAIN GenFiles

Words == Short \cup Long

ASSUME FilesAssumption ==
  /\ NumFds \in Nat /\ MaxPipes \in Nat /\ PipeBuf \in Nat \ {0}
  /\ SeekTo \subseteq 0 .. MaxContent /\ Counts \subseteq Nat
  /\ Names \subseteq Words
  /\ \A t \in Paths : t \in [abs : BOOLEAN, words : Seq(Words)]
  /\ \A d \in Datas : d \in Seq({d[k] : k \in DOMAIN d})

\* What ramfs_init and the two mounts make starts with /home and fits the pool.
ASSUME BootAssumption ==
  /\ BootDirs \in Seq(Words) /\ BootFiles \in Seq(Words)
  /\ GenFiles \in Seq(Words \X Words)
  /\ BootDirs # <<>> /\ BootDirs[1] = "home" /\ "home" \in Short
  /\ MaxNodes > 1 /\ MaxChildren > 0

VARIABLES
  nodes,
  fds,        \* the descriptors of the kernel task's table
  inUse,      \* that table is taken
  vcwd,       \* its working directory
  pipes,      \* the rings; `fed' and `drawn' are the history of a ring
  made,       \* pipe_count
  gen,        \* the node indexes procfs.c and devfs.c keep
  kernel,     \* the version of what the generated files show
  shCwd,      \* the kernel shell's working directory, a text
  tNode,      \* the window terminal's working directory
  tCwd,       \* and its text
  mix

fdVars   == <<fds, inUse, vcwd>>
pipeVars == <<pipes, made>>
userVars == <<shCwd, tNode, tCwd>>
still    == <<gen, kernel, mix>>
vars     == <<nodes, fdVars, pipeVars, userVars, still>>

NoFd      == [type |-> "none", node |-> None, off |-> 0, append |-> FALSE, pipe |-> None]
Console   == [NoFd EXCEPT !.type = "console"]
NoPipe    == [ring |-> [k \in 0 .. PipeBuf - 1 |-> "0"], rpos |-> 0, wpos |-> 0,
              count |-> 0, ropen |-> FALSE, wopen |-> FALSE, fed |-> <<>>, drawn |-> <<>>]
HomeText  == [abs |-> TRUE, words |-> <<"home">>]
RootText  == [abs |-> TRUE, words |-> <<>>]

\* What the generators print: the name of the file, and the state it is made
\* from.  Nothing the processor or the boot loader tells changes later.
UptimeText(k)  == <<"uptime", k["ticks"]>>
MeminfoText(k) == <<"meminfo", k["heap"]>>
LoadavgText(k) == <<"loadavg", k["sched"]>>
TasksText(k)   == <<"tasks", k["sched"]>>
NetText(k)     == <<"net", k["net"]>>
RandomText(k)  == <<"random", k["ticks"]>>
CpuinfoText    == <<"cpuinfo">>
Fb0Text        == <<"fb0">>
\* Mutant: a file is filled by the generator of another
GenTextMixed(f, k) == IF f = "uptime" THEN MeminfoText(k) ELSE <<f>>
GenText(f, k) ==
  CASE f = "uptime" -> UptimeText(k)   [] f = "meminfo" -> MeminfoText(k)
    [] f = "loadavg" -> LoadavgText(k) [] f = "tasks" -> TasksText(k)
    [] f = "net" -> NetText(k)         [] f = "random" -> RandomText(k)
    [] f = "cpuinfo" -> CpuinfoText    [] f = "fb0" -> Fb0Text
    [] f = "null" -> <<>>              [] OTHER -> <<f>>
Sources == {"ticks", "heap", "sched", "net"}

\* The tree after kernel_main's phase 8b, one entry after the other.
BootList ==
  [k \in DOMAIN BootDirs |-> <<RootText, BootDirs[k], TRUE, <<>>>>]
  \o [k \in DOMAIN BootFiles |-> <<HomeText, BootFiles[k], FALSE, <<"t">>>>]
Planted(ns, e) ==
  LET in == AddedIfPossible(ns, Resolve(ns, e[1]), Word(e[2]), e[3])
  IN IF e[3] \/ in = ns THEN in ELSE Written(in, Fresh(ns), e[4])
BootTree ==
  LET step[k \in 0 .. Len(BootList)] ==
        IF k = 0 THEN EmptyPool ELSE Planted(step[k - 1], BootList[k])
  IN step[Len(BootList)]

\* procfs_init and devfs_init: the directory, its files, their first content.
GenDir(g)  == [abs |-> TRUE, words |-> <<GenFiles[g][1]>>]
GenPath(g) == [abs |-> TRUE, words |-> <<GenFiles[g][1], GenFiles[g][2]>>]
WithGenFile(ns, g) ==
  LET in == AddedIfPossible(ns, Root, Word(GenFiles[g][1]), TRUE)
  IN AddedIfPossible(in, Resolve(in, GenDir(g)), Word(GenFiles[g][2]), FALSE)
MountTree ==
  LET step[k \in 0 .. Len(GenFiles)] ==
        IF k = 0 THEN BootTree ELSE WithGenFile(step[k - 1], k)
  IN step[Len(GenFiles)]
Versions == {"v0", "v1"}
FirstKernel == [s \in Sources |-> "v0"]
Generated(ns, g) ==
  Written(ns, Resolve(MountTree, GenPath(g)), GenText(GenFiles[g][2], FirstKernel))
Mounted ==
  LET step[k \in 0 .. Len(GenFiles)] ==
        IF k = 0 THEN MountTree ELSE Generated(step[k - 1], k)
  IN step[Len(GenFiles)]

\* vfs_init and vfs_alloc_task, from syscall_init
StandardFds == [f \in Fd |-> IF f <= 2 THEN Console ELSE NoFd]

Init ==
  /\ nodes = Mounted
  /\ fds = StandardFds /\ inUse = TRUE /\ vcwd = Root
  /\ pipes = [p \in Pipe |-> NoPipe] /\ made = 0
  /\ gen = [g \in GenRange |-> Resolve(Mounted, GenPath(g))]
  /\ kernel = FirstKernel
  /\ shCwd = RootText /\ tNode = Resolve(Mounted, HomeText) /\ tCwd = HomeText
  /\ mix \in Mixes

----------------------------------------------------------------------------
(* The kernel shell.  Its files are made in /home whatever its directory.   *)
Home(ns) == Resolve(ns, HomeText)

ShTouch(w) ==
  /\ nodes' = AddedIfPossible(nodes, Home(nodes), Word(w), FALSE)
  /\ UNCHANGED <<fdVars, pipeVars, userVars, still>>

ShMkdir(w) ==
  /\ nodes' = AddedIfPossible(nodes, Home(nodes), Word(w), TRUE)
  /\ UNCHANGED <<fdVars, pipeVars, userVars, still>>

\* cmd_write: the file is looked for, made if there is none, then filled.
FoundOrMade(ns, i, p, t) ==
  IF i # None THEN <<ns, i>>
  ELSE IF MayAdd(ns, p, t) THEN <<Added(ns, p, t, FALSE), Fresh(ns)>>
  ELSE <<ns, None>>
ShWrite(w, d) ==
  LET r == FoundOrMade(nodes, Resolve(nodes, [HomeText EXCEPT !.words = Append(@, w)]),
                       Home(nodes), Word(w))
  IN /\ Home(nodes) # None
     /\ nodes' = Written(r[1], r[2], d)
     /\ UNCHANGED <<fdVars, pipeVars, userVars, still>>

ShRm(t) ==
  /\ MayRemove(nodes, Resolve(nodes, t))
  /\ nodes' = Removed(nodes, Resolve(nodes, t))
  /\ UNCHANGED <<fdVars, pipeVars, userVars, still>>

\* cmd > path and cmd >> path: redirect_open_file passes the whole path as name.
ShRedirect(t, d, append) ==
  LET r == FoundOrMade(nodes, Resolve(nodes, t), Home(nodes), t)
  IN /\ nodes' = IF append THEN Appended(r[1], r[2], d) ELSE Written(r[1], r[2], d)
     /\ UNCHANGED <<fdVars, pipeVars, userVars, still>>

\* cmd_cd: the directory is kept as a text
Joined(cwd, t) == IF t.abs THEN t ELSE [cwd EXCEPT !.words = @ \o t.words]
ShCd(t) ==
  /\ shCwd' = IF t = Word("..")
              THEN [shCwd EXCEPT !.words = SubSeq(@, 1, Len(@) - 1)]
              ELSE Joined(shCwd, t)
  /\ t = Word("..") \/ IsDir(nodes, Resolve(nodes, shCwd'))
  /\ Len(shCwd'.words) <= 2
  /\ UNCHANGED <<nodes, fdVars, pipeVars, tNode, tCwd, still>>

\* cat of a generated file: procfs_refresh_file, devfs_refresh_file; the index
\* kept since the boot is written to, whatever has become of its node.
Refreshed(ns, g) == Written(ns, gen[g], GenText(GenFiles[g][2], kernel))
ShCat(g) ==
  /\ nodes' = Refreshed(nodes, g)
  /\ UNCHANGED <<fdVars, pipeVars, userVars, still>>

----------------------------------------------------------------------------
(* The window terminal keeps its directory twice: the node new files go to, *)
(* and the text from which relative paths are resolved.                     *)
TermResolve(t) == Resolve(nodes, Joined(tCwd, t))

TermTouch(t) ==
  /\ TermResolve(t) = None
  /\ nodes' = AddedIfPossible(nodes, tNode, t, FALSE)
  /\ UNCHANGED <<fdVars, pipeVars, userVars, still>>

TermMkdir(t) ==
  /\ nodes' = AddedIfPossible(nodes, tNode, t, TRUE)
  /\ UNCHANGED <<fdVars, pipeVars, userVars, still>>

TermRm(t) ==
  /\ MayRemove(nodes, TermResolve(t))
  /\ nodes' = Removed(nodes, TermResolve(t))
  /\ UNCHANGED <<fdVars, pipeVars, userVars, still>>

NodeText(i) ==
  LET names == PathOf(nodes, i)
      join[k \in 0 .. Len(names)] == IF k = 0 THEN <<>> ELSE join[k - 1] \o names[k].words
  IN [abs |-> TRUE, words |-> join[Len(names)]]
TermCd(t) ==
  LET up == Word("..")
      to == IF t = HomeText THEN Home(nodes)
            ELSE IF t = RootText THEN Root
            ELSE IF t = up THEN (IF IsNode(nodes, tNode) THEN nodes[tNode].parent ELSE None)
            ELSE TermResolve(t)
  IN /\ to # None
     /\ t \notin {HomeText, RootText, up} => IsDir(nodes, to)
     /\ tNode' = to
     /\ tCwd' = IF t \in {HomeText, RootText} THEN t ELSE NodeText(to)
     /\ UNCHANGED <<nodes, fdVars, pipeVars, shCwd, still>>

TermEcho(t, d) ==
  LET r == FoundOrMade(nodes, TermResolve(t), tNode, t)
  IN /\ nodes' = Written(r[1], r[2], d)
     /\ UNCHANGED <<fdVars, pipeVars, userVars, still>>

----------------------------------------------------------------------------
(* The editor saves a new file in the root; the package manager makes a     *)
(* directory tree and goes on as far as it gets.                            *)
EditSave(t, d) ==
  LET r == FoundOrMade(nodes, Resolve(nodes, t), Root, t)
  IN /\ nodes' = Written(r[1], r[2], d)
     /\ UNCHANGED <<fdVars, pipeVars, userVars, still>>

PkgInit(w, d) ==
  LET top  == AddedIfPossible(nodes, Home(nodes), Word(w), TRUE)
      sub  == AddedIfPossible(top, Fresh(nodes), Word("src"), TRUE)
      file == AddedIfPossible(sub, Fresh(top), Word("main"), FALSE)
  IN /\ MayAdd(nodes, Home(nodes), Word(w))
     /\ nodes' = IF sub = top THEN top
                 ELSE IF file = sub THEN sub ELSE Written(file, Fresh(sub), d)
     /\ UNCHANGED <<fdVars, pipeVars, userVars, still>>

----------------------------------------------------------------------------
(* fs/vfs.c: one call each.  A call that fails changes nothing, unless said. *)
FreeFds == {f \in Fd : fds[f].type = "none"}
IsOpen(f) == fds[f].type # "none"

\* A pipe end is closed with the first descriptor that goes, for there is a flag
\* for each end and no count.
ClosedEnd(ps, e) ==
  IF e.pipe \notin Pipe THEN ps
  ELSE IF e.type = "read" THEN [ps EXCEPT ![e.pipe].ropen = FALSE]
  ELSE IF e.type = "write" THEN [ps EXCEPT ![e.pipe].wopen = FALSE]
  ELSE ps

AllocTask ==
  /\ ~inUse
  /\ inUse' = TRUE /\ vcwd' = Root /\ fds' = StandardFds
  /\ UNCHANGED <<nodes, pipeVars, userVars, still>>

FreeTask ==
  /\ inUse
  /\ inUse' = FALSE
  /\ fds' = [f \in Fd |-> NoFd]
  /\ pipes' = [p \in Pipe |->
       [pipes[p] EXCEPT
          !.ropen = @ /\ ~\E f \in Fd : fds[f].type = "read" /\ fds[f].pipe = p,
          !.wopen = @ /\ ~\E f \in Fd : fds[f].type = "write" /\ fds[f].pipe = p]]
  /\ UNCHANGED <<nodes, vcwd, made, userVars, still>>

\* vfs_open.  With O_CREAT the file is made before a descriptor is looked for.
\* ramfs resolves no relative path: it is a new name in the working directory.
OpenNull ==
  /\ inUse /\ FreeFds # {}
  /\ fds' = [fds EXCEPT ![Lowest(FreeFds)] = [NoFd EXCEPT !.type = "null"]]
  /\ UNCHANGED <<nodes, inUse, vcwd, pipeVars, userVars, still>>

Folder(t) == [t EXCEPT !.words = SubSeq(@, 1, Len(@) - 1)]
Parent(t) == IF t.abs THEN Resolve(nodes, Folder(t)) ELSE vcwd
BaseName(t) == Word(t.words[Len(t.words)])

Open(t, create, trunc, append) ==
  LET found == Resolve(nodes, t)
      r == IF found # None \/ ~create THEN <<nodes, found>>
           ELSE FoundOrMade(nodes, None, Parent(t), IF t.abs THEN BaseName(t) ELSE t)
      ok == IsFile(r[1], r[2]) /\ FreeFds # {}
  IN /\ inUse /\ t.words # <<>>
     /\ nodes' = IF ok /\ trunc THEN Written(r[1], r[2], <<>>) ELSE r[1]
     /\ fds' = IF ~ok THEN fds
               ELSE [fds EXCEPT ![Lowest(FreeFds)] =
                       [type |-> "file", node |-> r[2], append |-> append, pipe |-> None,
                        off |-> IF append /\ ~trunc THEN Len(r[1][r[2]].content) ELSE 0]]
     /\ UNCHANGED <<inUse, vcwd, pipeVars, userVars, still>>

\* What ramfs_read gives for the node of a descriptor, whoever has it now
Content(f) == nodes[fds[f].node].content
Live(f)    == IsFile(nodes, fds[f].node)
Least(a, b) == IF a < b THEN a ELSE b

ReadFile(f, n) ==
  /\ fds[f].type = "file" /\ Live(f)
  /\ fds[f].off < Len(Content(f))
  /\ fds' = [fds EXCEPT ![f].off = @ + Least(n, Len(Content(f)) - @)]
  /\ UNCHANGED <<nodes, inUse, vcwd, pipeVars, userVars, still>>

\* vfs_write at an offset: the file is read whole, the gap up to the offset
\* filled, the bytes copied in, and the file written back whole.
Fill(s, n) == s \o [k \in 1 .. (IF n > Len(s) THEN n - Len(s) ELSE 0) |-> "0"]
\* Mutant: the file ends with what was written
OverlaidCut(s, off, d) == First(off, Fill(s, off)) \o d
Overlaid(s, off, d) ==
  First(off, Fill(s, off)) \o d \o SubSeq(s, off + Len(d) + 1, Len(s))
Existing(f) == IF Live(f) THEN Content(f) ELSE <<>>
Room(f, d)  == Least(Len(d), MaxContent - fds[f].off)

WriteAt(f, d) ==
  /\ fds[f].type = "file" /\ ~fds[f].append
  /\ nodes' = Written(nodes, fds[f].node, Overlaid(Existing(f), fds[f].off, First(Room(f, d), d)))
  /\ fds' = [fds EXCEPT ![f].off = @ + Room(f, d)]
  /\ UNCHANGED <<inUse, vcwd, pipeVars, userVars, still>>

WriteAppend(f, d) ==
  /\ fds[f].type = "file" /\ fds[f].append
  /\ nodes' = Appended(nodes, fds[f].node, d)
  /\ UNCHANGED <<fdVars, pipeVars, userVars, still>>

Close(f) ==
  /\ IsOpen(f)
  /\ fds' = [fds EXCEPT ![f] = NoFd]
  /\ pipes' = ClosedEnd(pipes, fds[f])
  /\ UNCHANGED <<nodes, inUse, vcwd, made, userVars, still>>

\* vfs_seek, once the position is computed from whence
Seek(f, pos) ==
  /\ fds[f].type = "file"
  /\ fds' = [fds EXCEPT ![f].off = pos]
  /\ UNCHANGED <<nodes, inUse, vcwd, pipeVars, userVars, still>>

\* vfs_dup opens the end of the pipe again; vfs_dup2 does not.
OpenedEnd(ps, e) ==
  IF e.type = "read" THEN [ps EXCEPT ![e.pipe].ropen = TRUE]
  ELSE IF e.type = "write" THEN [ps EXCEPT ![e.pipe].wopen = TRUE]
  ELSE ps
Dup(f) ==
  /\ IsOpen(f) /\ FreeFds # {}
  /\ fds' = [fds EXCEPT ![Lowest(FreeFds)] = fds[f]]
  /\ pipes' = OpenedEnd(pipes, fds[f])
  /\ UNCHANGED <<nodes, inUse, vcwd, made, userVars, still>>

\* The target is closed before the source is copied, also when they are one.
Dup2(f, g) ==
  /\ IsOpen(f)
  /\ LET closed == IF IsOpen(g) THEN [fds EXCEPT ![g] = NoFd] ELSE fds
     IN fds' = [closed EXCEPT ![g] = closed[f]]
  /\ pipes' = ClosedEnd(pipes, fds[g])
  /\ UNCHANGED <<nodes, inUse, vcwd, made, userVars, still>>

\* vfs_pipe: a pipe that was made is never given back.
MakePipe ==
  LET r == Lowest(FreeFds)  w == Lowest(FreeFds \ {r})
  IN /\ made < MaxPipes /\ Cardinality(FreeFds) >= 2
     /\ made' = made + 1
     /\ pipes' = [pipes EXCEPT ![made] = [NoPipe EXCEPT !.ropen = TRUE, !.wopen = TRUE]]
     /\ fds' = [fds EXCEPT ![r] = [NoFd EXCEPT !.type = "read", !.pipe = made],
                           ![w] = [NoFd EXCEPT !.type = "write", !.pipe = made]]
     /\ UNCHANGED <<nodes, inUse, vcwd, userVars, still>>

\* The ring: n bytes from position i on, and the ring after bytes d are put at i
Around(i, n) == (i + n) % PipeBuf
Taken(ring, i, n)  == [k \in 1 .. n |-> ring[Around(i, k - 1)]]
Filled(ring, i, d) ==
  [j \in DOMAIN ring |->
     IF \E k \in DOMAIN d : Around(i, k - 1) = j
     THEN d[CHOOSE k \in DOMAIN d : Around(i, k - 1) = j] ELSE ring[j]]

ReadPipe(f, n) ==
  fds[f].type = "read" /\
  LET p == pipes[fds[f].pipe]  m == Least(n, p.count)
  IN /\ m > 0
     /\ pipes' = [pipes EXCEPT ![fds[f].pipe] =
          [p EXCEPT !.rpos = Around(@, m), !.count = @ - m,
                    !.drawn = @ \o Taken(p.ring, p.rpos, m)]]
     /\ UNCHANGED <<nodes, fdVars, made, userVars, still>>

\* Mutant: one byte more than there is room for
SpaceAndOne(p) == PipeBuf - p.count + 1
Space(p) == PipeBuf - p.count
WritePipe(f, d) ==
  fds[f].type = "write" /\
  LET p == pipes[fds[f].pipe]  s == First(Space(p), d)
  IN /\ p.ropen /\ s # <<>>
     /\ Len(p.fed) + Len(s) <= MaxFed
     /\ pipes' = [pipes EXCEPT ![fds[f].pipe] =
          [p EXCEPT !.ring = Filled(@, p.wpos, s), !.wpos = Around(@, Len(s)),
                    !.count = @ + Len(s), !.fed = @ \o s]]
     /\ UNCHANGED <<nodes, fdVars, made, userVars, still>>

Chdir(t) ==
  /\ IsDir(nodes, Resolve(nodes, t))
  /\ vcwd' = Resolve(nodes, t)
  /\ UNCHANGED <<nodes, fds, inUse, pipeVars, userVars, still>>

KernelChanges(s) ==
  /\ \E v \in Versions \ {kernel[s]} : kernel' = [kernel EXCEPT ![s] = v]
  /\ UNCHANGED <<nodes, fdVars, pipeVars, userVars, gen, mix>>

----------------------------------------------------------------------------
Relative == {Word(w) : w \in Names}
Typed    == Paths \cup Relative

Makes   == \E w \in Names : ShTouch(w) \/ ShMkdir(w)
Removes == \E t \in Paths : ShRm(t)
Shell ==
  \/ \E w \in Names, d \in Datas : ShWrite(w, d)
  \/ \E t \in Paths, d \in Datas, a \in BOOLEAN : ShRedirect(t, d, a)
  \/ \E t \in Typed \cup {Word("..")} : ShCd(t)
Cats == (\E g \in GenRange : ShCat(g)) \/ (\E s \in Sources : KernelChanges(s))
Terminal ==
  \/ \E t \in Relative : TermTouch(t) \/ TermMkdir(t) \/ \E d \in Datas : TermEcho(t, d)
  \/ \E t \in Typed : TermRm(t)
  \/ \E t \in Typed \cup {Word("..")} : TermCd(t)
Apps == \E w \in Names, d \in Datas : EditSave(Word(w), d) \/ PkgInit(w, d)
Tables == AllocTask \/ FreeTask
Opens ==
  \/ OpenNull
  \/ \E t \in Typed : \/ Open(t, FALSE, FALSE, FALSE) \/ Open(t, TRUE, TRUE, FALSE)
                      \/ Open(t, TRUE, FALSE, TRUE)
Chdirs == \E t \in Paths : Chdir(t)
Streams == \E f \in Fd, d \in Datas, n \in Counts :
  ReadFile(f, n) \/ WriteAt(f, d) \/ WriteAppend(f, d)
Seeks == \E f \in Fd, pos \in SeekTo : Seek(f, pos)
Handles == \E f \in Fd : Close(f) \/ Dup(f) \/ \E g \in Fd : Dup2(f, g)
Pipes == MakePipe \/ \E f \in Fd : (\E n \in Counts : ReadPipe(f, n)) \/ (\E d \in Datas : WritePipe(f, d))

Next ==
  \/ "makes" \in mix /\ Makes
  \/ "removes" \in mix /\ Removes
  \/ "shell" \in mix /\ Shell
  \/ "cats" \in mix /\ Cats
  \/ "term" \in mix /\ Terminal
  \/ "apps" \in mix /\ Apps
  \/ "tables" \in mix /\ Tables
  \/ "opens" \in mix /\ Opens
  \/ "chdirs" \in mix /\ Chdirs
  \/ "streams" \in mix /\ inUse /\ Streams
  \/ "seeks" \in mix /\ inUse /\ Seeks
  \/ "handles" \in mix /\ inUse /\ Handles
  \/ "pipes" \in mix /\ inUse /\ Pipes

Spec == Init /\ [][Next]_vars

----------------------------------------------------------------------------
(* Type correctness of the tree, the descriptors and the pipes.             *)
TypeOK ==
  /\ \A i \in NodeId : nodes[i].parent \in NodeId \cup {None}
                       /\ Len(nodes[i].children) <= MaxChildren
                       /\ Len(nodes[i].content) < MaxContent
  /\ \A f \in Fd : fds[f].type \in {"none", "console", "null", "file", "read", "write"}
                   /\ fds[f].node \in NodeId \cup {None}
                   /\ fds[f].pipe \in Pipe \cup {None}
  /\ vcwd \in NodeId /\ tNode \in NodeId /\ inUse \in BOOLEAN
  /\ made \in 0 .. MaxPipes
  /\ \A p \in Pipe : pipes[p].count \in 0 .. PipeBuf

(* The nodes form a tree although descriptors, working directories and the   *)
(* generated files go on using the indexes of removed nodes: every node in   *)
(* use hangs under one directory, once, and every child belongs to its       *)
(* parent (ramfs_create, ramfs_mkdir and ramfs_remove).                      *)
TreeOK == Tree(nodes)

(* No circle and no island: from every node in use the parents lead to the   *)
(* root, so that ramfs_get_path and ".." end.                                *)
LeadsToRoot(i) == \E k \in 0 .. MaxNodes : Ancestors(nodes, i, MaxNodes)[k] = Root
Rooted == \A i \in NodeId : nodes[i].used => LeadsToRoot(i)

(* A file whose name fits is found under it: ramfs_find compares names in    *)
(* full, and no later creation in the same directory hides it.               *)
NamesFindTheirNode ==
  \A i \in NodeId \ {Root} :
    nodes[i].used /\ nodes[i].name # Word(Cut)
      => Find(nodes, nodes[i].parent, nodes[i].name) = i

(* Stale indexes never put bytes into a directory: ramfs_write and           *)
(* ramfs_append test the type, whoever holds the node by now.                *)
DirsHoldNoBytes == \A i \in NodeId : nodes[i].dir => nodes[i].content = <<>>

(* vfs_write computes the room that is left as RAMFS_MAX_CONTENT minus the   *)
(* offset, without a sign: it must never be negative (vfs.c:276).            *)
RoomNeverWraps == \A f \in Fd : fds[f].type = "file" => fds[f].off <= MaxContent

(* Whatever is done through an index that somebody kept, the pool stays one   *)
(* tree of directories with files as leaves, and lengths stay in bounds.     *)
FilesOK == TypeOK /\ TreeOK /\ Rooted /\ DirsHoldNoBytes /\ RoomNeverWraps

(* A pipe hands out the bytes it took, in order and once, across partial     *)
(* writes, partial reads and the wrap of the ring.                           *)
PipeIsFifo ==
  \A p \in Pipe :
    pipes[p].fed = pipes[p].drawn \o Taken(pipes[p].ring, pipes[p].rpos, pipes[p].count)

(* An end of a pipe counts as open only while some descriptor holds it, so a *)
(* writer is told of a broken pipe once the last reader has gone.            *)
OpenEndIsHeld ==
  \A p \in Pipe :
    /\ pipes[p].ropen => \E f \in Fd : fds[f].type = "read" /\ fds[f].pipe = p
    /\ pipes[p].wopen => \E f \in Fd : fds[f].type = "write" /\ fds[f].pipe = p

(* A pipe is a FIFO whose ends are open while somebody can use them.          *)
PipesOK == PipeIsFifo /\ OpenEndIsHeld

(* Writing through a descriptor loses nothing of the file: the bytes before  *)
(* the offset stay, those after the written ones too.                        *)
WriteKeepsRest ==
  [][\A f \in {g \in Fd : fds[g].type = "file" /\ Live(g)}, d \in Datas :
       WriteAt(f, d) =>
         LET old == Content(f)  new == nodes'[fds[f].node].content  off == fds[f].off
         IN /\ Len(new) >= Len(old)
            /\ \A k \in DOMAIN old : k <= off \/ k > off + Len(d) => new[k] = old[k]]_vars

(* A generated file that was never removed shows what its name says, as it is *)
(* at that moment, whatever procfs.c wrote elsewhere through stale indexes.  *)
Shows == [uptime |-> "ticks", meminfo |-> "heap", tasks |-> "sched", net |-> "net",
          random |-> "ticks"]
CatShowsKernel ==
  [][\A g \in {g \in GenRange : nodes'[gen[g]] # nodes[gen[g]]} :
       ShCat(g) /\ Resolve(nodes, GenPath(g)) = gen[g] /\ GenFiles[g][2] \in DOMAIN Shows
         => nodes'[gen[g]].content = <<GenFiles[g][2], kernel[Shows[GenFiles[g][2]]]>>]_vars

(* What vfs.h:93 says of vfs_write: it returns the number of bytes written.  *)
WriteTellsTruth ==
  [][\A f \in Fd, d \in Datas :
       WriteAt(f, d) /\ Room(f, d) > 0 =>
         /\ IsFile(nodes', fds[f].node)
         /\ LET new == nodes'[fds[f].node].content
            IN /\ Len(new) >= fds[f].off + Room(f, d)
               /\ SubSeq(new, fds[f].off + 1, fds[f].off + Room(f, d)) = First(Room(f, d), d)]_vars
=============================================================================
