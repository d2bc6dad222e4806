---------------------------- MODULE FilesProofs ----------------------------
(***************************************************************************)
(* What holds of the file system for every number of descriptors, every    *)
(* directory size and every set of names, paths, texts and positions:      *)
(* commands keep no descriptor, the nodes form two trees, the mount holds, *)
(* paths are stable, and files are byte sequences as FileStore says.       *)
(***************************************************************************)
EXTENDS Files, TLAPS, WellFoundedInduction, SequenceTheorems, FiniteSetTheorems

\* A nonempty set of descriptors has a lowest one.
LEMMA LowestOf ==
    ASSUME NEW S, S \subseteq Nat, S # {}
    PROVE  \E f \in S : \A g \in S : f <= g
<1>1. IsWellFoundedOn(OpToRel(<, Nat), Nat)
  BY NatLessThanWellFounded
<1>2. PICK f \in S : \A g \in S : ~ (<<g, f>> \in OpToRel(<, Nat))
  BY <1>1, WFMin
<1>3. ASSUME NEW g \in S PROVE f <= g
  <2>1. f \in Nat /\ g \in Nat
    OBVIOUS
  <2>2. <<g, f>> \in Nat \X Nat /\ <<g, f>>[1] = g /\ <<g, f>>[2] = f
    BY <2>1
  <2>3. ~ (<<g, f>>[1] < <<g, f>>[2])
    BY <1>2, <2>2, Zenon DEF OpToRel
  <2>4. QED
    BY <2>1, <2>3
<1>4. QED
  BY <1>2, <1>3

-----------------------------------------------------------------------------
(* The descriptor table                                                     *)

\* fd_table is an array of descriptors, whatever nodes and offsets they have.
FdTable ==
    /\ DOMAIN fd_table = Fds /\ fd_table = [fd \in Fds |-> fd_table[fd]]
    /\ \A fd \in Fds :
        /\ fd_table[fd] = [used |-> fd_table[fd].used, node |-> fd_table[fd].node,
                           offset |-> fd_table[fd].offset]
        /\ fd_table[fd].used \in BOOLEAN

Used == {fd \in Fds : fd_table[fd].used}

\* sys_read, sys_write and sys_seek move an offset and nothing else.
LEMMA OffsetKeeps ==
    ASSUME FdTable, NEW fd, NEW x, fd_table' = [fd_table EXCEPT ![fd].offset = x]
    PROVE  FdTable' /\ Used' = Used
<1>1. DOMAIN fd_table' = Fds
  BY DEF FdTable
<1>2. ASSUME NEW g \in Fds
      PROVE  /\ fd_table'[g] = [used |-> fd_table'[g].used, node |-> fd_table'[g].node,
                                offset |-> fd_table'[g].offset]
             /\ fd_table'[g].used = fd_table[g].used
  <2>1. fd_table[g] = [used |-> fd_table[g].used, node |-> fd_table[g].node,
                       offset |-> fd_table[g].offset]
    BY DEF FdTable
  <2>2. CASE g = fd
    <3>1. fd_table'[g] = [fd_table[g] EXCEPT !.offset = x]
      BY <2>2 DEF FdTable
    <3>2. fd_table'[g] = [used |-> fd_table[g].used, node |-> fd_table[g].node, offset |-> x]
      BY <2>1, <3>1
    <3>3. QED
      BY <3>2
  <2>3. CASE g # fd
    <3>1. fd_table'[g] = fd_table[g]
      BY <2>3 DEF FdTable
    <3>2. QED
      BY <2>1, <3>1
  <2>4. QED
    BY <2>2, <2>3
<1>3. fd_table' = [g \in Fds |-> fd_table'[g]]
  BY DEF FdTable
<1>4. FdTable'
  BY <1>1, <1>2, <1>3, Zenon DEF FdTable
<1>5. Used' = Used
  BY <1>2 DEF Used
<1>6. QED
  BY <1>4, <1>5

\* sys_open takes a descriptor that was not in use.
LEMMA OpenTakes ==
    ASSUME FdTable, NEW path, Opens(path), sys_open(path)
    PROVE  /\ FdTable' /\ fd_alloc \in Fds /\ fd_alloc \notin Used
           /\ Used' = Used \cup {fd_alloc}
<1> DEFINE F == {fd \in Fds : ~fd_table[fd].used}
<1>1. F \subseteq Nat /\ F # {}
  BY FilesConstants DEF Opens, Fds
<1>2. PICK f \in F : \A g \in F : f <= g
  BY <1>1, LowestOf
<1>3. \A g \in 0 .. (f - 1) : fd_table[g].used
  <2>1. SUFFICES ASSUME NEW g \in 0 .. (f - 1) PROVE fd_table[g].used
    OBVIOUS
  <2>2. f \in Fds
    OBVIOUS
  <2>3. g \in Fds /\ ~(f <= g)
    BY <2>2, FilesConstants DEF Fds
  <2>4. QED
    BY <1>2, <2>3
<1>4. fd_alloc \in Fds /\ ~fd_table[fd_alloc].used
  BY <1>2, <1>3 DEF fd_alloc
<1>5. fd_table' = [fd_table EXCEPT ![fd_alloc] = [used |-> TRUE, node |-> vfs_lookup(path), offset |-> 0]]
  BY DEF sys_open
<1> HIDE DEF F
<1>6. ASSUME NEW g \in Fds
      PROVE  fd_table'[g] = IF g = fd_alloc THEN [used |-> TRUE, node |-> vfs_lookup(path), offset |-> 0]
                            ELSE fd_table[g]
  BY <1>4, <1>5 DEF FdTable
<1>7. DOMAIN fd_table' = Fds
  BY <1>5 DEF FdTable
<1>8. QED
  BY <1>4, <1>5, <1>6, <1>7 DEF FdTable, Used

\* sys_close gives one back.
LEMMA CloseGives ==
    ASSUME FdTable, NEW fd \in Fds, sys_close(fd)
    PROVE  FdTable' /\ Used' = Used \ {fd}
<1>1. fd_table' = [fd_table EXCEPT ![fd] = [used |-> FALSE, node |-> NULL, offset |-> 0]]
  BY DEF sys_close, Unused
<1>2. ASSUME NEW g \in Fds
      PROVE  fd_table'[g] = IF g = fd THEN [used |-> FALSE, node |-> NULL, offset |-> 0]
                            ELSE fd_table[g]
  BY <1>1 DEF FdTable
<1>3. DOMAIN fd_table' = Fds
  BY <1>1 DEF FdTable
<1>4. QED
  BY <1>1, <1>2, <1>3 DEF FdTable, Used

-----------------------------------------------------------------------------
(* The invariant                                                            *)

\* A command that has opened a file holds one descriptor besides those of the
\* others, and knows which; the rest hold none.
Opened == {"write", "rd", "shown"}
DInv ==
    /\ FdTable
    /\ held \subseteq Fds
    /\ job = [cmd |-> job.cmd, fd |-> job.fd, node |-> job.node, chunks |-> job.chunks]
    /\ job.cmd \in Opened => job.fd \in Fds /\ job.fd \notin held /\ Used = held \cup {job.fd}
    /\ job.cmd \notin Opened => Used = held

LEMMA InitDInv == Init => DInv
<1> SUFFICES ASSUME Init PROVE DInv
  OBVIOUS
<1>1. fd_table = [fd \in Fds |-> [used |-> FALSE, node |-> NULL, offset |-> 0]]
  BY DEF Init, Unused
<1>2. FdTable /\ Used = {}
  BY <1>1 DEF FdTable, Used
<1>3. QED
  BY <1>2 DEF Init, DInv, Idle, Opened

\* A step that leaves the table, the holders and the kind of command alone.
LEMMA QuietStep ==
    ASSUME DInv, UNCHANGED <<fd_table, held>>,
           job' = job \/ (job.cmd \notin Opened /\ job'.cmd \notin Opened /\ job' =
               [cmd |-> job'.cmd, fd |-> job'.fd, node |-> job'.node, chunks |-> job'.chunks])
    PROVE  DInv'
<1>1. FdTable' /\ Used' = Used /\ held' = held
  BY DEF DInv, FdTable, Used
<1>2. CASE job' = job
  BY <1>1, <1>2 DEF DInv
<1>3. CASE job' # job
  BY <1>1, <1>3 DEF DInv
<1>4. QED
  BY <1>2, <1>3

\* Kernel code with descriptors of its own.
LEMMA ClientStep == ASSUME DInv, Client PROVE DInv'
<1>1. job = Idle /\ job' = job /\ Used = held
  BY DEF Client, ClientOpen, ClientWrite, ClientRead, ClientSeek, ClientClose, Ready, DInv, Idle, Opened
<1>2. ASSUME NEW path \in Paths, ClientOpen(path) PROVE DInv'
  <2>1. FdTable /\ Opens(path) /\ sys_open(path) /\ held' = held \cup {fd_alloc}
    BY <1>2 DEF ClientOpen, DInv
  <2>2. /\ FdTable' /\ fd_alloc \in Fds /\ fd_alloc \notin Used
        /\ Used' = Used \cup {fd_alloc}
    BY <2>1, OpenTakes
  <2>3. QED
    BY <1>1, <2>1, <2>2 DEF DInv, Idle, Opened
<1>3. ASSUME NEW fd \in held, NEW text \in Texts, ClientWrite(fd, text) PROVE DInv'
  <2>1. FdTable' /\ Used' = Used
    BY <1>3, OffsetKeeps DEF ClientWrite, sys_write, DInv
  <2>2. held' = held
    BY <1>3 DEF ClientWrite
  <2>3. QED
    BY <1>1, <2>1, <2>2 DEF DInv
<1>4. ASSUME NEW fd \in held, NEW size \in Sizes, ClientRead(fd, size) PROVE DInv'
  <2>1. FdTable' /\ Used' = Used
    BY <1>4, OffsetKeeps DEF ClientRead, sys_read, DInv
  <2>2. held' = held
    BY <1>4 DEF ClientRead
  <2>3. QED
    BY <1>1, <2>1, <2>2 DEF DInv
<1>5. ASSUME NEW fd \in held, NEW offset \in Offsets, ClientSeek(fd, offset) PROVE DInv'
  <2>1. FdTable' /\ Used' = Used
    BY <1>5, OffsetKeeps DEF ClientSeek, sys_seek, DInv
  <2>2. held' = held
    BY <1>5 DEF ClientSeek
  <2>3. QED
    BY <1>1, <2>1, <2>2 DEF DInv
<1>6. ASSUME NEW fd \in held, ClientClose(fd) PROVE DInv'
  <2>1. FdTable /\ fd \in Fds /\ sys_close(fd) /\ held' = held \ {fd}
    BY <1>6 DEF ClientClose, DInv
  <2>2. FdTable' /\ Used' = Used \ {fd}
    BY <2>1, CloseGives
  <2>3. QED
    BY <1>1, <2>1, <2>2 DEF DInv, Idle, Opened
<1>7. QED
  BY <1>2, <1>3, <1>4, <1>5, <1>6 DEF Client

\* write and rd: open, calls on the descriptor, close.
LEMMA CommandOpens ==
    ASSUME DInv, Ready, NEW path, Opens(path), sys_open(path), held' = held,
           NEW cmd \in Opened, NEW chunks,
           job' = [cmd |-> cmd, fd |-> fd_alloc, node |-> vfs_lookup(path), chunks |-> chunks]
    PROVE  DInv'
<1>1. FdTable /\ Used = held
  BY DEF DInv, Ready, Idle, Opened
<1>2. /\ FdTable' /\ fd_alloc \in Fds /\ fd_alloc \notin Used
      /\ Used' = Used \cup {fd_alloc}
  BY <1>1, OpenTakes
<1>3. job'.cmd = cmd /\ job'.fd = fd_alloc
  OBVIOUS
<1>4. QED
  BY <1>1, <1>2, <1>3 DEF DInv

LEMMA CommandWorks ==
    ASSUME DInv, NEW x, fd_table' = [fd_table EXCEPT ![job.fd].offset = x], held' = held,
           job.cmd \in Opened, job'.cmd \in Opened, job'.fd = job.fd,
           job' = [cmd |-> job'.cmd, fd |-> job'.fd, node |-> job'.node, chunks |-> job'.chunks]
    PROVE  DInv'
<1>1. FdTable' /\ Used' = Used
  BY OffsetKeeps DEF DInv
<1>2. QED
  BY <1>1 DEF DInv

LEMMA CommandCloses ==
    ASSUME DInv, job.cmd \in Opened, sys_close(job.fd), held' = held, job' = Idle
    PROVE  DInv'
<1>1. FdTable /\ job.fd \in Fds /\ job.fd \notin held /\ Used = held \cup {job.fd}
  BY DEF DInv
<1>2. FdTable' /\ Used' = Used \ {job.fd}
  BY <1>1, CloseGives
<1>3. QED
  BY <1>1, <1>2 DEF DInv, Idle, Opened

LEMMA StepDInv == DInv /\ [Next]_vars => DInv'
<1> SUFFICES ASSUME DInv, [Next]_vars PROVE DInv'
  OBVIOUS
<1>1. CASE Client
  BY <1>1, ClientStep
<1>2. CASE OutOfMemory \/ Stopped \/ UNCHANGED vars
  BY <1>2, QuietStep DEF OutOfMemory, Stopped, vars
<1>3. ASSUME NEW absolute \in BOOLEAN, NEW path \in Paths, cmd_cd(absolute, path) PROVE DInv'
  BY <1>3, QuietStep DEF cmd_cd
<1>4. ASSUME NEW name \in Names, cmd_mk(name) \/ cmd_mkr(name) PROVE DInv'
  BY <1>4, QuietStep DEF cmd_mk, cmd_mkr, Make
<1>5. ASSUME NEW path \in Paths, NEW chunks, cmd_write(path, chunks) PROVE DInv'
  <2>1. "write" \in Opened
    BY DEF Opened
  <2>2. QED
    BY <1>5, <2>1, CommandOpens DEF cmd_write
<1>6. ASSUME NEW path \in Paths, cmd_rd(path) PROVE DInv'
  <2>1. "rd" \in Opened
    BY DEF Opened
  <2>2. QED
    BY <1>6, <2>1, CommandOpens DEF cmd_rd
<1>7. CASE cmd_fsseed \/ SeedAbout \/ SeedTmp \/ SeedHello
  <2>1. UNCHANGED <<fd_table, held>> /\ job.cmd \in {"none", "about", "tmp", "hello"}
    BY <1>7 DEF cmd_fsseed, SeedAbout, SeedTmp, SeedHello, Ready, Idle
  <2>2. job' \in {Idle, [Idle EXCEPT !.cmd = "about"], [Idle EXCEPT !.cmd = "tmp"], [Idle EXCEPT !.cmd = "hello"]}
    BY <1>7 DEF cmd_fsseed, SeedAbout, SeedTmp, SeedHello, Seed
  <2>3. /\ job'.cmd \in {"none", "about", "tmp", "hello"}
        /\ job' = [cmd |-> job'.cmd, fd |-> job'.fd, node |-> job'.node, chunks |-> job'.chunks]
    BY <2>2 DEF Idle
  <2>4. QED
    BY <2>1, <2>3, QuietStep DEF Opened
<1>8. CASE WriteChunk
  <2>1. /\ job.cmd = "write" /\ held' = held
        /\ job' = [job EXCEPT !.chunks = Tail(job.chunks)]
    BY <1>8 DEF WriteChunk
  <2>2. PICK x : fd_table' = [fd_table EXCEPT ![job.fd].offset = x]
    BY <1>8 DEF WriteChunk, sys_write
  <2>3. job' = [cmd |-> job.cmd, fd |-> job.fd, node |-> job.node, chunks |-> Tail(job.chunks)]
    BY <2>1 DEF DInv
  <2>4. QED
    BY <2>1, <2>2, <2>3, CommandWorks DEF Opened
<1>9. CASE RdRead
  <2>1. /\ job.cmd = "rd" /\ held' = held
        /\ job' = [job EXCEPT !.cmd = "shown"]
    BY <1>9 DEF RdRead
  <2>2. PICK x : fd_table' = [fd_table EXCEPT ![job.fd].offset = x]
    BY <1>9 DEF RdRead, sys_read
  <2>3. job' = [cmd |-> "shown", fd |-> job.fd, node |-> job.node, chunks |-> job.chunks]
    BY <2>1 DEF DInv
  <2>4. QED
    BY <2>1, <2>2, <2>3, CommandWorks DEF Opened
<1>10. CASE WriteDone \/ RdDone
  BY <1>10, CommandCloses DEF WriteDone, RdDone, Opened
<1>11. QED
  BY <1>1, <1>2, <1>3, <1>4, <1>5, <1>6, <1>7, <1>8, <1>9, <1>10 DEF Next, Shell

\* Who holds which descriptor, at every step of every command.
THEOREM FilesDescriptors == Spec => []DInv
<1>1. QED
  BY InitDInv, StepDInv, PTL DEF Spec

\* Between commands only other kernel code holds descriptors: write and rd
\* give theirs back on every path.
THEOREM FilesNoLeak == Spec => []NoDescriptorLeak
<1>1. DInv => NoDescriptorLeak
  BY DEF DInv, NoDescriptorLeak, Used, Opened
<1>2. QED
  BY <1>1, FilesDescriptors, PTL

-----------------------------------------------------------------------------
(* Nodes                                                                    *)

\* The bytes that a block can hold, and the nodes.
Contents == Bytes \cup {Garbage, Space, "s"}
Node == [name : Names \cup {"/"}, dir : BOOLEAN, parent : Nat, children : Seq(Nat),
         data : Seq(Contents), size : Nat]

\* Replacing a node.
LEMMA NodeSeq ==
    ASSUME NEW N \in Seq(Node), NEW n \in 1 .. Len(N), NEW r \in Node
    PROVE  LET M == [N EXCEPT ![n] = r] IN
           /\ M \in Seq(Node) /\ Len(M) = Len(N)
           /\ \A m \in 1 .. Len(N) : M[m] = IF m = n THEN r ELSE N[m]
BY ExceptSeq

\* What ramfs_create makes of the nodes.
LEMMA CreateIs ==
    ASSUME nodes \in Seq(Node), NEW parent \in 1 .. Len(nodes), NEW name \in Names,
           ramfs_create(parent, name)
    PROVE  /\ nodes' \in Seq(Node) /\ Len(nodes') = Len(nodes) + 1
           /\ nodes'[Len(nodes) + 1] = Empty(name, FALSE, parent)
           /\ \A n \in 1 .. Len(nodes) :
                nodes'[n] = [nodes[n] EXCEPT !.children =
                    IF n = parent THEN Append(nodes[parent].children, Len(nodes) + 1)
                    ELSE nodes[n].children]
<1> DEFINE c == Append(nodes[parent].children, Len(nodes) + 1)
           r == [nodes[parent] EXCEPT !.children = c]
           M == [nodes EXCEPT ![parent] = r]
           e == Empty(name, FALSE, parent)
<1>1. nodes[parent] \in Node /\ Len(nodes) \in Nat
  OBVIOUS
<1>2. c \in Seq(Nat)
  BY <1>1 DEF Node
<1>3. r \in Node
  BY <1>1, <1>2 DEF Node
<1>4. e \in Node
  BY DEF Node, Empty, NULL
<1>5. nodes' = Append(M, e)
  BY <1>1 DEF ramfs_create
<1> HIDE DEF c, e
<1>6. M \in Seq(Node) /\ Len(M) = Len(nodes) /\ \A m \in 1 .. Len(nodes) : M[m] = IF m = parent THEN r ELSE nodes[m]
  BY <1>3, NodeSeq
<1> HIDE DEF M
<1>7. nodes' \in Seq(Node) /\ Len(nodes') = Len(nodes) + 1 /\ nodes'[Len(nodes) + 1] = e
      /\ \A n \in 1 .. Len(nodes) : nodes'[n] = M[n]
  BY <1>4, <1>5, <1>6
<1>8. ASSUME NEW n \in 1 .. Len(nodes)
      PROVE  nodes'[n] = [nodes[n] EXCEPT !.children = IF n = parent THEN c ELSE nodes[n].children]
  <2>1. nodes[n] \in Node
    OBVIOUS
  <2>2. CASE n = parent
    BY <1>6, <1>7, <2>2
  <2>3. CASE n # parent
    <3>1. nodes'[n] = nodes[n]
      BY <1>6, <1>7, <2>3
    <3>2. nodes[n] = [nodes[n] EXCEPT !.children = nodes[n].children]
      BY <2>1 DEF Node
    <3>3. QED
      BY <2>3, <3>1, <3>2
  <2>4. QED
    BY <2>2, <2>3
<1>9. QED
  BY <1>7, <1>8 DEF c, e

\* What ramfs_create changes: one directory gets an entry, and a node is new.
LEMMA CreateFields ==
    ASSUME nodes \in Seq(Node), NEW parent \in 1 .. Len(nodes), NEW name \in Names,
           ramfs_create(parent, name)
    PROVE  /\ \A n \in 1 .. Len(nodes) :
                /\ nodes'[n].name = nodes[n].name /\ nodes'[n].dir = nodes[n].dir
                /\ nodes'[n].parent = nodes[n].parent /\ nodes'[n].data = nodes[n].data
                /\ nodes'[n].size = nodes[n].size
                /\ n # parent => nodes'[n].children = nodes[n].children
           /\ nodes'[parent].children = Append(nodes[parent].children, Len(nodes) + 1)
<1>1. \A n \in 1 .. Len(nodes) :
         nodes'[n] = [nodes[n] EXCEPT !.children =
             IF n = parent THEN Append(nodes[parent].children, Len(nodes) + 1)
             ELSE nodes[n].children]
  BY CreateIs
<1>2. ASSUME NEW n \in 1 .. Len(nodes)
      PROVE  /\ nodes'[n].name = nodes[n].name /\ nodes'[n].dir = nodes[n].dir
             /\ nodes'[n].parent = nodes[n].parent /\ nodes'[n].data = nodes[n].data
             /\ nodes'[n].size = nodes[n].size
             /\ nodes'[n].children = IF n = parent THEN Append(nodes[parent].children, Len(nodes) + 1)
                                     ELSE nodes[n].children
  <2> DEFINE c == IF n = parent THEN Append(nodes[parent].children, Len(nodes) + 1)
                  ELSE nodes[n].children
  <2>a. nodes[n] \in Node
    OBVIOUS
  <2>1. nodes'[n] = [nodes[n] EXCEPT !.children = c]
    BY <1>1, Zenon
  <2> HIDE DEF c
  <2>2. /\ nodes'[n].name = nodes[n].name /\ nodes'[n].dir = nodes[n].dir
        /\ nodes'[n].parent = nodes[n].parent /\ nodes'[n].data = nodes[n].data
        /\ nodes'[n].size = nodes[n].size /\ nodes'[n].children = c
    BY <2>a, <2>1 DEF Node
  <2>3. QED
    BY <2>2 DEF c
<1>3. QED
  BY <1>2

\* What ramfs_write makes of a file: bytes in a block that holds them.
LEMMA WriteIs ==
    ASSUME NEW r \in Node, r.size = Len(r.data), NEW offset \in Nat, NEW text \in Seq(Contents)
    PROVE  LET w == ramfs_write(r, offset, text) IN
           /\ w \in Node /\ w.size = Len(w.data)
           /\ w.name = r.name /\ w.dir = r.dir /\ w.parent = r.parent /\ w.children = r.children
           /\ w.data = IF r.dir THEN r.data ELSE Store!Overlay(r.data, offset, text)
<1> DEFINE end == offset + Len(text)
           data == IF end > Len(r.data) THEN Grown(r, end) ELSE r.data
           d == [i \in DOMAIN data |-> IF offset < i /\ i <= end THEN text[i - offset] ELSE data[i]]
           s == IF end > r.size THEN end ELSE r.size
           w == ramfs_write(r, offset, text)
<1>1. r.data \in Seq(Contents) /\ r.size \in Nat /\ Len(r.data) \in Nat /\ Len(text) \in Nat
      /\ end \in Nat
  BY DEF Node
<1>2. data \in Seq(Contents) /\ Len(data) = s
      /\ \A i \in 1 .. Len(data) : data[i] = IF i <= Len(r.data) THEN r.data[i] ELSE Garbage
  <2>1. CASE end > Len(r.data)
    <3>1. \A i \in 1 .. end : (IF i <= r.size THEN r.data[i] ELSE Garbage) \in Contents
      <4> SUFFICES ASSUME NEW i \in 1 .. end
                   PROVE  (IF i <= r.size THEN r.data[i] ELSE Garbage) \in Contents
        OBVIOUS
      <4>1. i <= r.size => i \in 1 .. Len(r.data)
        BY <1>1
      <4>2. i <= r.size => r.data[i] \in Contents
        BY <1>1, <4>1
      <4>3. Garbage \in Contents
        BY DEF Contents
      <4>4. QED
        BY <4>2, <4>3
    <3>2. Grown(r, end) = [i \in 1 .. end |-> IF i <= r.size THEN r.data[i] ELSE Garbage]
      BY DEF Grown
    <3>3. Grown(r, end) \in Seq(Contents) /\ Len(Grown(r, end)) = end
      BY <1>1, <3>1, <3>2
    <3>4. \A i \in 1 .. end : Grown(r, end)[i] = IF i <= Len(r.data) THEN r.data[i] ELSE Garbage
      BY <3>2
    <3>5. data = Grown(r, end) /\ s = end
      BY <1>1, <2>1
    <3> HIDE DEF data, s, end
    <3>6. QED
      BY <3>3, <3>4, <3>5, Zenon
  <2>2. CASE ~(end > Len(r.data))
    BY <1>1, <2>2
  <2>3. QED
    BY <2>1, <2>2
<1>3. w = IF r.dir THEN r ELSE [r EXCEPT !.data = d, !.size = s]
  BY DEF ramfs_write
<1> HIDE DEF data
<1>4. d \in Seq(Contents) /\ Len(d) = Len(data)
  <2>1. DOMAIN data = 1 .. Len(data) /\ Len(data) \in Nat
    BY <1>2
  <2>2. \A i \in 1 .. Len(data) : (IF offset < i /\ i <= end THEN text[i - offset] ELSE data[i]) \in Contents
    <3> SUFFICES ASSUME NEW i \in 1 .. Len(data)
                 PROVE  (IF offset < i /\ i <= end THEN text[i - offset] ELSE data[i]) \in Contents
      OBVIOUS
    <3>1. data[i] \in Contents
      BY <1>2
    <3>2. offset < i /\ i <= end => i - offset \in 1 .. Len(text)
      BY <1>1, <2>1
    <3>3. offset < i /\ i <= end => text[i - offset] \in Contents
      BY <3>2
    <3>4. QED
      BY <3>1, <3>3
  <2>3. d = [i \in 1 .. Len(data) |-> IF offset < i /\ i <= end THEN text[i - offset] ELSE data[i]]
    BY <2>1
  <2> HIDE DEF d, end
  <2>4. QED
    BY <2>1, <2>2, <2>3
<1>5. s \in Nat /\ s = Len(d)
  BY <1>1, <1>2, <1>4
<1>o. d = Store!Overlay(r.data, offset, text)
  <2>1. DOMAIN data = 1 .. s
    BY <1>2
  <2>2. s = Store!GreaterOf(Len(r.data), offset + Len(text))
    BY <1>1 DEF Store!GreaterOf
  <2>3. ASSUME NEW i \in 1 .. s
        PROVE  (IF offset < i /\ i <= end THEN text[i - offset] ELSE data[i])
               = IF offset < i /\ i <= offset + Len(text) THEN text[i - offset]
                 ELSE IF i <= Len(r.data) THEN r.data[i] ELSE Garbage
    BY <1>2
  <2> HIDE DEF s
  <2>4. d = [i \in 1 .. s |-> IF offset < i /\ i <= offset + Len(text) THEN text[i - offset]
                              ELSE IF i <= Len(r.data) THEN r.data[i] ELSE Garbage]
    BY <2>1, <2>3
  <2>5. QED
    BY <2>2, <2>4, Zenon DEF Store!Overlay
<1> HIDE DEF d, s, end, w
<1>6. CASE r.dir
  BY <1>3, <1>6 DEF w
<1>7. CASE ~r.dir
  <2>1. w = [r EXCEPT !.data = d, !.size = s]
    BY <1>3, <1>7
  <2>2. /\ w \in Node /\ w.size = s /\ w.data = d
        /\ w.name = r.name /\ w.dir = r.dir /\ w.parent = r.parent /\ w.children = r.children
    BY <1>4, <1>5, <2>1 DEF Node
  <2>3. QED
    BY <1>5, <1>7, <1>o, <2>2 DEF w
<1>8. QED
  BY <1>6, <1>7

-----------------------------------------------------------------------------
(* The tree                                                                 *)

\* The bytes of a file fill its block: ramfs_write asks kmalloc for no more
\* than the file then has.
NodesOK ==
    /\ nodes \in Seq(Node) /\ Len(nodes) >= 3
    /\ \A n \in 1 .. Len(nodes) : nodes[n].size = Len(nodes[n].data)

\* A node is once in its parent's list, and its own list is of its children.
Kids(n) == 1 .. Len(nodes[n].children)
DirOK(n) ==
    /\ Len(nodes[n].children) <= MAX_CHILDREN
    /\ nodes[n].children # <<>> => nodes[n].dir
KidsOK(n) ==
    /\ \A k \in Kids(n) :
          /\ nodes[n].children[k] \in (1 .. Len(nodes)) \ {vfs_root, tmp_root}
          /\ nodes[nodes[n].children[k]].parent = n
    /\ \A j, k \in Kids(n) : nodes[n].children[j] = nodes[n].children[k] => j = k
ParentOK(n) ==
    /\ nodes[n].parent \in 0 .. Len(nodes)
    /\ n \notin {vfs_root, tmp_root} =>
          /\ nodes[n].parent \in 1 .. Len(nodes)
          /\ \E k \in Kids(nodes[n].parent) : nodes[nodes[n].parent].children[k] = n
\* The directory that the mount covers is the first in the root, and empty.
Mounted ==
    /\ Len(nodes[vfs_root].children) >= 1 /\ nodes[vfs_root].children[1] = mountpoint
    /\ nodes[mountpoint].name = "tmp" /\ nodes[mountpoint].children = <<>>
    /\ nodes[vfs_root].dir /\ nodes[tmp_root].dir
TreeInv ==
    /\ \A n \in 1 .. Len(nodes) : DirOK(n) /\ KidsOK(n) /\ ParentOK(n)
    /\ Mounted

\* The nodes that can be reached.
Live == (1 .. Len(nodes)) \ {mountpoint}

\* A step that changes no name, parent or list.
LEMMA SameTree ==
    ASSUME NodesOK, TreeInv, Len(nodes') = Len(nodes),
           \A n \in 1 .. Len(nodes) :
              /\ nodes'[n].name = nodes[n].name /\ nodes'[n].dir = nodes[n].dir
              /\ nodes'[n].parent = nodes[n].parent /\ nodes'[n].children = nodes[n].children
    PROVE  TreeInv' /\ Live' = Live
<1>1. vfs_root \in 1 .. Len(nodes) /\ mountpoint \in 1 .. Len(nodes) /\ tmp_root \in 1 .. Len(nodes)
  BY DEF NodesOK, vfs_root, mountpoint, tmp_root
<1>2. Mounted'
  BY <1>1, Zenon DEF TreeInv, Mounted
<1>3. ASSUME NEW n \in 1 .. Len(nodes) PROVE DirOK(n)' /\ KidsOK(n)' /\ ParentOK(n)'
  <2>1. DirOK(n)'
    BY Zenon DEF TreeInv, DirOK
  <2>2. KidsOK(n)'
    <3>1. KidsOK(n) /\ nodes'[n].children = nodes[n].children
      BY DEF TreeInv
    <3>2. \A k \in Kids(n) : nodes'[nodes[n].children[k]].parent = n
      BY <3>1, Zenon DEF KidsOK
    <3>3. QED
      BY <3>1, <3>2, Zenon DEF KidsOK, Kids
  <2>3. ParentOK(n)'
    <3>1. ParentOK(n) /\ nodes'[n].parent = nodes[n].parent
      BY DEF TreeInv
    <3>2. n \notin {vfs_root, tmp_root} =>
             nodes'[nodes[n].parent].children = nodes[nodes[n].parent].children
      BY <3>1, Zenon DEF ParentOK
    <3>3. QED
      BY <3>1, <3>2, Zenon DEF ParentOK, Kids
  <2>4. QED
    BY <2>1, <2>2, <2>3
<1>4. QED
  BY <1>2, <1>3, Zenon DEF TreeInv, Live

\* A write through a descriptor or without one.
LEMMA WriteTree ==
    ASSUME NodesOK, TreeInv, NEW n \in 1 .. Len(nodes), NEW offset \in Nat, NEW text \in Seq(Contents),
           nodes' = [nodes EXCEPT ![n] = ramfs_write(nodes[n], offset, text)]
    PROVE  /\ NodesOK' /\ TreeInv' /\ Live' = Live /\ Len(nodes') = Len(nodes)
           /\ \A m \in 1 .. Len(nodes) :
                /\ nodes'[m] = IF m = n THEN ramfs_write(nodes[n], offset, text) ELSE nodes[m]
                /\ nodes'[m].name = nodes[m].name /\ nodes'[m].dir = nodes[m].dir
                /\ nodes'[m].parent = nodes[m].parent /\ nodes'[m].children = nodes[m].children
<1> DEFINE w == ramfs_write(nodes[n], offset, text)
<1>1. nodes \in Seq(Node) /\ nodes[n] \in Node /\ nodes[n].size = Len(nodes[n].data)
  BY DEF NodesOK
<1>2. /\ w \in Node /\ w.size = Len(w.data)
      /\ w.name = nodes[n].name /\ w.dir = nodes[n].dir
      /\ w.parent = nodes[n].parent /\ w.children = nodes[n].children
  BY <1>1, WriteIs
<1> HIDE DEF w
<1>3. nodes' = [nodes EXCEPT ![n] = w]
  BY DEF w
<1>4. /\ nodes' \in Seq(Node) /\ Len(nodes') = Len(nodes)
      /\ \A m \in 1 .. Len(nodes) : nodes'[m] = IF m = n THEN w ELSE nodes[m]
  BY <1>1, <1>2, <1>3, NodeSeq
<1>5. ASSUME NEW m \in 1 .. Len(nodes)
      PROVE  /\ nodes'[m].name = nodes[m].name /\ nodes'[m].dir = nodes[m].dir
             /\ nodes'[m].parent = nodes[m].parent /\ nodes'[m].children = nodes[m].children
             /\ nodes'[m].size = Len(nodes'[m].data)
  <2>1. CASE m = n
    BY <1>2, <1>4, <2>1
  <2>2. CASE m # n
    BY <1>4, <2>2 DEF NodesOK
  <2>3. QED
    BY <2>1, <2>2
<1>6. NodesOK'
  BY <1>4, <1>5, Zenon DEF NodesOK
<1>7. TreeInv' /\ Live' = Live
  BY <1>4, <1>5, SameTree
<1>8. QED
  BY <1>4, <1>5, <1>6, <1>7, Zenon DEF w

\* A new file.
LEMMA CreateTree ==
    ASSUME NodesOK, TreeInv, NEW parent \in Live, nodes[parent].dir, HasRoom(parent),
           NEW name \in Names, ramfs_create(parent, name)
    PROVE  NodesOK' /\ TreeInv' /\ Live \subseteq Live'
<1> DEFINE N == Len(nodes)
<1>1. N \in Nat /\ N >= 3 /\ nodes \in Seq(Node) /\ parent \in 1 .. N /\ parent # mountpoint
  BY DEF NodesOK, Live
<1>2. /\ nodes' \in Seq(Node) /\ Len(nodes') = N + 1
      /\ nodes'[N + 1] = Empty(name, FALSE, parent)
  BY <1>1, CreateIs
<1>3. /\ \A n \in 1 .. N :
           /\ nodes'[n].name = nodes[n].name /\ nodes'[n].dir = nodes[n].dir
           /\ nodes'[n].parent = nodes[n].parent /\ nodes'[n].data = nodes[n].data
           /\ nodes'[n].size = nodes[n].size
           /\ n # parent => nodes'[n].children = nodes[n].children
      /\ nodes'[parent].children = Append(nodes[parent].children, N + 1)
  BY <1>1, CreateFields
<1>4. /\ nodes'[N + 1].children = <<>> /\ nodes'[N + 1].parent = parent
      /\ nodes'[N + 1].size = 0 /\ nodes'[N + 1].data = <<>>
  BY <1>2 DEF Empty
<1>5. \A n \in 1 .. (N + 1) : n \in 1 .. N \/ n = N + 1
  BY <1>1
<1>6. (1 .. N) \subseteq (1 .. (N + 1)) /\ N + 1 \in 1 .. (N + 1) /\ N + 1 \notin 1 .. N
      /\ 0 .. N \subseteq 0 .. (N + 1)
  BY <1>1
<1>7. vfs_root \in 1 .. N /\ mountpoint \in 1 .. N /\ tmp_root \in 1 .. N
  BY <1>1 DEF vfs_root, mountpoint, tmp_root
<1> DEFINE old == nodes[parent].children
<1>8. old \in Seq(Nat)
  <2>1. nodes[parent] \in Node
    BY <1>1
  <2>2. QED
    BY <2>1 DEF Node
<1>9. /\ Len(nodes'[parent].children) = Len(old) + 1
      /\ nodes'[parent].children[Len(old) + 1] = N + 1
      /\ \A k \in 1 .. Len(old) : nodes'[parent].children[k] = old[k]
      /\ Len(old) \in Nat
      /\ \A k \in 1 .. (Len(old) + 1) : k \in 1 .. Len(old) \/ k = Len(old) + 1
      /\ (1 .. Len(old)) \subseteq 1 .. (Len(old) + 1) /\ Len(old) + 1 \in 1 .. (Len(old) + 1)
  BY <1>3, <1>8
<1>10. NodesOK'
  <2>1. ASSUME NEW n \in 1 .. (N + 1) PROVE nodes'[n].size = Len(nodes'[n].data)
    <3>1. CASE n \in 1 .. N
      BY <1>3, <3>1, Zenon DEF NodesOK
    <3>2. CASE n = N + 1
      BY <1>4, <3>2
    <3>3. QED
      BY <1>5, <3>1, <3>2
  <2>2. N + 1 >= 3
    BY <1>1
  <2>3. QED
    BY <1>2, <2>1, <2>2, Zenon DEF NodesOK
<1>11. ASSUME NEW n \in 1 .. (N + 1) PROVE DirOK(n)'
  <2>1. CASE n = N + 1
    BY <1>4, <2>1, FilesConstants DEF DirOK
  <2>2. CASE n = parent
    <3>1. Len(old) + 1 <= MAX_CHILDREN
      BY <1>9, FilesConstants DEF HasRoom
    <3>2. nodes'[parent].dir
      BY <1>1, <1>3, Zenon
    <3>3. QED
      BY <1>9, <2>2, <3>1, <3>2 DEF DirOK
  <2>3. CASE n \in 1 .. N /\ n # parent
    BY <1>3, <2>3, Zenon DEF TreeInv, DirOK
  <2>4. QED
    BY <1>5, <2>1, <2>2, <2>3
<1>12. ASSUME NEW n \in 1 .. (N + 1) PROVE KidsOK(n)'
  <2>1. CASE n = N + 1
    <3>1. \A k \in 1 .. Len(<<>>) : FALSE
      OBVIOUS
    <3>2. QED
      BY <1>4, <2>1, <3>1, Zenon DEF KidsOK, Kids
  <2>2. CASE n = parent
    <3>1. KidsOK(parent)
      BY <1>1 DEF TreeInv
    <3>2. \A k \in 1 .. Len(old) : old[k] \in (1 .. N) \ {vfs_root, tmp_root} /\ nodes[old[k]].parent = parent
      BY <3>1, Zenon DEF KidsOK, Kids
    <3>3. \A j, k \in 1 .. Len(old) : old[j] = old[k] => j = k
      BY <3>1, Zenon DEF KidsOK, Kids
    <3> HIDE DEF old
    <3>4. ASSUME NEW k \in 1 .. (Len(old) + 1)
          PROVE  /\ nodes'[parent].children[k] \in (1 .. (N + 1)) \ {vfs_root, tmp_root}
                 /\ nodes'[nodes'[parent].children[k]].parent = parent
      <4>1. CASE k = Len(old) + 1
        BY <1>4, <1>6, <1>7, <1>9, <4>1, Zenon
      <4>2. CASE k \in 1 .. Len(old)
        <5>1. nodes'[parent].children[k] = old[k] /\ old[k] \in 1 .. N
              /\ old[k] \notin {vfs_root, tmp_root} /\ nodes[old[k]].parent = parent
          BY <1>9, <3>2, <4>2, Zenon
        <5>2. nodes'[old[k]].parent = parent /\ old[k] \in 1 .. (N + 1)
          BY <1>3, <1>6, <5>1, Zenon
        <5>3. QED
          BY <5>1, <5>2, Zenon
      <4>3. QED
        BY <1>9, <4>1, <4>2
    <3>5. ASSUME NEW j \in 1 .. (Len(old) + 1), NEW k \in 1 .. (Len(old) + 1),
                 nodes'[parent].children[j] = nodes'[parent].children[k]
          PROVE  j = k
      <4>a. ASSUME NEW m \in 1 .. Len(old) PROVE nodes'[parent].children[m] # N + 1
        BY <1>6, <1>9, <3>2, Zenon
      <4>1. CASE j = Len(old) + 1 \/ k = Len(old) + 1
        BY <1>9, <3>5, <4>a, <4>1, Zenon
      <4>2. CASE j \in 1 .. Len(old) /\ k \in 1 .. Len(old)
        BY <1>9, <3>3, <3>5, <4>2, Zenon
      <4>3. QED
        BY <1>9, <4>1, <4>2
    <3>6. QED
      BY <1>2, <1>9, <2>2, <3>4, <3>5, Zenon DEF KidsOK, Kids
  <2>3. CASE n \in 1 .. N /\ n # parent
    <3>1. KidsOK(n) /\ nodes'[n].children = nodes[n].children
      BY <1>3, <2>3 DEF TreeInv
    <3>2. \A k \in Kids(n) : /\ nodes[n].children[k] \in (1 .. (N + 1)) \ {vfs_root, tmp_root}
                             /\ nodes'[nodes[n].children[k]].parent = n
      BY <1>3, <1>6, <3>1, Zenon DEF KidsOK
    <3>3. QED
      BY <1>2, <3>1, <3>2, Zenon DEF KidsOK, Kids
  <2>4. QED
    BY <1>5, <2>1, <2>2, <2>3
<1>13. ASSUME NEW n \in 1 .. (N + 1) PROVE ParentOK(n)'
  <2>1. CASE n = N + 1
    <3>1. parent \in 1 .. (N + 1) /\ parent \in 0 .. (N + 1)
      BY <1>1
    <3>2. \E k \in 1 .. (Len(old) + 1) : nodes'[parent].children[k] = N + 1
      BY <1>9, Zenon
    <3> HIDE DEF old
    <3>3. QED
      BY <1>2, <1>4, <1>9, <2>1, <3>1, <3>2, Zenon DEF ParentOK, Kids
  <2>2. CASE n \in 1 .. N
    <3>1. ParentOK(n) /\ nodes'[n].parent = nodes[n].parent
      BY <1>3, <2>2 DEF TreeInv
    <3>2. nodes'[n].parent \in 0 .. (N + 1)
      BY <1>6, <3>1, Zenon DEF ParentOK
    <3>3. ASSUME n \notin {vfs_root, tmp_root}
          PROVE  /\ nodes'[n].parent \in 1 .. (N + 1)
                 /\ \E k \in 1 .. Len(nodes'[nodes[n].parent].children) : nodes'[nodes[n].parent].children[k] = n
      <4> DEFINE p == nodes[n].parent
      <4>1. p \in 1 .. N /\ \E k \in 1 .. Len(nodes[p].children) : nodes[p].children[k] = n
        BY <3>1, <3>3, Zenon DEF ParentOK, Kids
      <4>2. PICK k \in 1 .. Len(nodes[p].children) : nodes[p].children[k] = n
        BY <4>1
      <4> HIDE DEF p
      <4>3. k \in 1 .. Len(nodes'[p].children) /\ nodes'[p].children[k] = n
        <5>1. CASE p = parent
          BY <1>9, <4>2, <5>1, Zenon
        <5>2. CASE p # parent
          BY <1>3, <4>1, <4>2, <5>2, Zenon
        <5>3. QED
          BY <5>1, <5>2
      <4>4. \E j \in 1 .. Len(nodes'[p].children) : nodes'[p].children[j] = n
        BY <4>3, Zenon
      <4>5. QED
        BY <1>6, <3>1, <4>1, <4>4, Zenon DEF p
    <3>4. QED
      BY <1>2, <3>1, <3>2, <3>3, Zenon DEF ParentOK, Kids
  <2>3. QED
    BY <1>5, <2>1, <2>2
<1>14. Mounted'
  <2>1. Mounted
    BY DEF TreeInv
  <2>2. /\ nodes'[mountpoint].name = "tmp" /\ nodes'[mountpoint].children = <<>>
        /\ nodes'[vfs_root].dir /\ nodes'[tmp_root].dir
    BY <1>1, <1>3, <1>7, <2>1, Zenon DEF Mounted
  <2>3. Len(nodes'[vfs_root].children) >= 1 /\ nodes'[vfs_root].children[1] = mountpoint
    <3>1. CASE vfs_root = parent
      <4>1. Len(old) >= 1 /\ old[1] = mountpoint
        BY <2>1, <3>1 DEF Mounted
      <4> HIDE DEF old
      <4>2. 1 \in 1 .. Len(old) /\ Len(old) + 1 >= 1
        BY <1>9, <4>1
      <4>3. QED
        BY <1>9, <3>1, <4>1, <4>2, Zenon
    <3>2. CASE vfs_root # parent
      BY <1>3, <1>7, <2>1, <3>2, Zenon DEF Mounted
    <3>3. QED
      BY <3>1, <3>2
  <2>4. QED
    BY <2>2, <2>3 DEF Mounted
<1>15. Live \subseteq Live'
  BY <1>2, <1>6, Zenon DEF Live
<1>16. QED
  BY <1>2, <1>10, <1>11, <1>12, <1>13, <1>14, <1>15, Zenon DEF TreeInv

-----------------------------------------------------------------------------
(* Paths                                                                    *)

\* ramfs_lookup and a step of path_resolve, in the nodes N.
NamedIn(N, n, name) == {i \in DOMAIN N[n].children : N[N[n].children[i]].name = name}
LookupIn(N, n, name) ==
    IF NamedIn(N, n, name) = {} THEN NULL
    ELSE N[n].children[CHOOSE i \in NamedIn(N, n, name) : \A j \in NamedIn(N, n, name) : i <= j]
StepIn(N, p, name) ==
    IF p = NULL THEN NULL
    ELSE IF LookupIn(N, p, name) = NULL THEN NULL ELSE vfs_check_mount(LookupIn(N, p, name))
AtDef(N, start, path, f) ==
    f = [i \in 0 .. Len(path) |-> IF i = 0 THEN start ELSE StepIn(N, f[i - 1], path[i])]
AtFn(N, start, path) == CHOOSE f : AtDef(N, start, path, f)

\* path_resolve is the last place of the walk, in this state and the next.
LEMMA ResolveIs ==
    ASSUME NEW start, NEW path
    PROVE  path_resolve(start, path) = AtFn(nodes, start, path)[Len(path)]
BY Zenon DEF path_resolve, AtFn, AtDef, StepIn, LookupIn, NamedIn, ramfs_lookup

LEMMA NextLookupIs ==
    ASSUME NEW path
    PROVE  vfs_lookup(path)' = AtFn(nodes', vfs_root, path)[Len(path)]
BY Zenon DEF vfs_lookup, vfs_root, path_resolve, AtFn, AtDef, StepIn, LookupIn, NamedIn, ramfs_lookup

\* f is right for the first n names.
AtUpTo(N, start, path, n, f) ==
    \A i \in 0 .. n : f[i] = IF i = 0 THEN start ELSE StepIn(N, f[i - 1], path[i])

\* The walk along a path exists: by induction on the number of names.
LEMMA AtExists ==
    ASSUME NEW N, NEW start, NEW path, NEW n \in Nat
    PROVE  \E f : AtUpTo(N, start, path, n, f)
<1> DEFINE D == {m \in Nat : ~ \E f : AtUpTo(N, start, path, m, f)}
<1>1. SUFFICES ASSUME D # {} PROVE FALSE
  OBVIOUS
<1>2. PICK m \in D : \A j \in D : m <= j
  BY <1>1, LowestOf
<1>3. m \in Nat /\ ~ \E f : AtUpTo(N, start, path, m, f)
  BY <1>2
<1>4. CASE m = 0
  <2>1. AtUpTo(N, start, path, m, [k \in {0} |-> start])
    BY <1>4 DEF AtUpTo
  <2>2. QED
    BY <1>3, <2>1
<1>5. CASE m # 0
  <2>1. m - 1 \in Nat /\ m - 1 < m
    BY <1>3, <1>5
  <2>2. m - 1 \notin D
    BY <1>2, <1>3, <2>1
  <2>3. PICK f : AtUpTo(N, start, path, m - 1, f)
    BY <2>1, <2>2
  <2> DEFINE e == StepIn(N, f[m - 1], path[m])
             g == [k \in 0 .. m |-> IF k = m THEN e ELSE f[k]]
  <2>4. g[m] = e /\ \A k \in 0 .. (m - 1) : g[k] = f[k]
    BY <1>3
  <2>5. ASSUME NEW k \in 0 .. m
        PROVE  g[k] = IF k = 0 THEN start ELSE StepIn(N, g[k - 1], path[k])
    <3>1. CASE k = m
      <4>1. m - 1 \in 0 .. (m - 1)
        BY <2>1
      <4>2. g[m - 1] = f[m - 1]
        BY <2>4, <4>1
      <4> HIDE DEF g
      <4>3. QED
        BY <1>5, <2>4, <3>1, <4>2, Zenon
    <3>2. CASE k # m
      <4>1. k \in 0 .. (m - 1) /\ (k # 0 => k - 1 \in 0 .. (m - 1))
        BY <1>3, <3>2
      <4>2. f[k] = IF k = 0 THEN start ELSE StepIn(N, f[k - 1], path[k])
        BY <2>3, <4>1 DEF AtUpTo
      <4> HIDE DEF g
      <4>3. QED
        BY <2>4, <4>1, <4>2, Zenon
    <3>3. QED
      BY <3>1, <3>2
  <2> HIDE DEF g
  <2>6. AtUpTo(N, start, path, m, g)
    BY <2>5 DEF AtUpTo
  <2>7. QED
    BY <1>3, <2>6
<1>6. QED
  BY <1>4, <1>5

\* path_resolve walks from name to name.
LEMMA AtSolves ==
    ASSUME NEW N, NEW start, NEW path, Len(path) \in Nat
    PROVE  \A i \in 0 .. Len(path) :
               AtFn(N, start, path)[i] =
                   IF i = 0 THEN start ELSE StepIn(N, AtFn(N, start, path)[i - 1], path[i])
<1>1. PICK f : AtUpTo(N, start, path, Len(path), f)
  BY AtExists
<1> DEFINE g == [k \in 0 .. Len(path) |-> f[k]]
<1>2. \A k \in 0 .. Len(path) : g[k] = IF k = 0 THEN start ELSE StepIn(N, g[k - 1], path[k])
  <2> SUFFICES ASSUME NEW k \in 0 .. Len(path)
               PROVE  g[k] = IF k = 0 THEN start ELSE StepIn(N, g[k - 1], path[k])
    OBVIOUS
  <2>1. k # 0 => k - 1 \in 0 .. Len(path)
    OBVIOUS
  <2>2. f[k] = IF k = 0 THEN start ELSE StepIn(N, f[k - 1], path[k])
    BY <1>1 DEF AtUpTo
  <2>3. g[k] = f[k] /\ (k # 0 => g[k - 1] = f[k - 1])
    BY <2>1
  <2> HIDE DEF g
  <2>4. QED
    BY <2>2, <2>3, Zenon
<1>3. g = [k \in 0 .. Len(path) |-> g[k]]
  BY Zenon
<1> HIDE DEF g
<1>4. AtDef(N, start, path, g)
  BY <1>2, <1>3, Zenon DEF AtDef
<1>5. AtDef(N, start, path, AtFn(N, start, path))
  BY <1>4, Zenon DEF AtFn
<1>6. QED
  BY <1>5, Zenon DEF AtDef

\* The first of the children with a name.
LEMMA FirstNamed ==
    ASSUME NEW N \in Seq(Node), NEW n \in 1 .. Len(N), NEW name
    PROVE  \/ /\ NamedIn(N, n, name) = {}
              /\ LookupIn(N, n, name) = NULL
           \/ \E i \in 1 .. Len(N[n].children) :
                 /\ i \in NamedIn(N, n, name)
                 /\ \A j \in NamedIn(N, n, name) : i <= j
                 /\ LookupIn(N, n, name) = N[n].children[i]
<1> DEFINE S == NamedIn(N, n, name)
<1>1. N[n] \in Node
  OBVIOUS
<1>2. N[n].children \in Seq(Nat)
  BY <1>1 DEF Node
<1>3. S \subseteq 1 .. Len(N[n].children) /\ S \subseteq Nat
  BY <1>2 DEF NamedIn
<1> HIDE DEF S
<1>4. CASE S = {}
  BY <1>4 DEF LookupIn, S
<1>5. CASE S # {}
  <2>1. \E i \in S : \A j \in S : i <= j
    BY <1>3, <1>5, LowestOf
  <2> DEFINE i == CHOOSE i \in S : \A j \in S : i <= j
  <2>2. i \in S /\ \A j \in S : i <= j
    BY <2>1
  <2>3. LookupIn(N, n, name) = N[n].children[i]
    BY <1>5, Zenon DEF LookupIn, S
  <2> HIDE DEF i
  <2>4. QED
    BY <1>3, <2>2, <2>3, Zenon DEF S
<1>6. QED
  BY <1>4, <1>5

\* A step of a walk never ends on the covered directory.
LEMMA StepLive ==
    ASSUME NodesOK, TreeInv, NEW p \in Live \cup {NULL}, NEW name
    PROVE  StepIn(nodes, p, name) \in Live \cup {NULL}
<1>1. CASE p = NULL \/ LookupIn(nodes, p, name) = NULL
  BY <1>1, Zenon DEF StepIn
<1>2. CASE p # NULL /\ LookupIn(nodes, p, name) # NULL
  <2> DEFINE c == LookupIn(nodes, p, name)
  <2>1. p \in 1 .. Len(nodes)
    BY <1>2, Zenon DEF Live
  <2>2. PICK i \in Kids(p) : c = nodes[p].children[i]
    <3>1. \E i \in 1 .. Len(nodes[p].children) :
             /\ i \in NamedIn(nodes, p, name)
             /\ \A j \in NamedIn(nodes, p, name) : i <= j
             /\ c = nodes[p].children[i]
      BY <1>2, <2>1, FirstNamed DEF NodesOK
    <3>2. QED
      BY <3>1, Zenon DEF Kids
  <2>3. KidsOK(p)
    BY <2>1 DEF TreeInv
  <2>4. c \in 1 .. Len(nodes)
    BY <2>2, <2>3, Zenon DEF KidsOK
  <2>5. tmp_root \in Live
    BY DEF tmp_root, mountpoint, Live, NodesOK
  <2>6. vfs_check_mount(c) \in Live
    BY <2>4, <2>5, Zenon DEF vfs_check_mount, Live
  <2>7. QED
    BY <1>2, <2>6, Zenon DEF StepIn
<1>3. QED
  BY <1>1, <1>2

\* A lookup passes only nodes other than the covered directory.
LEMMA AtLive ==
    ASSUME NodesOK, TreeInv, NEW start \in Live, NEW path, Len(path) \in Nat
    PROVE  \A i \in 0 .. Len(path) : AtFn(nodes, start, path)[i] \in Live \cup {NULL}
<1> DEFINE f == AtFn(nodes, start, path)
           D == {i \in 0 .. Len(path) : f[i] \notin Live \cup {NULL}}
<1>1. \A i \in 0 .. Len(path) : f[i] = IF i = 0 THEN start ELSE StepIn(nodes, f[i - 1], path[i])
  BY AtSolves
<1> HIDE DEF f
<1>2. D = {}
  <2> SUFFICES ASSUME D # {} PROVE FALSE
    OBVIOUS
  <2>1. D \subseteq Nat
    OBVIOUS
  <2>2. PICK i \in D : \A j \in D : i <= j
    BY <2>1, LowestOf
  <2>3. i \in 0 .. Len(path) /\ f[i] \notin Live \cup {NULL}
    BY <2>2
  <2>4. i # 0
    BY <1>1, <2>3, Zenon
  <2>5. i - 1 \in 0 .. Len(path) /\ ~(i <= i - 1)
    BY <2>3, <2>4
  <2>6. f[i - 1] \in Live \cup {NULL}
    BY <2>2, <2>5
  <2>7. f[i] = StepIn(nodes, f[i - 1], path[i])
    BY <1>1, <2>3, <2>4, Zenon
  <2>8. StepIn(nodes, f[i - 1], path[i]) \in Live \cup {NULL}
    BY <2>6, StepLive
  <2>9. QED
    BY <2>3, <2>7, <2>8
<1>3. QED
  BY <1>2, Zenon DEF f

\* What a relative and an absolute path can lead to.
LEMMA ResolveLive ==
    ASSUME NodesOK, TreeInv, NEW start \in Live, NEW path, Len(path) \in Nat
    PROVE  path_resolve(start, path) \in Live \cup {NULL}
<1>1. Len(path) \in 0 .. Len(path)
  OBVIOUS
<1>2. QED
  BY <1>1, AtLive, ResolveIs, Zenon

LEMMA LookupLive ==
    ASSUME NodesOK, TreeInv, NEW path, Len(path) \in Nat
    PROVE  vfs_lookup(path) \in Live \cup {NULL}
<1>1. vfs_root \in Live
  BY DEF vfs_root, mountpoint, Live, NodesOK
<1>2. QED
  BY <1>1, ResolveLive DEF vfs_lookup

\* /tmp is the mounted file system.
LEMMA TmpIsMounted ==
    ASSUME NodesOK, TreeInv
    PROVE  vfs_lookup(<<"tmp">>) = tmp_root
<1> DEFINE path == <<"tmp">>
           f == AtFn(nodes, vfs_root, path)
           c == nodes[vfs_root].children
<1>1. Len(path) = 1 /\ path[1] = "tmp" /\ 0 \in 0 .. Len(path) /\ 1 \in 0 .. Len(path) /\ 1 - 1 = 0 /\ 1 # 0
      /\ Len(path) \in Nat
  OBVIOUS
<1> HIDE DEF path
<1>2. f[0] = vfs_root /\ f[1] = StepIn(nodes, f[0], "tmp")
  <2>1. \A i \in 0 .. Len(path) : f[i] = IF i = 0 THEN vfs_root ELSE StepIn(nodes, f[i - 1], path[i])
    BY <1>1, AtSolves
  <2> HIDE DEF f
  <2>2. QED
    BY <1>1, <2>1, Zenon
<1> HIDE DEF f
<1>3. vfs_root \in 1 .. Len(nodes) /\ vfs_root # NULL /\ mountpoint # NULL
  BY DEF vfs_root, mountpoint, NULL, NodesOK
<1>4. Mounted
  BY DEF TreeInv
<1>5. nodes[vfs_root] \in Node
  BY <1>3 DEF NodesOK
<1>6. 1 \in DOMAIN c
  BY <1>4, <1>5 DEF Mounted, Node
<1>7. 1 \in NamedIn(nodes, vfs_root, "tmp")
  BY <1>4, <1>6, Zenon DEF NamedIn, Mounted
<1>8. PICK i \in Kids(vfs_root) :
         /\ i \in NamedIn(nodes, vfs_root, "tmp")
         /\ \A j \in NamedIn(nodes, vfs_root, "tmp") : i <= j
         /\ LookupIn(nodes, vfs_root, "tmp") = nodes[vfs_root].children[i]
  BY <1>3, <1>7, FirstNamed, Zenon DEF Kids, NodesOK
<1>9. i = 1
  <2>1. i <= 1 /\ i \in 1 .. Len(nodes[vfs_root].children)
    BY <1>7, <1>8 DEF Kids
  <2>2. QED
    BY <2>1
<1>10. LookupIn(nodes, vfs_root, "tmp") = mountpoint
  BY <1>4, <1>8, <1>9, Zenon DEF Mounted
<1>11. StepIn(nodes, vfs_root, "tmp") = tmp_root
  BY <1>3, <1>10, Zenon DEF StepIn, vfs_check_mount
<1>12. QED
  BY <1>1, <1>2, <1>11, ResolveIs, Zenon DEF vfs_lookup, f, path

-----------------------------------------------------------------------------
(* Paths are stable                                                         *)

\* Names stay, and lists only get longer at their ends.
OnlyAdds ==
    /\ Len(nodes) <= Len(nodes')
    /\ \A n \in 1 .. Len(nodes) :
        /\ nodes'[n].name = nodes[n].name
        /\ Len(nodes[n].children) <= Len(nodes'[n].children)
        /\ \A k \in Kids(n) : nodes'[n].children[k] = nodes[n].children[k]

\* A name that is found stays found: what is added comes later in the list.
LEMMA LookupStable ==
    ASSUME NodesOK, TreeInv, nodes' \in Seq(Node), OnlyAdds,
           NEW n \in 1 .. Len(nodes), NEW name, LookupIn(nodes, n, name) # NULL
    PROVE  LookupIn(nodes', n, name) = LookupIn(nodes, n, name)
<1> DEFINE S == NamedIn(nodes, n, name)
           T == NamedIn(nodes', n, name)
           c == nodes[n].children
           d == nodes'[n].children
<1>1. /\ nodes \in Seq(Node) /\ Len(nodes) \in Nat /\ Len(nodes') \in Nat
      /\ n \in 1 .. Len(nodes')
  BY DEF NodesOK, OnlyAdds
<1>2. nodes[n] \in Node /\ nodes'[n] \in Node
  BY <1>1
<1>3. c \in Seq(Nat) /\ d \in Seq(Nat)
  BY <1>2 DEF Node
<1>4. DOMAIN c = 1 .. Len(c) /\ DOMAIN d = 1 .. Len(d) /\ Len(c) \in Nat /\ Len(d) \in Nat
  BY <1>3
<1>5. Len(c) <= Len(d) /\ \A k \in 1 .. Len(c) : d[k] = c[k]
  BY Zenon DEF OnlyAdds, Kids
<1>6. PICK i \in 1 .. Len(c) : i \in S /\ (\A j \in S : i <= j) /\ LookupIn(nodes, n, name) = c[i]
  BY <1>1, FirstNamed
<1>7. \A k \in 1 .. Len(c) : k \in T <=> k \in S
  <2> SUFFICES ASSUME NEW k \in 1 .. Len(c) PROVE k \in T <=> k \in S
    OBVIOUS
  <2>1. k \in DOMAIN c /\ k \in DOMAIN d
    BY <1>4, <1>5
  <2>2. c[k] \in 1 .. Len(nodes)
    BY Zenon DEF TreeInv, KidsOK, Kids
  <2>3. nodes'[d[k]].name = nodes[c[k]].name
    BY <1>5, <2>2, Zenon DEF OnlyAdds
  <2>4. QED
    BY <2>1, <2>3, Zenon DEF NamedIn
<1>8. i \in T
  BY <1>6, <1>7
<1>9. T \subseteq 1 .. Len(d)
  BY <1>4 DEF NamedIn
<1> HIDE DEF S, T, c, d
<1>10. \A j \in T : i <= j
  <2> SUFFICES ASSUME NEW j \in T PROVE i <= j
    OBVIOUS
  <2>1. j \in 1 .. Len(d)
    BY <1>9
  <2>2. CASE j \in 1 .. Len(c)
    BY <1>6, <1>7, <2>2
  <2>3. CASE j \notin 1 .. Len(c)
    BY <1>4, <2>1, <2>3
  <2>4. QED
    BY <2>2, <2>3
<1>11. PICK k \in 1 .. Len(d) : k \in T /\ (\A j \in T : k <= j) /\ LookupIn(nodes', n, name) = d[k]
  BY <1>1, <1>8, FirstNamed DEF T, d
<1>12. k = i
  <2>1. k <= i /\ i <= k
    BY <1>8, <1>10, <1>11
  <2>2. QED
    BY <1>4, <2>1
<1>13. QED
  BY <1>5, <1>6, <1>11, <1>12

\* A step of a walk is stable.
LEMMA StepStable ==
    ASSUME NodesOK, TreeInv, nodes' \in Seq(Node), OnlyAdds,
           NEW p \in Live \cup {NULL}, NEW name, StepIn(nodes, p, name) # NULL
    PROVE  StepIn(nodes', p, name) = StepIn(nodes, p, name)
<1>1. p # NULL /\ LookupIn(nodes, p, name) # NULL
  BY Zenon DEF StepIn
<1>2. p \in 1 .. Len(nodes)
  BY <1>1, Zenon DEF Live
<1>3. LookupIn(nodes', p, name) = LookupIn(nodes, p, name)
  BY <1>1, <1>2, LookupStable
<1>4. QED
  BY <1>3, Zenon DEF StepIn

\* By induction on the length of the path.
LEMMA ResolveStable ==
    ASSUME NodesOK, TreeInv, nodes' \in Seq(Node), OnlyAdds,
           NEW path, Len(path) \in Nat, vfs_lookup(path) # NULL
    PROVE  vfs_lookup(path)' = vfs_lookup(path)
<1> DEFINE f == AtFn(nodes, vfs_root, path)
           g == AtFn(nodes', vfs_root, path)
           D == {i \in 0 .. Len(path) : f[i] # NULL /\ g[i] # f[i]}
<1>1. \A i \in 0 .. Len(path) : f[i] = IF i = 0 THEN vfs_root ELSE StepIn(nodes, f[i - 1], path[i])
  BY AtSolves
<1>2. \A i \in 0 .. Len(path) : g[i] = IF i = 0 THEN vfs_root ELSE StepIn(nodes', g[i - 1], path[i])
  BY AtSolves
<1>3. vfs_root \in Live
  BY DEF vfs_root, mountpoint, Live, NodesOK
<1>4. \A i \in 0 .. Len(path) : f[i] \in Live \cup {NULL}
  BY <1>3, AtLive
<1> HIDE DEF f, g
<1>5. D = {}
  <2> SUFFICES ASSUME D # {} PROVE FALSE
    OBVIOUS
  <2>1. D \subseteq Nat
    OBVIOUS
  <2>2. PICK i \in D : \A j \in D : i <= j
    BY <2>1, LowestOf
  <2>3. i \in 0 .. Len(path) /\ f[i] # NULL /\ g[i] # f[i]
    BY <2>2
  <2>4. i # 0
    BY <1>1, <1>2, <2>3, Zenon
  <2>5. i - 1 \in 0 .. Len(path) /\ ~(i <= i - 1)
    BY <2>3, <2>4
  <2>6. f[i] = StepIn(nodes, f[i - 1], path[i]) /\ g[i] = StepIn(nodes', g[i - 1], path[i])
    BY <1>1, <1>2, <2>3, <2>4, Zenon
  <2>7. f[i - 1] # NULL
    BY <2>3, <2>6, Zenon DEF StepIn
  <2>8. g[i - 1] = f[i - 1]
    BY <2>2, <2>5, <2>7
  <2>9. StepIn(nodes', f[i - 1], path[i]) = StepIn(nodes, f[i - 1], path[i])
    BY <1>4, <2>3, <2>5, <2>6, StepStable
  <2>10. QED
    BY <2>3, <2>6, <2>8, <2>9
<1>6. Len(path) \in 0 .. Len(path)
  OBVIOUS
<1>7. vfs_lookup(path) = f[Len(path)] /\ vfs_lookup(path)' = g[Len(path)]
  BY ResolveIs, NextLookupIs, Zenon DEF f, g, vfs_lookup
<1>8. QED
  BY <1>5, <1>6, <1>7

-----------------------------------------------------------------------------
(* The invariant of nodes and descriptors                                   *)

\* What is ever written.
Written == Texts \cup {<<Space>>, SeedText}

\* An open descriptor is of a node that exists, and a closed one is cleared.
FdsOK ==
    \A fd \in Fds :
        /\ fd_table[fd].offset \in Nat
        /\ fd_table[fd].used => fd_table[fd].node \in Live
        /\ ~fd_table[fd].used => fd_table[fd] = Unused
JobOK == job.cmd = "write" => job.chunks \in Seq(Texts \cup {<<Space>>})
FInv ==
    /\ NodesOK /\ TreeInv
    /\ cwd \in Live /\ nodes[cwd].dir
    /\ FdsOK /\ JobOK
    /\ panicked \in BOOLEAN

\* What a step does to the nodes.
Created ==
    \E parent \in Live, name \in Names :
        nodes[parent].dir /\ HasRoom(parent) /\ ramfs_create(parent, name)
Put(n, offset, text) == nodes' = [nodes EXCEPT ![n] = ramfs_write(nodes[n], offset, text)]
Overwritten == \E n \in Live, offset \in Nat, text \in Written : Put(n, offset, text)
Moved == UNCHANGED nodes \/ Created \/ Overwritten

\* Everything that is written is bytes.
LEMMA WrittenIsText == Written \subseteq Seq(Contents)
<1>1. Texts \subseteq Seq(Contents)
  <2> SUFFICES ASSUME NEW t \in Texts PROVE t \in Seq(Contents)
    OBVIOUS
  <2>1. t \in Seq(Bytes)
    BY FilesConstants
  <2>2. QED
    BY <2>1 DEF Contents
<1>2. <<Space>> \in Seq(Contents)
  BY DEF Contents
<1>3. SeedText \in Seq(Contents)
  BY DEF Contents, SeedText
<1>4. QED
  BY <1>1, <1>2, <1>3 DEF Written

\* Adding a file, overwriting one or neither keeps the tree and only adds.
LEMMA MovedKeeps ==
    ASSUME NodesOK, TreeInv, Moved
    PROVE  /\ NodesOK' /\ TreeInv' /\ Live \subseteq Live' /\ OnlyAdds
           /\ \A n \in 1 .. Len(nodes) : nodes'[n].dir = nodes[n].dir
<1>a. \A n \in 1 .. Len(nodes) : Len(nodes[n].children) \in Nat
  <2> SUFFICES ASSUME NEW n \in 1 .. Len(nodes) PROVE Len(nodes[n].children) \in Nat
    OBVIOUS
  <2>1. nodes[n] \in Node
    BY DEF NodesOK
  <2>2. nodes[n].children \in Seq(Nat)
    BY <2>1 DEF Node
  <2>3. QED
    BY <2>2
<1>b. Len(nodes) \in Nat
  BY DEF NodesOK
<1>c. (\A k \in Nat : k <= k) /\ Len(nodes) <= Len(nodes)
  BY <1>b
<1>1. CASE UNCHANGED nodes
  <2>1. NodesOK' /\ TreeInv' /\ Live' = Live
    <3>1. nodes' = nodes
      BY <1>1
    <3>2. NodesOK'
      BY <3>1 DEF NodesOK
    <3>3. TreeInv' /\ Live' = Live
      BY <3>1, SameTree
    <3>4. QED
      BY <3>2, <3>3
  <2>2. OnlyAdds
    BY <1>1, <1>a, <1>c, Zenon DEF OnlyAdds
  <2>3. QED
    BY <1>1, <2>1, <2>2
<1>2. CASE Created
  <2>1. PICK parent \in Live, name \in Names :
            nodes[parent].dir /\ HasRoom(parent) /\ ramfs_create(parent, name)
    BY <1>2 DEF Created
  <2>2. NodesOK' /\ TreeInv' /\ Live \subseteq Live'
    BY <2>1, CreateTree
  <2>3. nodes \in Seq(Node) /\ parent \in 1 .. Len(nodes)
    BY DEF NodesOK, Live
  <2>4. Len(nodes) <= Len(nodes')
    <3>1. Len(nodes') = Len(nodes) + 1
      BY <2>1, <2>3, CreateIs
    <3>2. QED
      BY <1>b, <3>1
  <2>5. /\ \A n \in 1 .. Len(nodes) :
             /\ nodes'[n].name = nodes[n].name /\ nodes'[n].dir = nodes[n].dir
             /\ n # parent => nodes'[n].children = nodes[n].children
        /\ nodes'[parent].children = Append(nodes[parent].children, Len(nodes) + 1)
    BY <2>1, <2>3, CreateFields
  <2>6. ASSUME NEW n \in 1 .. Len(nodes)
        PROVE  /\ Len(nodes[n].children) <= Len(nodes'[n].children)
               /\ \A k \in Kids(n) : nodes'[n].children[k] = nodes[n].children[k]
    <3>1. CASE n # parent
      BY <1>a, <1>c, <2>5, <3>1, Zenon
    <3>2. CASE n = parent
      <4>1. nodes[parent] \in Node
        BY <2>3
      <4> DEFINE old == nodes[parent].children
                 new == nodes'[parent].children
                 e == Len(nodes) + 1
      <4>2. old \in Seq(Nat) /\ e \in Nat /\ new = Append(old, e)
        BY <1>b, <2>5, <4>1 DEF Node
      <4>3. Kids(n) = 1 .. Len(old)
        BY <3>2 DEF Kids
      <4> HIDE DEF old, new, e
      <4>4. Len(old) <= Len(new) /\ \A k \in 1 .. Len(old) : new[k] = old[k]
        BY <4>2
      <4>5. QED
        BY <3>2, <4>3, <4>4 DEF old, new
    <3>3. QED
      BY <3>1, <3>2
  <2>7. QED
    BY <2>2, <2>4, <2>5, <2>6, Zenon DEF OnlyAdds
<1>3. CASE Overwritten
  <2>1. PICK n \in Live, offset \in Nat, text \in Written : Put(n, offset, text)
    BY <1>3 DEF Overwritten
  <2>2. n \in 1 .. Len(nodes) /\ text \in Seq(Contents)
    BY WrittenIsText DEF Live
  <2>3. /\ NodesOK' /\ TreeInv' /\ Live' = Live /\ Len(nodes') = Len(nodes)
        /\ \A m \in 1 .. Len(nodes) :
             /\ nodes'[m].name = nodes[m].name /\ nodes'[m].dir = nodes[m].dir
             /\ nodes'[m].parent = nodes[m].parent /\ nodes'[m].children = nodes[m].children
    BY <2>1, <2>2, WriteTree DEF Put
  <2>4. OnlyAdds
    BY <1>a, <1>c, <2>3, Zenon DEF OnlyAdds
  <2>5. QED
    BY <2>3, <2>4, Zenon
<1>4. QED
  BY <1>1, <1>2, <1>3 DEF Moved

\* The four things that happen to the table.
LEMMA FdsStay ==
    ASSUME FdsOK, fd_table' = fd_table, Live \subseteq Live'
    PROVE  FdsOK'
BY Zenon DEF FdsOK, Unused

LEMMA FdsOffset ==
    ASSUME FdsOK, FdTable, NEW fd \in Fds, fd_table[fd].used, NEW x \in Nat,
           fd_table' = [fd_table EXCEPT ![fd].offset = x], Live \subseteq Live'
    PROVE  FdsOK'
<1> SUFFICES ASSUME NEW g \in Fds
             PROVE  /\ fd_table'[g].offset \in Nat
                    /\ fd_table'[g].used => fd_table'[g].node \in Live'
                    /\ ~fd_table'[g].used => fd_table'[g] = Unused
  BY DEF FdsOK, Unused
<1>1. CASE g = fd
  <2>1. fd_table[g] = [used |-> fd_table[g].used, node |-> fd_table[g].node, offset |-> fd_table[g].offset]
    BY DEF FdTable
  <2>2. fd_table'[g] = [fd_table[g] EXCEPT !.offset = x]
    BY <1>1 DEF FdTable
  <2>3. fd_table'[g] = [used |-> fd_table[g].used, node |-> fd_table[g].node, offset |-> x]
    BY <2>1, <2>2
  <2>4. fd_table'[g].offset = x /\ fd_table'[g].node = fd_table[g].node /\ fd_table'[g].used = fd_table[g].used
    BY <2>3
  <2>5. QED
    BY <1>1, <2>4, Zenon DEF FdsOK
<1>2. CASE g # fd
  <2>1. fd_table'[g] = fd_table[g]
    BY <1>2 DEF FdTable
  <2>2. QED
    BY <2>1, Zenon DEF FdsOK
<1>3. QED
  BY <1>1, <1>2

LEMMA FdsOpen ==
    ASSUME FdsOK, FdTable, NEW fd \in Fds, NEW n \in Live,
           fd_table' = [fd_table EXCEPT ![fd] = [used |-> TRUE, node |-> n, offset |-> 0]],
           Live \subseteq Live'
    PROVE  FdsOK'
<1> SUFFICES ASSUME NEW g \in Fds
             PROVE  /\ fd_table'[g].offset \in Nat
                    /\ fd_table'[g].used => fd_table'[g].node \in Live'
                    /\ ~fd_table'[g].used => fd_table'[g] = Unused
  BY DEF FdsOK, Unused
<1>1. CASE g = fd
  <2>1. fd_table'[g] = [used |-> TRUE, node |-> n, offset |-> 0]
    BY <1>1 DEF FdTable
  <2>2. fd_table'[g].offset = 0 /\ fd_table'[g].node = n /\ fd_table'[g].used = TRUE
    BY <2>1
  <2>3. 0 \in Nat
    OBVIOUS
  <2>4. QED
    BY <2>2, <2>3, Zenon
<1>2. CASE g # fd
  <2>1. fd_table'[g] = fd_table[g]
    BY <1>2 DEF FdTable
  <2>2. QED
    BY <2>1, Zenon DEF FdsOK
<1>3. QED
  BY <1>1, <1>2

LEMMA FdsClose ==
    ASSUME FdsOK, FdTable, NEW fd \in Fds, sys_close(fd), Live \subseteq Live'
    PROVE  FdsOK'
<1> SUFFICES ASSUME NEW g \in Fds
             PROVE  /\ fd_table'[g].offset \in Nat
                    /\ fd_table'[g].used => fd_table'[g].node \in Live'
                    /\ ~fd_table'[g].used => fd_table'[g] = Unused
  BY DEF FdsOK, Unused
<1>1. CASE g = fd
  <2>1. fd_table'[g] = Unused
    BY <1>1 DEF FdTable, sys_close
  <2>2. Unused.offset = 0 /\ Unused.used = FALSE /\ 0 \in Nat
    BY DEF Unused
  <2>3. QED
    BY <2>1, <2>2, Zenon
<1>2. CASE g # fd
  <2>1. fd_table'[g] = fd_table[g]
    BY <1>2 DEF FdTable, sys_close
  <2>2. QED
    BY <2>1, Zenon DEF FdsOK
<1>3. QED
  BY <1>1, <1>2

\* The nodes that kernel_boot makes.
LEMMA InitFInv == Init => FInv
<1> SUFFICES ASSUME Init PROVE FInv
  OBVIOUS
<1> DEFINE a == [name |-> "/", dir |-> TRUE, parent |-> 0, children |-> <<2>>, data |-> <<>>, size |-> 0]
           b == [name |-> "tmp", dir |-> TRUE, parent |-> 1, children |-> <<>>, data |-> <<>>, size |-> 0]
           c == [name |-> "/", dir |-> TRUE, parent |-> 0, children |-> <<>>, data |-> <<>>, size |-> 0]
<1>1. nodes = <<a, b, c>>
  <2>1. Empty("tmp", TRUE, vfs_root) = b /\ Empty("/", TRUE, NULL) = c
    BY DEF Empty, vfs_root, NULL
  <2>2. [c EXCEPT !.children = <<mountpoint>>] = a
    <3> DEFINE e == <<>>
               l == <<mountpoint>>
               t == TRUE
    <3>2. c = [name |-> "/", dir |-> t, parent |-> 0, children |-> e, data |-> e, size |-> 0]
      BY Zenon
    <3>3. a = [name |-> "/", dir |-> t, parent |-> 0, children |-> l, data |-> e, size |-> 0]
      BY Zenon DEF mountpoint
    <3> HIDE DEF a, c, e, l, t
    <3>4. [[name |-> "/", dir |-> t, parent |-> 0, children |-> e, data |-> e, size |-> 0]
             EXCEPT !.children = l]
          = [name |-> "/", dir |-> t, parent |-> 0, children |-> l, data |-> e, size |-> 0]
      OBVIOUS
    <3>5. [c EXCEPT !.children = l] = a
      BY <3>2, <3>3, <3>4, Zenon
    <3>6. QED
      BY <3>5, Zenon DEF l
  <2> HIDE DEF a, b, c
  <2>3. QED
    BY <2>1, <2>2, Zenon DEF Init
<1>2. a \in Node /\ b \in Node /\ c \in Node
  BY FilesConstants DEF Node
<1>3. nodes \in Seq(Node) /\ Len(nodes) = 3 /\ nodes[1] = a /\ nodes[2] = b /\ nodes[3] = c
  <2> HIDE DEF a, b, c
  <2>1. QED
    BY <1>1, <1>2
<1>4. \A n \in 1 .. Len(nodes) : n = 1 \/ n = 2 \/ n = 3
  BY <1>3
<1>5. /\ nodes[1].children = <<2>> /\ nodes[2].children = <<>> /\ nodes[3].children = <<>>
      /\ nodes[1].dir /\ nodes[2].dir /\ nodes[3].dir
      /\ nodes[1].parent = 0 /\ nodes[2].parent = 1 /\ nodes[3].parent = 0
      /\ nodes[2].name = "tmp"
      /\ nodes[1].data = <<>> /\ nodes[2].data = <<>> /\ nodes[3].data = <<>>
      /\ nodes[1].size = 0 /\ nodes[2].size = 0 /\ nodes[3].size = 0
  BY <1>3
<1> HIDE DEF a, b, c
<1>6. NodesOK
  <2>1. \A n \in 1 .. Len(nodes) : nodes[n].size = Len(nodes[n].data)
    BY <1>4, <1>5
  <2>2. QED
    BY <1>3, <2>1 DEF NodesOK
<1>7. Mounted
  BY <1>5 DEF Mounted, vfs_root, mountpoint, tmp_root
<1>8. ASSUME NEW n \in 1 .. Len(nodes) PROVE DirOK(n) /\ KidsOK(n) /\ ParentOK(n)
  <2>1. CASE n = 1
    <3>1. DirOK(n)
      <4>1. Len(nodes[n].children) = 1 /\ nodes[n].dir
        BY <1>5, <2>1
      <4>2. 1 <= MAX_CHILDREN
        BY FilesConstants
      <4>3. QED
        BY <4>1, <4>2, Zenon DEF DirOK
    <3>2. KidsOK(n)
      BY <1>3, <1>5, <2>1 DEF KidsOK, Kids, vfs_root, tmp_root
    <3>3. ParentOK(n)
      BY <1>3, <1>5, <2>1 DEF ParentOK, vfs_root, tmp_root
    <3>4. QED
      BY <3>1, <3>2, <3>3
  <2>2. CASE n = 2
    <3>1. DirOK(n)
      BY <1>5, <2>2, FilesConstants DEF DirOK
    <3>2. KidsOK(n)
      BY <1>3, <1>5, <2>2 DEF KidsOK, Kids, vfs_root, tmp_root
    <3>3. ParentOK(n)
      <4>1. nodes[n].parent = 1 /\ 1 \in Kids(1) /\ nodes[1].children[1] = 2
        BY <1>5, <2>2 DEF Kids
      <4>2. 1 \in 1 .. Len(nodes) /\ 1 \in 0 .. Len(nodes)
        BY <1>3
      <4>3. QED
        BY <2>2, <4>1, <4>2 DEF ParentOK
    <3>4. QED
      BY <3>1, <3>2, <3>3
  <2>3. CASE n = 3
    <3>1. DirOK(n)
      BY <1>5, <2>3, FilesConstants DEF DirOK
    <3>2. KidsOK(n)
      BY <1>3, <1>5, <2>3 DEF KidsOK, Kids, vfs_root, tmp_root
    <3>3. ParentOK(n)
      BY <1>3, <1>5, <2>3 DEF ParentOK, vfs_root, tmp_root
    <3>4. QED
      BY <3>1, <3>2, <3>3
  <2>4. QED
    BY <1>4, <2>1, <2>2, <2>3
<1>9. TreeInv
  BY <1>7, <1>8 DEF TreeInv
<1>10. cwd \in Live /\ nodes[cwd].dir /\ panicked \in BOOLEAN
  <2>1. cwd = 1 /\ panicked = FALSE
    BY DEF Init, vfs_root
  <2>2. 1 \in Live
    BY <1>3 DEF Live, mountpoint
  <2>3. QED
    BY <1>5, <2>1, <2>2, Zenon
<1>11. FdsOK
  <2>1. fd_table = [fd \in Fds |-> Unused]
    BY DEF Init
  <2>2. Unused.used = FALSE /\ Unused.offset \in Nat
    BY DEF Unused
  <2>3. QED
    BY <2>1, <2>2, Zenon DEF FdsOK
<1>12. JobOK
  BY DEF Init, JobOK, Idle
<1>13. QED
  BY <1>6, <1>9, <1>10, <1>11, <1>12 DEF FInv

\* The two roots can be reached.
LEMMA RootsLive ==
    ASSUME NodesOK, TreeInv
    PROVE  /\ vfs_root \in Live /\ nodes[vfs_root].dir
           /\ tmp_root \in Live /\ nodes[tmp_root].dir
BY DEF NodesOK, TreeInv, Mounted, Live, vfs_root, tmp_root, mountpoint

\* sys_write through an open descriptor.
LEMMA WriteMoves ==
    ASSUME FInv, NEW fd \in Fds, fd_table[fd].used, NEW text \in Texts \cup {<<Space>>}, sys_write(fd, text)
    PROVE  /\ Overwritten
           /\ fd_table' = [fd_table EXCEPT ![fd].offset =
                IF nodes[fd_table[fd].node].dir THEN fd_table[fd].offset
                ELSE fd_table[fd].offset + Len(text)]
           /\ (IF nodes[fd_table[fd].node].dir THEN fd_table[fd].offset
               ELSE fd_table[fd].offset + Len(text)) \in Nat
<1>1. fd_table[fd].node \in Live /\ fd_table[fd].offset \in Nat /\ text \in Written
  BY Zenon DEF FInv, FdsOK, Written
<1>2. Put(fd_table[fd].node, fd_table[fd].offset, text)
  BY DEF sys_write, Put
<1>3. Overwritten
  BY <1>1, <1>2, Zenon DEF Overwritten
<1>4. Len(text) \in Nat
  BY <1>1, WrittenIsText
<1>5. QED
  BY <1>1, <1>3, <1>4 DEF sys_write

\* What a write command has left to write.
LEMMA ChunkIs ==
    ASSUME FInv, DInv, job.cmd = "write", job.chunks # <<>>
    PROVE  /\ job.fd \in Fds /\ fd_table[job.fd].used
           /\ Head(job.chunks) \in Texts \cup {<<Space>>}
           /\ Tail(job.chunks) \in Seq(Texts \cup {<<Space>>})
<1>1. job.fd \in Fds /\ job.fd \in Used
  BY DEF DInv, Opened
<1>2. job.chunks \in Seq(Texts \cup {<<Space>>})
  BY DEF FInv, JobOK
<1>3. QED
  BY <1>1, <1>2 DEF Used

\* Every step adds a file, overwrites one or leaves them all alone.
LEMMA NodesMove ==
    ASSUME FInv, DInv, [Next]_vars
    PROVE  Moved
<1>0. NodesOK /\ TreeInv
  BY DEF FInv
<1>1. CASE Client
  <2>1. CASE UNCHANGED nodes
    BY <2>1 DEF Moved
  <2>2. ASSUME NEW fd \in held, NEW text \in Texts, ClientWrite(fd, text) PROVE Moved
    <3>1. fd \in Fds /\ fd_table[fd].used /\ sys_write(fd, text)
      BY <2>2 DEF DInv, ClientWrite
    <3>2. QED
      BY <3>1, WriteMoves DEF Moved
  <2>3. QED
    BY <1>1, <2>1, <2>2 DEF Client, ClientOpen, ClientRead, ClientSeek, ClientClose
<1>2. ASSUME NEW name \in Names, cmd_mk(name) PROVE Moved
  <2>1. cwd \in Live /\ nodes[cwd].dir /\ HasRoom(cwd) /\ ramfs_create(cwd, name)
    BY <1>2 DEF cmd_mk, Make, FInv
  <2>2. QED
    BY <2>1, Zenon DEF Moved, Created
<1>3. ASSUME NEW name \in Names, cmd_mkr(name) PROVE Moved
  <2>1. vfs_lookup(<<"tmp">>) = tmp_root
    BY <1>0, TmpIsMounted
  <2>2. HasRoom(tmp_root) /\ ramfs_create(tmp_root, name)
    BY <1>3, <2>1, Zenon DEF cmd_mkr, Make
  <2>3. QED
    BY <1>0, <2>2, RootsLive, Zenon DEF Moved, Created
<1>4. CASE cmd_fsseed
  <2>1. UNCHANGED nodes \/ (HasRoom(vfs_root) /\ ramfs_create(vfs_root, "about"))
    BY <1>4, Zenon DEF cmd_fsseed
  <2>2. "about" \in Names
    BY FilesConstants
  <2>3. QED
    BY <1>0, <2>1, <2>2, RootsLive, Zenon DEF Moved, Created
<1>5. SeedText \in Written /\ 0 \in Nat
  BY DEF Written
<1>6. CASE SeedAbout
  <2> DEFINE about == vfs_lookup(<<"about">>)
  <2>1. Len(<<"about">>) \in Nat
    OBVIOUS
  <2>2. about \in Live \cup {NULL}
    BY <1>0, <2>1, LookupLive
  <2>3. UNCHANGED nodes \/ (about # NULL /\ Put(about, 0, SeedText))
    BY <1>6 DEF SeedAbout, Put
  <2> HIDE DEF about
  <2>4. QED
    BY <1>5, <2>2, <2>3, Zenon DEF Moved, Overwritten
<1>7. CASE SeedTmp
  <2>1. vfs_lookup(<<"tmp">>) = tmp_root
    BY <1>0, TmpIsMounted
  <2>2. UNCHANGED nodes \/ (HasRoom(tmp_root) /\ ramfs_create(tmp_root, "hello"))
    BY <1>7, <2>1, Zenon DEF SeedTmp
  <2>3. "hello" \in Names
    BY FilesConstants
  <2>4. QED
    BY <1>0, <2>2, <2>3, RootsLive, Zenon DEF Moved, Created
<1>8. CASE SeedHello
  <2> DEFINE hello == vfs_lookup(<<"tmp", "hello">>)
  <2>1. Len(<<"tmp", "hello">>) \in Nat
    OBVIOUS
  <2>2. hello \in Live \cup {NULL}
    BY <1>0, <2>1, LookupLive
  <2>3. UNCHANGED nodes \/ (hello # NULL /\ Put(hello, 0, SeedText))
    BY <1>8 DEF SeedHello, Put
  <2> HIDE DEF hello
  <2>4. QED
    BY <1>5, <2>2, <2>3, Zenon DEF Moved, Overwritten
<1>9. CASE WriteChunk
  <2>1. job.cmd = "write" /\ job.chunks # <<>> /\ sys_write(job.fd, Head(job.chunks))
    BY <1>9 DEF WriteChunk
  <2>2. QED
    BY <2>1, ChunkIs, WriteMoves DEF Moved
<1>10. CASE UNCHANGED nodes
  BY <1>10 DEF Moved
<1>11. QED
  BY <1>1, <1>2, <1>3, <1>4, <1>6, <1>7, <1>8, <1>9, <1>10
     DEF Next, Shell, OutOfMemory, Stopped, vars, cmd_cd, cmd_write, cmd_rd, WriteDone, RdRead, RdDone

\* A read returns bytes, so the position stays a number.
LEMMA ReadIsText ==
    ASSUME NEW r \in Node, r.size = Len(r.data), NEW offset \in Nat, NEW size \in Nat
    PROVE  ramfs_read(r, offset, size) \in Seq(Contents)
<1>1. r.data \in Seq(Contents) /\ r.size \in Nat /\ Len(r.data) \in Nat
  BY DEF Node
<1>2. CASE offset >= r.size
  BY <1>2 DEF ramfs_read
<1>3. CASE ~(offset >= r.size)
  <2> DEFINE end == IF offset + size > r.size THEN r.size ELSE offset + size
  <2>1. offset + 1 \in 1 .. (Len(r.data) + 1) /\ end \in offset .. Len(r.data)
    BY <1>1, <1>3
  <2>2. ramfs_read(r, offset, size) = SubSeq(r.data, offset + 1, end)
    BY <1>3 DEF ramfs_read
  <2> HIDE DEF end
  <2>3. QED
    BY <1>1, <2>1, <2>2
<1>4. QED
  BY <1>2, <1>3

\* sys_read moves an offset by what it read.
LEMMA ReadMoves ==
    ASSUME FInv, NEW fd \in Fds, fd_table[fd].used, NEW size \in Nat, sys_read(fd, size)
    PROVE  \E x \in Nat : fd_table' = [fd_table EXCEPT ![fd].offset = x]
<1> DEFINE bytes == ramfs_read(nodes[fd_table[fd].node], fd_table[fd].offset, size)
<1>1. fd_table[fd].node \in 1 .. Len(nodes) /\ fd_table[fd].offset \in Nat
  BY Zenon DEF FInv, FdsOK, Live
<1>2. nodes[fd_table[fd].node] \in Node
      /\ nodes[fd_table[fd].node].size = Len(nodes[fd_table[fd].node].data)
  BY <1>1 DEF FInv, NodesOK
<1>3. bytes \in Seq(Contents)
  BY <1>1, <1>2, ReadIsText
<1>4. fd_table' = [fd_table EXCEPT ![fd].offset = fd_table[fd].offset + Len(bytes)]
  BY DEF sys_read
<1> HIDE DEF bytes
<1>5. fd_table[fd].offset + Len(bytes) \in Nat
  BY <1>1, <1>3
<1>6. QED
  BY <1>4, <1>5

\* What opening a file puts in the table.
LEMMA OpenIs ==
    ASSUME FInv, FdTable, NEW path \in Paths, Opens(path), sys_open(path)
    PROVE  /\ vfs_lookup(path) \in Live /\ fd_alloc \in Fds /\ ~fd_table[fd_alloc].used
           /\ fd_table' = [fd_table EXCEPT ![fd_alloc] =
                              [used |-> TRUE, node |-> vfs_lookup(path), offset |-> 0]]
<1>1. Len(path) \in Nat
  BY FilesConstants
<1>2. vfs_lookup(path) \in Live
  <2>1. vfs_lookup(path) \in Live \cup {NULL}
    BY <1>1, LookupLive DEF FInv
  <2>2. QED
    BY <2>1, Zenon DEF Opens
<1>3. fd_alloc \in Fds /\ fd_alloc \notin Used
  BY OpenTakes
<1>4. QED
  BY <1>2, <1>3, Zenon DEF Used, sys_open

\* What a step does to the table: nothing, or one of three things to one of
\* its descriptors.
Seeks == \E fd \in Fds, x \in Nat : fd_table[fd].used /\ fd_table' = [fd_table EXCEPT ![fd].offset = x]
OpensOne == \E fd \in Fds, n \in Live :
    fd_table' = [fd_table EXCEPT ![fd] = [used |-> TRUE, node |-> n, offset |-> 0]]
Closes == \E fd \in Fds : sys_close(fd)

\* Every step does one of these.
LEMMA FdsMove ==
    ASSUME FInv, DInv, [Next]_vars
    PROVE  fd_table' = fd_table \/ Seeks \/ OpensOne \/ Closes
<1>0. FdTable /\ held \subseteq Fds
  BY DEF DInv
<1>1. ASSUME NEW path \in Paths, Opens(path), sys_open(path) PROVE OpensOne
  BY <1>0, <1>1, OpenIs, Zenon DEF OpensOne
<1>2. ASSUME NEW fd \in held, NEW text \in Texts, ClientWrite(fd, text) PROVE Seeks
  <2>1. fd \in Fds /\ fd_table[fd].used /\ sys_write(fd, text)
    BY <1>0, <1>2 DEF ClientWrite
  <2>2. QED
    BY <2>1, WriteMoves DEF Seeks
<1>3. ASSUME NEW fd \in held, NEW size \in Sizes, ClientRead(fd, size) PROVE Seeks
  <2>1. fd \in Fds /\ fd_table[fd].used /\ sys_read(fd, size)
    BY <1>0, <1>3 DEF ClientRead
  <2>2. size \in Nat
    BY FilesConstants
  <2>3. QED
    BY <2>1, <2>2, ReadMoves DEF Seeks
<1>4. ASSUME NEW fd \in held, NEW offset \in Offsets, ClientSeek(fd, offset) PROVE Seeks
  <2>1. fd \in Fds /\ fd_table[fd].used /\ offset \in Nat
    BY <1>0, <1>4, FilesConstants DEF ClientSeek
  <2>2. QED
    BY <1>4, <2>1 DEF Seeks, ClientSeek, sys_seek
<1>5. CASE WriteChunk
  <2>1. job.cmd = "write" /\ job.chunks # <<>> /\ sys_write(job.fd, Head(job.chunks))
    BY <1>5 DEF WriteChunk
  <2>2. QED
    BY <2>1, ChunkIs, WriteMoves DEF Seeks
<1>6. job.cmd \in Opened => job.fd \in Fds /\ fd_table[job.fd].used
  <2>1. job.cmd \in Opened => job.fd \in Fds /\ job.fd \in Used
    BY DEF DInv
  <2>2. QED
    BY <2>1, Zenon DEF Used
<1>7. CASE RdRead
  <2>1. job.fd \in Fds /\ fd_table[job.fd].used /\ sys_read(job.fd, BUFFER)
    BY <1>6, <1>7 DEF RdRead, Opened
  <2>2. BUFFER \in Nat
    BY FilesConstants
  <2>3. QED
    BY <2>1, <2>2, ReadMoves DEF Seeks
<1>8. CASE WriteDone \/ RdDone
  <2>1. job.fd \in Fds /\ sys_close(job.fd)
    BY <1>6, <1>8 DEF WriteDone, RdDone, Opened
  <2>2. QED
    BY <2>1, Zenon DEF Closes
<1>9. ASSUME NEW fd \in held, ClientClose(fd) PROVE Closes
  BY <1>0, <1>9, Zenon DEF ClientClose, Closes
<1>10. CASE Client
  BY <1>10, <1>1, <1>2, <1>3, <1>4, <1>9 DEF Client, ClientOpen
<1>11. CASE Shell
  BY <1>11, <1>1, <1>5, <1>7, <1>8
     DEF Shell, cmd_cd, cmd_mk, cmd_mkr, Make, cmd_write, cmd_rd, cmd_fsseed, SeedAbout, SeedTmp, SeedHello
<1>12. QED
  BY <1>10, <1>11 DEF Next, OutOfMemory, Stopped, vars

\* What a command has left to write is always text.
LEMMA JobMoves ==
    ASSUME FInv, DInv, [Next]_vars
    PROVE  JobOK'
<1>1. CASE job' = job
  BY <1>1 DEF FInv, JobOK
<1>2. ASSUME NEW path \in Paths, NEW w \in Texts,
             cmd_write(path, <<w>>) \/ cmd_write(path, <<w, <<Space>>, w>>)
      PROVE  JobOK'
  <2>1. job'.chunks = <<w>> \/ job'.chunks = <<w, <<Space>>, w>>
    BY <1>2 DEF cmd_write
  <2>2. <<w>> \in Seq(Texts \cup {<<Space>>})
    OBVIOUS
  <2>3. <<w, <<Space>>, w>> \in Seq(Texts \cup {<<Space>>})
    <3> DEFINE sp == <<Space>>
    <3> HIDE DEF sp
    <3>1. <<w, sp, w>> \in Seq(Texts \cup {sp})
      OBVIOUS
    <3>2. QED
      BY <3>1, Zenon DEF sp
  <2>4. QED
    BY <2>1, <2>2, <2>3, Zenon DEF JobOK
<1>3. CASE WriteChunk
  <2>1. job.cmd = "write" /\ job.chunks # <<>> /\ job' = [job EXCEPT !.chunks = Tail(job.chunks)]
    BY <1>3 DEF WriteChunk
  <2>2. job' = [cmd |-> job.cmd, fd |-> job.fd, node |-> job.node, chunks |-> Tail(job.chunks)]
    BY <2>1 DEF DInv
  <2>3. job'.chunks = Tail(job.chunks)
    BY <2>2
  <2>4. Tail(job.chunks) \in Seq(Texts \cup {<<Space>>})
    BY <2>1, ChunkIs
  <2>5. QED
    BY <2>3, <2>4, Zenon DEF JobOK
<1>4. CASE job'.cmd # "write"
  BY <1>4 DEF JobOK
<1>5. ASSUME NEW path \in Paths, cmd_rd(path) PROVE job'.cmd # "write"
  BY <1>5 DEF cmd_rd
<1>6. CASE RdRead
  <2>1. job' = [job EXCEPT !.cmd = "shown"]
    BY <1>6 DEF RdRead
  <2>2. job' = [cmd |-> "shown", fd |-> job.fd, node |-> job.node, chunks |-> job.chunks]
    BY <2>1 DEF DInv
  <2>3. QED
    BY <2>2, <1>4
<1>7. CASE cmd_fsseed \/ SeedAbout \/ SeedTmp \/ SeedHello \/ WriteDone \/ RdDone
  <2>1. job' \in {Idle, [Idle EXCEPT !.cmd = "about"], [Idle EXCEPT !.cmd = "tmp"], [Idle EXCEPT !.cmd = "hello"]}
    BY <1>7 DEF cmd_fsseed, SeedAbout, SeedTmp, SeedHello, Seed, WriteDone, RdDone
  <2>2. job'.cmd \in {"none", "about", "tmp", "hello"}
    BY <2>1 DEF Idle
  <2>3. QED
    BY <2>2, <1>4
<1>8. CASE Client \/ OutOfMemory \/ Stopped \/ UNCHANGED vars
  BY <1>1, <1>8 DEF Client, ClientOpen, ClientWrite, ClientRead, ClientSeek, ClientClose, OutOfMemory, Stopped, vars
<1>9. CASE Shell
  BY <1>1, <1>2, <1>3, <1>4, <1>5, <1>6, <1>7, <1>9 DEF Shell, cmd_cd, cmd_mk, cmd_mkr, Make
<1>10. QED
  BY <1>8, <1>9 DEF Next

\* cd goes to directories that exist.
LEMMA CwdMoves ==
    ASSUME FInv, DInv, [Next]_vars
    PROVE  cwd' \in Live /\ nodes[cwd'].dir
<1>1. CASE cwd' = cwd
  BY <1>1 DEF FInv
<1>2. ASSUME NEW absolute \in BOOLEAN, NEW path \in Paths, cmd_cd(absolute, path)
      PROVE  cwd' \in Live /\ nodes[cwd'].dir
  <2> DEFINE start == IF absolute THEN vfs_root ELSE cwd
  <2>1. NodesOK /\ TreeInv /\ cwd \in Live
    BY DEF FInv
  <2>2. start \in Live
    BY <2>1, RootsLive
  <2>3. Len(path) \in Nat
    BY FilesConstants
  <2> HIDE DEF start
  <2>4. path_resolve(start, path) \in Live \cup {NULL}
    BY <2>1, <2>2, <2>3, ResolveLive
  <2>5. /\ path_resolve(start, path) # NULL /\ nodes[path_resolve(start, path)].dir
        /\ cwd' = path_resolve(start, path)
    BY <1>2, Zenon DEF cmd_cd, Target, start
  <2>6. QED
    BY <2>4, <2>5, Zenon
<1>3. QED
  BY <1>1, <1>2
     DEF Next, Shell, OutOfMemory, Stopped, vars, cmd_mk, cmd_mkr, Make, cmd_write, cmd_rd, cmd_fsseed,
         SeedAbout, SeedTmp, SeedHello, WriteChunk, WriteDone, RdRead, RdDone,
         Client, ClientOpen, ClientWrite, ClientRead, ClientSeek, ClientClose

\* Every step keeps the invariant.
LEMMA StepFInv == FInv /\ DInv /\ [Next]_vars => FInv'
<1> SUFFICES ASSUME FInv, DInv, [Next]_vars PROVE FInv'
  OBVIOUS
<1>0. NodesOK /\ TreeInv /\ FdsOK /\ FdTable
  BY DEF FInv, DInv
<1>1. /\ NodesOK' /\ TreeInv' /\ Live \subseteq Live'
      /\ \A n \in 1 .. Len(nodes) : nodes'[n].dir = nodes[n].dir
  BY <1>0, NodesMove, MovedKeeps
<1>2. cwd' \in Live /\ nodes[cwd'].dir
  BY CwdMoves
<1>3. cwd' \in Live' /\ nodes'[cwd'].dir
  BY <1>1, <1>2, Zenon DEF Live
<1>4. FdsOK'
  <2>1. CASE fd_table' = fd_table
    BY <1>0, <1>1, <2>1, FdsStay
  <2>2. CASE Seeks
    BY <1>0, <1>1, <2>2, FdsOffset DEF Seeks
  <2>3. CASE OpensOne
    BY <1>0, <1>1, <2>3, FdsOpen DEF OpensOne
  <2>4. CASE Closes
    BY <1>0, <1>1, <2>4, FdsClose DEF Closes
  <2>5. QED
    BY <2>1, <2>2, <2>3, <2>4, FdsMove
<1>5. JobOK'
  BY JobMoves
<1>6. panicked' \in BOOLEAN
  BY DEF FInv, Next, Shell, OutOfMemory, Stopped, vars, cmd_cd, cmd_mk, cmd_mkr, Make, cmd_write, cmd_rd, cmd_fsseed,
         SeedAbout, SeedTmp, SeedHello, WriteChunk, WriteDone, RdRead, RdDone,
         Client, ClientOpen, ClientWrite, ClientRead, ClientSeek, ClientClose
<1>7. QED
  BY <1>1, <1>3, <1>4, <1>5, <1>6, Zenon DEF FInv

-----------------------------------------------------------------------------
(* What holds of every state                                                *)

\* The nodes, the descriptors and the working directory at every step: the
\* invariant on which the theorems below rest.
THEOREM FilesInvariant == Spec => [](FInv /\ DInv)
<1>1. QED
  BY InitFInv, StepFInv, InitDInv, StepDInv, PTL DEF Spec

\* The bytes of a file that ramfs_read copies out are inside the block that
\* kmalloc returned for them.
THEOREM FilesSizeWithinCapacity == Spec => []SizeWithinCapacity
<1>1. FInv => SizeWithinCapacity
  BY DEF FInv, NodesOK, SizeWithinCapacity
<1>2. QED
  BY <1>1, FilesInvariant, PTL

\* /tmp leads to the mounted file system whatever is created, and neither cd
\* nor open reaches the directory it covers.
THEOREM FilesMountHolds == Spec => []MountHolds
<1>1. FInv => MountHolds
  <2> SUFFICES ASSUME FInv PROVE MountHolds
    OBVIOUS
  <2>1. vfs_lookup(<<"tmp">>) = tmp_root
    BY TmpIsMounted DEF FInv
  <2>2. cwd # mountpoint /\ nodes[mountpoint].children = <<>>
    BY DEF FInv, TreeInv, Mounted, Live
  <2>3. \A fd \in Fds : fd_table[fd].used => fd_table[fd].node # mountpoint
    BY Zenon DEF FInv, FdsOK, Live
  <2>4. QED
    BY <2>1, <2>2, <2>3, Zenon DEF MountHolds
<1>2. QED
  BY <1>1, FilesInvariant, PTL

\* Each node other than the roots is in one place of one list.
LEMMA OneHolder ==
    ASSUME NodesOK, TreeInv, NEW n \in 1 .. Len(nodes), n \notin {vfs_root, tmp_root}
    PROVE  LET holders == {h \in (1 .. Len(nodes)) \X (1 .. MAX_CHILDREN) :
                              /\ h[2] <= Len(nodes[h[1]].children)
                              /\ nodes[h[1]].children[h[2]] = n}
           IN  Cardinality(holders) = 1 /\ \A h \in holders : h[1] = nodes[n].parent
<1> DEFINE p == nodes[n].parent
           holders == {h \in (1 .. Len(nodes)) \X (1 .. MAX_CHILDREN) :
                          /\ h[2] <= Len(nodes[h[1]].children)
                          /\ nodes[h[1]].children[h[2]] = n}
<1>1. p \in 1 .. Len(nodes) /\ \E k \in Kids(p) : nodes[p].children[k] = n
  BY DEF TreeInv, ParentOK
<1>2. PICK k \in Kids(p) : nodes[p].children[k] = n
  BY <1>1
<1>3. \A m \in 1 .. Len(nodes) : Len(nodes[m].children) \in Nat /\ Len(nodes[m].children) <= MAX_CHILDREN
  <2> SUFFICES ASSUME NEW m \in 1 .. Len(nodes)
               PROVE  Len(nodes[m].children) \in Nat /\ Len(nodes[m].children) <= MAX_CHILDREN
    OBVIOUS
  <2>1. nodes[m] \in Node
    BY DEF NodesOK
  <2>2. nodes[m].children \in Seq(Nat)
    BY <2>1 DEF Node
  <2>3. QED
    BY <2>2 DEF TreeInv, DirOK
<1> HIDE DEF p
<1>4. k \in 1 .. MAX_CHILDREN /\ k <= Len(nodes[p].children)
  BY <1>1, <1>2, <1>3, FilesConstants DEF Kids
<1>5. <<p, k>> \in holders
  BY <1>1, <1>2, <1>4
<1>6. ASSUME NEW h \in holders PROVE h = <<p, k>>
  <2>1. /\ h \in (1 .. Len(nodes)) \X (1 .. MAX_CHILDREN)
        /\ h[2] <= Len(nodes[h[1]].children) /\ nodes[h[1]].children[h[2]] = n
    OBVIOUS
  <2> HIDE DEF holders
  <2>2. h = <<h[1], h[2]>> /\ h[1] \in 1 .. Len(nodes) /\ h[2] \in 1 .. MAX_CHILDREN
    BY <2>1
  <2>3. h[2] \in Kids(h[1])
    BY <1>3, <2>1, <2>2, FilesConstants DEF Kids
  <2>4. KidsOK(h[1]) /\ KidsOK(p)
    BY <1>1, <2>2 DEF TreeInv
  <2>5. h[1] = p
    BY <2>1, <2>3, <2>4, Zenon DEF KidsOK, p
  <2>6. h[2] = k
    BY <1>2, <2>1, <2>3, <2>4, <2>5, Zenon DEF KidsOK
  <2>7. QED
    BY <2>2, <2>5, <2>6, Zenon
<1>7. holders = {<<p, k>>}
  BY <1>5, <1>6
<1> HIDE DEF holders
<1>8. Cardinality(holders) = 1
  BY <1>7, FS_Singleton
<1>9. \A h \in holders : h[1] = p
  BY <1>7
<1>10. QED
  BY <1>8, <1>9, Zenon DEF holders, p

\* The files form two trees, each entry of a directory the node of one file
\* and no directory with more than MAX_CHILDREN entries, whatever mk, mkr and
\* fsseed do and in whatever order.
THEOREM FilesTreeShape == Spec => []TreeShape
<1>1. FInv /\ DInv => TreeShape
  <2> SUFFICES ASSUME FInv, DInv PROVE TreeShape
    OBVIOUS
  <2>0. NodesOK /\ TreeInv /\ FdsOK
    BY DEF FInv
  <2>1. nodes \in Seq(Node) /\ DOMAIN nodes = 1 .. Len(nodes) /\ Len(nodes) \in Nat
    BY <2>0 DEF NodesOK
  <2>2. TypeOK
    <3>1. ASSUME NEW n \in DOMAIN nodes
          PROVE  /\ nodes[n].name \in Names \cup {"/"} /\ nodes[n].dir \in BOOLEAN
                 /\ nodes[n].parent \in 0 .. Len(nodes) /\ nodes[n].size \in Nat
      <4>1. nodes[n] \in Node
        BY <2>1
      <4>2. nodes[n].name \in Names \cup {"/"} /\ nodes[n].dir \in BOOLEAN /\ nodes[n].size \in Nat
        BY <4>1 DEF Node
      <4>3. nodes[n].parent \in 0 .. Len(nodes)
        BY <2>0, <2>1, Zenon DEF TreeInv, ParentOK
      <4>4. QED
        BY <4>2, <4>3
    <3>2. ASSUME NEW fd \in Fds
          PROVE  /\ fd_table[fd].used \in BOOLEAN /\ fd_table[fd].node \in 0 .. Len(nodes)
                 /\ fd_table[fd].offset \in Nat
      <4>1. fd_table[fd].used \in BOOLEAN /\ fd_table[fd].offset \in Nat
        BY <2>0, Zenon DEF DInv, FdTable, FdsOK
      <4>2. CASE fd_table[fd].used
        <5>1. fd_table[fd].node \in 1 .. Len(nodes)
          BY <2>0, <4>2, Zenon DEF FdsOK, Live
        <5>2. QED
          BY <2>1, <4>1, <5>1
      <4>3. CASE ~fd_table[fd].used
        <5>1. fd_table[fd] = Unused
          BY <2>0, <4>3, Zenon DEF FdsOK
        <5>2. fd_table[fd].node = 0
          BY <5>1 DEF Unused, NULL
        <5>3. QED
          BY <2>1, <4>1, <5>2
      <4>4. QED
        BY <4>2, <4>3
    <3>3. cwd \in DOMAIN nodes /\ held \subseteq Fds /\ panicked \in BOOLEAN
      BY <2>1 DEF FInv, DInv, Live
    <3>4. QED
      BY <3>1, <3>2, <3>3, Zenon DEF TypeOK
  <2>3. \A n \in DOMAIN nodes :
           /\ Len(nodes[n].children) <= MAX_CHILDREN
           /\ nodes[n].children # <<>> => nodes[n].dir
    BY <2>0, <2>1, Zenon DEF TreeInv, DirOK
  <2>4. \A n \in DOMAIN nodes \ {vfs_root, tmp_root} :
           LET holders == {h \in (DOMAIN nodes) \X (1 .. MAX_CHILDREN) :
                               /\ h[2] <= Len(nodes[h[1]].children)
                               /\ nodes[h[1]].children[h[2]] = n}
           IN  Cardinality(holders) = 1 /\ \A h \in holders : h[1] = nodes[n].parent
    BY <2>0, <2>1, OneHolder, Zenon
  <2>5. QED
    BY <2>2, <2>3, <2>4, Zenon DEF TreeShape
<1>2. QED
  BY <1>1, FilesInvariant, PTL

\* A path that leads to a node leads to it for ever: ramfs_create appends and
\* ramfs_lookup takes the first entry with a name, so that no later file of
\* the same name hides an earlier one.
THEOREM FilesPathsStable == Spec => PathsStable
<1> DEFINE Stable == \A path \in Paths : vfs_lookup(path) # NULL => vfs_lookup(path)' = vfs_lookup(path)
<1>1. FInv /\ DInv /\ [Next]_vars => Stable
  <2> SUFFICES ASSUME FInv, DInv, [Next]_vars, NEW path \in Paths, vfs_lookup(path) # NULL
               PROVE  vfs_lookup(path)' = vfs_lookup(path)
    OBVIOUS
  <2>1. NodesOK /\ TreeInv
    BY DEF FInv
  <2>2. NodesOK' /\ OnlyAdds
    BY <2>1, NodesMove, MovedKeeps
  <2>3. nodes' \in Seq(Node)
    BY <2>2 DEF NodesOK
  <2>4. Len(path) \in Nat
    BY FilesConstants
  <2>5. QED
    BY <2>1, <2>2, <2>3, <2>4, ResolveStable
<1> HIDE DEF Stable
<1>2. FInv /\ DInv /\ [Next]_vars => [Stable]_vars
  BY <1>1
<1>3. (FInv /\ DInv) /\ [Next]_vars => [Stable]_vars
  BY <1>2
<1>4. Spec => [][Stable]_vars
  BY <1>3, FilesInvariant, PTL DEF Spec
<1>5. QED
  BY <1>4 DEF PathsStable, Stable

-----------------------------------------------------------------------------
(* The file store                                                           *)

\* The refinement mapping: nodes and descriptors as FileStore sees them.
FilesOf(N) == [n \in DOMAIN N |-> [dir |-> N[n].dir, bytes |-> SubSeq(N[n].data, 1, N[n].size)]]
HandlesOf(T) ==
    [fd \in Fds |-> IF T[fd].used THEN [file |-> T[fd].node, pos |-> T[fd].offset]
                    ELSE [file |-> 0, pos |-> 0]]

\* The bytes of a file fill its block.
LEMMA FilesOfIs ==
    ASSUME NEW N \in Seq(Node), \A n \in 1 .. Len(N) : N[n].size = Len(N[n].data)
    PROVE  /\ FilesOf(N) \in Seq([dir : BOOLEAN, bytes : Seq(Contents)])
           /\ FilesOf(N) = [n \in 1 .. Len(N) |-> [dir |-> N[n].dir, bytes |-> N[n].data]]
           /\ DOMAIN FilesOf(N) = 1 .. Len(N) /\ Len(FilesOf(N)) = Len(N)
           /\ \A n \in 1 .. Len(N) :
                /\ FilesOf(N)[n] = [dir |-> N[n].dir, bytes |-> N[n].data]
                /\ FilesOf(N)[n].dir = N[n].dir /\ FilesOf(N)[n].bytes = N[n].data
<1>1. DOMAIN N = 1 .. Len(N) /\ Len(N) \in Nat
  OBVIOUS
<1>2. ASSUME NEW n \in 1 .. Len(N)
      PROVE  /\ SubSeq(N[n].data, 1, N[n].size) = N[n].data
             /\ [dir |-> N[n].dir, bytes |-> N[n].data] \in [dir : BOOLEAN, bytes : Seq(Contents)]
  <2>1. N[n] \in Node
    OBVIOUS
  <2>2. N[n].data \in Seq(Contents) /\ N[n].dir \in BOOLEAN
    BY <2>1 DEF Node
  <2>3. SubSeq(N[n].data, 1, Len(N[n].data)) = N[n].data
    BY <2>2
  <2>4. QED
    BY <2>2, <2>3
<1>3. FilesOf(N) = [n \in 1 .. Len(N) |-> [dir |-> N[n].dir, bytes |-> N[n].data]]
  BY <1>1, <1>2 DEF FilesOf
<1>4. \A n \in 1 .. Len(N) : FilesOf(N)[n] = [dir |-> N[n].dir, bytes |-> N[n].data]
  BY <1>3
<1>5. DOMAIN FilesOf(N) = 1 .. Len(N)
  BY <1>3
<1>6. FilesOf(N) \in Seq([dir : BOOLEAN, bytes : Seq(Contents)]) /\ Len(FilesOf(N)) = Len(N)
  BY <1>1, <1>2, <1>3
<1>7. ASSUME NEW n \in 1 .. Len(N)
      PROVE  FilesOf(N)[n].dir = N[n].dir /\ FilesOf(N)[n].bytes = N[n].data
  <2>1. FilesOf(N)[n] = [dir |-> N[n].dir, bytes |-> N[n].data]
    BY <1>4
  <2> DEFINE f == FilesOf(N)[n]
             d == N[n].dir
             b == N[n].data
  <2> HIDE DEF f, d, b
  <2>2. f = [dir |-> d, bytes |-> b]
    BY <2>1, Zenon DEF f, d, b
  <2>3. f.dir = d /\ f.bytes = b
    BY <2>2
  <2>4. QED
    BY <2>3, Zenon DEF f, d, b
<1>8. QED
  BY <1>3, <1>4, <1>5, <1>6, <1>7

\* ramfs_create adds an empty file.
LEMMA CreateMaps ==
    ASSUME NodesOK, NodesOK', NEW parent \in 1 .. Len(nodes), NEW name \in Names, ramfs_create(parent, name)
    PROVE  FilesOf(nodes') = Append(FilesOf(nodes), [dir |-> FALSE, bytes |-> <<>>])
<1> DEFINE N == Len(nodes)
           e == [dir |-> FALSE, bytes |-> <<>>]
           F == FilesOf(nodes)
           G == FilesOf(nodes')
<1>1. nodes \in Seq(Node) /\ N \in Nat /\ \A n \in 1 .. Len(nodes) : nodes[n].size = Len(nodes[n].data)
  BY DEF NodesOK
<1>2. nodes' \in Seq(Node) /\ \A n \in 1 .. Len(nodes') : nodes'[n].size = Len(nodes'[n].data)
  BY DEF NodesOK
<1>3. Len(nodes') = N + 1 /\ nodes'[N + 1] = Empty(name, FALSE, parent)
  BY <1>1, CreateIs
<1>4. \A n \in 1 .. N : nodes'[n].dir = nodes[n].dir /\ nodes'[n].data = nodes[n].data
  BY <1>1, CreateFields
<1>5. /\ F \in Seq([dir : BOOLEAN, bytes : Seq(Contents)]) /\ Len(F) = N
      /\ \A n \in 1 .. N : F[n] = [dir |-> nodes[n].dir, bytes |-> nodes[n].data]
  BY <1>1, FilesOfIs
<1>6. /\ G \in Seq([dir : BOOLEAN, bytes : Seq(Contents)]) /\ Len(G) = N + 1
      /\ \A n \in 1 .. (N + 1) : G[n] = [dir |-> nodes'[n].dir, bytes |-> nodes'[n].data]
  BY <1>2, <1>3, FilesOfIs
<1>7. G[N + 1] = e
  <2>1. nodes'[N + 1].dir = FALSE /\ nodes'[N + 1].data = <<>>
    BY <1>3 DEF Empty
  <2>2. N + 1 \in 1 .. (N + 1)
    BY <1>1
  <2>3. QED
    BY <1>6, <2>1, <2>2, Zenon
<1>8. \A n \in 1 .. N : G[n] = F[n]
  <2>1. (1 .. N) \subseteq 1 .. (N + 1)
    BY <1>1
  <2>2. QED
    BY <1>4, <1>5, <1>6, <2>1, Zenon
<1>9. e \in [dir : BOOLEAN, bytes : Seq(Contents)]
  OBVIOUS
<1> HIDE DEF F, G, e
<1> DEFINE S == [dir : BOOLEAN, bytes : Seq(Contents)]
           H == Append(F, e)
<1> HIDE DEF S
<1>10. G = H
  <2>1. F \in Seq(S) /\ G \in Seq(S) /\ e \in S
    BY <1>5, <1>6, <1>9 DEF S
  <2>2. H \in Seq(S) /\ Len(H) = N + 1 /\ H[N + 1] = e /\ \A n \in 1 .. N : H[n] = F[n]
    BY <1>5, <2>1, AppendProperties
  <2> HIDE DEF H
  <2>3. \A n \in 1 .. (N + 1) : G[n] = H[n]
    <3>1. \A n \in 1 .. (N + 1) : n \in 1 .. N \/ n = N + 1
      BY <1>1
    <3>2. QED
      BY <1>7, <1>8, <2>2, <3>1, Zenon
  <2>4. QED
    BY <1>6, <2>1, <2>2, <2>3, SeqEqual
<1>11. QED
  BY <1>10, Zenon DEF F, G, H, e

\* ramfs_write lays its bytes over the file's.
LEMMA WriteMaps ==
    ASSUME NodesOK, NodesOK', NEW n \in 1 .. Len(nodes), NEW offset \in Nat, NEW text \in Seq(Contents),
           Put(n, offset, text)
    PROVE  FilesOf(nodes') =
              [FilesOf(nodes) EXCEPT ![n].bytes =
                  IF FilesOf(nodes)[n].dir THEN FilesOf(nodes)[n].bytes
                  ELSE Store!Overlay(FilesOf(nodes)[n].bytes, offset, text)]
<1> DEFINE N == Len(nodes)
           F == FilesOf(nodes)
           G == FilesOf(nodes')
           w == ramfs_write(nodes[n], offset, text)
           b == IF F[n].dir THEN F[n].bytes ELSE Store!Overlay(F[n].bytes, offset, text)
<1>1. nodes \in Seq(Node) /\ N \in Nat /\ \A m \in 1 .. Len(nodes) : nodes[m].size = Len(nodes[m].data)
  BY DEF NodesOK
<1>2. nodes' \in Seq(Node) /\ \A m \in 1 .. Len(nodes') : nodes'[m].size = Len(nodes'[m].data)
  BY DEF NodesOK
<1>3. nodes[n] \in Node
  BY <1>1
<1>4. /\ w \in Node /\ w.dir = nodes[n].dir
      /\ w.data = IF nodes[n].dir THEN nodes[n].data ELSE Store!Overlay(nodes[n].data, offset, text)
  BY <1>1, <1>3, WriteIs
<1>5. nodes' = [nodes EXCEPT ![n] = w]
  BY DEF Put
<1> HIDE DEF w
<1>6. Len(nodes') = N /\ \A m \in 1 .. N : nodes'[m] = IF m = n THEN w ELSE nodes[m]
  BY <1>1, <1>4, <1>5, NodeSeq
<1>7. /\ DOMAIN F = 1 .. N /\ F = [m \in 1 .. N |-> [dir |-> nodes[m].dir, bytes |-> nodes[m].data]]
      /\ F[n].dir = nodes[n].dir /\ F[n].bytes = nodes[n].data
  BY <1>1, FilesOfIs
<1>8. G = [m \in 1 .. N |-> [dir |-> nodes'[m].dir, bytes |-> nodes'[m].data]]
  BY <1>2, <1>6, FilesOfIs
<1>9. w.data = b
  BY <1>4, <1>7, Zenon
<1> HIDE DEF F, G, b
<1>10. ASSUME NEW m \in 1 .. N PROVE G[m] = IF m = n THEN [F[n] EXCEPT !.bytes = b] ELSE F[m]
  <2>1. G[m] = [dir |-> nodes'[m].dir, bytes |-> nodes'[m].data]
    BY <1>8
  <2>2. CASE m = n
    <3>1. nodes'[m] = w
      BY <1>6, <2>2
    <3>2. G[m] = [dir |-> nodes[n].dir, bytes |-> b]
      BY <1>4, <1>9, <2>1, <3>1, Zenon
    <3>3. F[n] = [dir |-> nodes[n].dir, bytes |-> nodes[n].data]
      BY <1>7
    <3>4. QED
      BY <2>2, <3>2, <3>3
  <2>3. CASE m # n
    BY <1>6, <1>7, <2>1, <2>3
  <2>4. QED
    BY <2>2, <2>3
<1>11. DOMAIN G = 1 .. N /\ G = [m \in 1 .. N |-> G[m]] /\ F = [m \in 1 .. N |-> F[m]]
  BY <1>7, <1>8
<1>12. G = [F EXCEPT ![n].bytes = b]
  BY <1>7, <1>10, <1>11
<1>13. QED
  BY <1>12, Zenon DEF F, G, b

\* ramfs_read returns the bytes in the window.
LEMMA ReadMaps ==
    ASSUME NEW r \in Node, r.size = Len(r.data), NEW offset \in Nat, NEW size \in Nat
    PROVE  ramfs_read(r, offset, size) = Store!Window(r.data, offset, size)
<1>1. r.data \in Seq(Contents) /\ r.size \in Nat /\ Len(r.data) \in Nat
  BY DEF Node
<1> DEFINE end == Store!LesserOf(offset + size, Len(r.data))
<1>2. Store!Window(r.data, offset, size) = SubSeq(r.data, offset + 1, end)
  BY DEF Store!Window
<1>3. CASE offset >= r.size
  <2>1. end \in Int /\ end < offset + 1
    BY <1>1, <1>3 DEF Store!LesserOf
  <2> HIDE DEF end
  <2>2. SubSeq(r.data, offset + 1, end) = <<>>
    BY <1>1, <2>1
  <2>3. QED
    BY <1>2, <1>3, <2>2 DEF ramfs_read
<1>4. CASE ~(offset >= r.size)
  <2>1. end = IF offset + size > r.size THEN r.size ELSE offset + size
    BY <1>1 DEF Store!LesserOf
  <2> HIDE DEF end
  <2>2. QED
    BY <1>2, <1>4, <2>1, Zenon DEF ramfs_read
<1>5. QED
  BY <1>3, <1>4

\* sys_open, the calls that move an offset, and sys_close.
LEMMA OpenMaps ==
    ASSUME FdTable, NEW fd \in Fds, ~fd_table[fd].used, NEW n,
           fd_table' = [fd_table EXCEPT ![fd] = [used |-> TRUE, node |-> n, offset |-> 0]]
    PROVE  Store!Open(fd, n)
<1> DEFINE H == HandlesOf(fd_table)
           K == HandlesOf(fd_table')
           e == [file |-> n, pos |-> 0]
<1>1. H[fd] = [file |-> 0, pos |-> 0]
  BY DEF HandlesOf
<1>2. ASSUME NEW g \in Fds PROVE K[g] = IF g = fd THEN e ELSE H[g]
  <2>1. CASE g = fd
    <3>1. fd_table'[g] = [used |-> TRUE, node |-> n, offset |-> 0]
      BY <2>1 DEF FdTable
    <3>2. fd_table'[g].used = TRUE /\ fd_table'[g].node = n /\ fd_table'[g].offset = 0
      BY <3>1
    <3>3. QED
      BY <2>1, <3>2, Zenon DEF HandlesOf
  <2>2. CASE g # fd
    <3>1. fd_table'[g] = fd_table[g]
      BY <2>2 DEF FdTable
    <3>2. QED
      BY <2>2, <3>1, Zenon DEF HandlesOf
  <2>3. QED
    BY <2>1, <2>2
<1>3. DOMAIN H = Fds /\ DOMAIN K = Fds /\ H = [g \in Fds |-> H[g]] /\ K = [g \in Fds |-> K[g]]
  BY Zenon DEF HandlesOf
<1> HIDE DEF H, K, e
<1>4. K = [H EXCEPT ![fd] = e]
  BY <1>2, <1>3
<1>5. QED
  BY <1>1, <1>4, Zenon DEF Store!Open, Store!Closed, H, K, e, HandlesOf

\* An offset that moves is a position that moves.
LEMMA OffsetMaps ==
    ASSUME FdTable, NEW fd \in Fds, fd_table[fd].used, NEW x, fd_table[fd].node # 0,
           fd_table' = [fd_table EXCEPT ![fd].offset = x]
    PROVE  LET H == HandlesOf(fd_table) IN
           /\ H[fd] # [file |-> 0, pos |-> 0]
           /\ H[fd].file = fd_table[fd].node /\ H[fd].pos = fd_table[fd].offset
           /\ HandlesOf(fd_table') = [H EXCEPT ![fd].pos = x]
<1> DEFINE H == HandlesOf(fd_table)
           K == HandlesOf(fd_table')
           n == fd_table[fd].node
           p == fd_table[fd].offset
<1>0. H[fd] = [file |-> n, pos |-> p]
  BY Zenon DEF HandlesOf
<1>1. fd_table[fd] = [used |-> fd_table[fd].used, node |-> n, offset |-> p]
  BY DEF FdTable
<1>2. fd_table'[fd] = [fd_table[fd] EXCEPT !.offset = x] /\ \A g \in Fds : g # fd => fd_table'[g] = fd_table[g]
  BY DEF FdTable
<1>4. fd_table'[fd].used = fd_table[fd].used /\ fd_table'[fd].node = n /\ fd_table'[fd].offset = x
  <2> DEFINE u == fd_table[fd].used
             s == fd_table[fd]
             t == fd_table'[fd]
  <2> HIDE DEF u, s, t, n, p
  <2>1. s = [used |-> u, node |-> n, offset |-> p] /\ t = [s EXCEPT !.offset = x]
    BY <1>1, <1>2, Zenon DEF s, t, u
  <2>2. t = [used |-> u, node |-> n, offset |-> x]
    BY <2>1
  <2>3. t.used = u /\ t.node = n /\ t.offset = x
    BY <2>2
  <2>4. QED
    BY <2>3, Zenon DEF t, u
<1>5. K[fd] = [file |-> n, pos |-> x]
  BY <1>4, Zenon DEF HandlesOf
<1>6. \A g \in Fds : g # fd => K[g] = H[g]
  BY <1>2, Zenon DEF HandlesOf
<1>7. DOMAIN H = Fds /\ DOMAIN K = Fds /\ H = [g \in Fds |-> H[g]] /\ K = [g \in Fds |-> K[g]]
  BY Zenon DEF HandlesOf
<1>8. n # 0
  OBVIOUS
<1> HIDE DEF H, K, n, p
<1>9. H[fd].file = n /\ H[fd].pos = p /\ H[fd] # [file |-> 0, pos |-> 0]
  BY <1>0, <1>8
<1>10. [H[fd] EXCEPT !.pos = x] = [file |-> n, pos |-> x]
  BY <1>0
<1>11. K = [H EXCEPT ![fd].pos = x]
  BY <1>5, <1>6, <1>7, <1>10
<1>12. QED
  BY <1>9, <1>11, Zenon DEF H, K, n, p

\* sys_close empties a handle.
LEMMA CloseMaps ==
    ASSUME FdTable, NEW fd \in Fds, sys_close(fd)
    PROVE  Store!Close(fd) /\ buffer' = <<>>
<1> DEFINE H == HandlesOf(fd_table)
           K == HandlesOf(fd_table')
           e == [file |-> 0, pos |-> 0]
<1>1. fd_table'[fd] = Unused /\ \A g \in Fds : g # fd => fd_table'[g] = fd_table[g]
  BY DEF FdTable, sys_close
<1>2. Unused.used = FALSE
  BY DEF Unused
<1>3. K[fd] = e
  BY <1>1, <1>2, Zenon DEF HandlesOf
<1>4. \A g \in Fds : g # fd => K[g] = H[g]
  BY <1>1, Zenon DEF HandlesOf
<1>5. DOMAIN H = Fds /\ DOMAIN K = Fds /\ H = [g \in Fds |-> H[g]] /\ K = [g \in Fds |-> K[g]]
  BY Zenon DEF HandlesOf
<1> HIDE DEF H, K, e
<1>6. K = [H EXCEPT ![fd] = e]
  BY <1>3, <1>4, <1>5
<1>7. QED
  BY <1>6, Zenon DEF Store!Close, Store!Closed, H, K, e, HandlesOf, sys_close

\* Each kind of step is a step of FileStore, first mk, mkr and fsseed.
LEMMA StoreCreate ==
    ASSUME NodesOK, NodesOK', NEW parent \in 1 .. Len(nodes), NEW name \in Names,
           ramfs_create(parent, name), ~panicked, fd_table' = fd_table, buffer' = buffer, panicked' = panicked
    PROVE  Store!Next
<1>1. FilesOf(nodes') = Append(FilesOf(nodes), [dir |-> FALSE, bytes |-> <<>>])
  BY CreateMaps
<1>2. Store!Create
  BY <1>1, Zenon DEF Store!Create, FilesOf
<1>3. QED
  BY <1>2, Zenon DEF Store!Next

\* fsseed's writes, which use no descriptor.
LEMMA StorePut ==
    ASSUME NodesOK, NodesOK', NEW n \in 1 .. Len(nodes), Put(n, 0, SeedText),
           ~panicked, fd_table' = fd_table, buffer' = buffer, panicked' = panicked
    PROVE  Store!Next
<1>1. SeedText \in Seq(Contents) /\ 0 \in Nat /\ SeedText \in Texts \cup {<<Space>>, SeedText}
  BY WrittenIsText DEF Written
<1>2. FilesOf(nodes') =
         [FilesOf(nodes) EXCEPT ![n].bytes =
             IF FilesOf(nodes)[n].dir THEN FilesOf(nodes)[n].bytes
             ELSE Store!Overlay(FilesOf(nodes)[n].bytes, 0, SeedText)]
  BY <1>1, WriteMaps
<1>3. Store!Put(n, 0, SeedText)
  BY <1>2, Zenon DEF Store!Put, FilesOf
<1>4. n \in DOMAIN FilesOf(nodes)
  BY DEF FilesOf, NodesOK
<1>5. QED
  BY <1>1, <1>3, <1>4, Zenon DEF Store!Next, FilesOf

\* open, and the first step of write and rd.
LEMMA StoreOpen ==
    ASSUME FInv, FdTable, NEW path \in Paths, Opens(path), sys_open(path),
           ~panicked, nodes' = nodes, buffer' = buffer, panicked' = panicked
    PROVE  Store!Next
<1>1. /\ vfs_lookup(path) \in Live /\ fd_alloc \in Fds /\ ~fd_table[fd_alloc].used
      /\ fd_table' = [fd_table EXCEPT ![fd_alloc] =
                         [used |-> TRUE, node |-> vfs_lookup(path), offset |-> 0]]
  BY OpenIs
<1>2. PICK n \in Live : n = vfs_lookup(path)
  BY <1>1
<1>3. Store!Open(fd_alloc, n)
  BY <1>1, <1>2, OpenMaps
<1>4. n \in DOMAIN FilesOf(nodes)
  BY DEF FilesOf, FInv, NodesOK, Live
<1>5. QED
  BY <1>1, <1>3, <1>4, Zenon DEF Store!Next, FilesOf

\* close, and the last step of write and rd.
LEMMA StoreClose ==
    ASSUME FdTable, NEW fd \in Fds, sys_close(fd), ~panicked, nodes' = nodes, panicked' = panicked
    PROVE  Store!Next
<1>1. Store!Close(fd) /\ buffer' = <<>>
  BY CloseMaps
<1>2. QED
  BY <1>1, Zenon DEF Store!Next

\* An open descriptor is of a node.
LEMMA OpenNode ==
    ASSUME FInv, NEW fd \in Fds, fd_table[fd].used
    PROVE  /\ fd_table[fd].node \in 1 .. Len(nodes) /\ fd_table[fd].node # 0
           /\ fd_table[fd].offset \in Nat
<1>1. fd_table[fd].node \in 1 .. Len(nodes) /\ fd_table[fd].offset \in Nat
  BY Zenon DEF FInv, FdsOK, Live
<1>2. QED
  BY <1>1

\* seek.
LEMMA StoreSeek ==
    ASSUME FInv, FdTable, NEW fd \in Fds, fd_table[fd].used, NEW offset \in Offsets, sys_seek(fd, offset),
           ~panicked, nodes' = nodes, buffer' = buffer, panicked' = panicked
    PROVE  Store!Next
<1> DEFINE H == HandlesOf(fd_table)
<1>1. H[fd] # [file |-> 0, pos |-> 0] /\ HandlesOf(fd_table') = [H EXCEPT ![fd].pos = offset]
  BY OpenNode, OffsetMaps DEF sys_seek
<1>2. Store!Seek(fd, offset)
  BY <1>1, Zenon DEF Store!Seek, Store!Closed, HandlesOf
<1>3. QED
  BY <1>2, Zenon DEF Store!Next

\* write through a descriptor, whole or one word of many.
LEMMA StoreWrite ==
    ASSUME FInv, NodesOK', FdTable, NEW fd \in Fds, fd_table[fd].used, NEW text \in Texts \cup {<<Space>>},
           sys_write(fd, text), ~panicked, buffer' = buffer, panicked' = panicked
    PROVE  Store!Next
<1> DEFINE H == HandlesOf(fd_table)
           F == FilesOf(nodes)
           n == fd_table[fd].node
           p == fd_table[fd].offset
           x == IF nodes[n].dir THEN p ELSE p + Len(text)
<1>1. n \in 1 .. Len(nodes) /\ n # 0 /\ p \in Nat
  BY OpenNode
<1>2. fd_table' = [fd_table EXCEPT ![fd].offset = x]
  BY DEF sys_write
<1>3. Put(n, p, text)
  BY DEF sys_write, Put
<1>4. NodesOK /\ nodes \in Seq(Node) /\ \A m \in 1 .. Len(nodes) : nodes[m].size = Len(nodes[m].data)
  BY DEF FInv, NodesOK
<1>5. text \in Seq(Contents) /\ text \in Texts \cup {<<Space>>, SeedText}
  BY WrittenIsText DEF Written
<1>6. F[n].dir = nodes[n].dir
  BY <1>1, <1>4, FilesOfIs
<1> HIDE DEF n, p
<1>7. FilesOf(nodes') =
         [F EXCEPT ![n].bytes = IF F[n].dir THEN F[n].bytes ELSE Store!Overlay(F[n].bytes, p, text)]
  BY <1>1, <1>3, <1>4, <1>5, WriteMaps
<1>8. /\ H[fd] # [file |-> 0, pos |-> 0] /\ H[fd].file = n /\ H[fd].pos = p
      /\ HandlesOf(fd_table') = [H EXCEPT ![fd].pos = x]
  <2> HIDE DEF x
  <2>1. QED
    BY <1>1, <1>2, OffsetMaps DEF n, p
<1>9. HandlesOf(fd_table') = [H EXCEPT ![fd].pos = IF F[n].dir THEN H[fd].pos ELSE H[fd].pos + Len(text)]
  BY <1>6, <1>8, Zenon
<1>10. Store!Write(fd, text)
  <2>1. /\ H[fd] # [file |-> 0, pos |-> 0]
        /\ FilesOf(nodes') =
              [F EXCEPT ![H[fd].file].bytes =
                  IF F[H[fd].file].dir THEN F[H[fd].file].bytes
                  ELSE Store!Overlay(F[H[fd].file].bytes, H[fd].pos, text)]
        /\ HandlesOf(fd_table') =
              [H EXCEPT ![fd].pos = IF F[H[fd].file].dir THEN H[fd].pos ELSE H[fd].pos + Len(text)]
    BY <1>7, <1>8, <1>9, Zenon
  <2>2. QED
    BY <2>1, Zenon DEF Store!Write, Store!Put, Store!Closed, FilesOf, HandlesOf
<1>11. QED
  BY <1>5, <1>10, Zenon DEF Store!Next

\* read through a descriptor.
LEMMA StoreRead ==
    ASSUME FInv, FdTable, NEW fd \in Fds, fd_table[fd].used, NEW size \in Sizes \cup {BUFFER},
           sys_read(fd, size), ~panicked, nodes' = nodes, panicked' = panicked
    PROVE  Store!Next
<1> DEFINE H == HandlesOf(fd_table)
           F == FilesOf(nodes)
           n == fd_table[fd].node
           p == fd_table[fd].offset
           b == ramfs_read(nodes[n], p, size)
<1>1. n \in 1 .. Len(nodes) /\ n # 0 /\ p \in Nat
  BY OpenNode
<1>2. fd_table' = [fd_table EXCEPT ![fd].offset = p + Len(b)] /\ buffer' = b
  BY DEF sys_read
<1>3. nodes \in Seq(Node) /\ \A m \in 1 .. Len(nodes) : nodes[m].size = Len(nodes[m].data)
  BY DEF FInv, NodesOK
<1>4. size \in Nat
  BY FilesConstants
<1>5. F[n].bytes = nodes[n].data
  BY <1>1, <1>3, FilesOfIs
<1> HIDE DEF n, p
<1>6. b = Store!Window(nodes[n].data, p, size)
  <2>1. nodes[n] \in Node /\ nodes[n].size = Len(nodes[n].data)
    BY <1>1, <1>3
  <2>2. QED
    BY <1>1, <1>4, <2>1, ReadMaps
<1> HIDE DEF b
<1>7. /\ H[fd] # [file |-> 0, pos |-> 0] /\ H[fd].file = n /\ H[fd].pos = p
      /\ HandlesOf(fd_table') = [H EXCEPT ![fd].pos = p + Len(b)]
  BY <1>1, <1>2, OffsetMaps DEF n, p
<1>8. Store!Read(fd, size)
  <2>1. b = Store!Window(F[H[fd].file].bytes, H[fd].pos, size)
    BY <1>5, <1>6, <1>7, Zenon
  <2>2. /\ H[fd] # [file |-> 0, pos |-> 0]
        /\ buffer' = Store!Window(F[H[fd].file].bytes, H[fd].pos, size)
        /\ HandlesOf(fd_table') =
              [H EXCEPT ![fd].pos = H[fd].pos + Len(Store!Window(F[H[fd].file].bytes, H[fd].pos, size))]
    BY <1>2, <1>7, <2>1, Zenon
  <2>3. QED
    BY <2>2, Zenon DEF Store!Read, Store!Closed, FilesOf, HandlesOf
<1>9. QED
  BY <1>8, Zenon DEF Store!Next

\* kmalloc returns NULL and the machine stops.
LEMMA StoreStop ==
    ASSUME ~panicked, panicked' = TRUE, nodes' = nodes, fd_table' = fd_table, buffer' = buffer
    PROVE  Store!Next
BY Zenon DEF Store!Next

\* cd and the steps after the machine has stopped.
LEMMA StoreStays ==
    ASSUME nodes' = nodes, fd_table' = fd_table, buffer' = buffer, panicked' = panicked
    PROVE  UNCHANGED Store!vars
BY Zenon DEF Store!vars

\* The boot state of the file system: three empty directories.
LEMMA StoreInit == Init => Store!Init
<1> SUFFICES ASSUME Init PROVE Store!Init
  OBVIOUS
<1>1. NodesOK
  BY InitFInv DEF FInv
<1>2. nodes \in Seq(Node) /\ \A n \in 1 .. Len(nodes) : nodes[n].size = Len(nodes[n].data)
  BY <1>1 DEF NodesOK
<1>3. FilesOf(nodes) = [n \in 1 .. Len(nodes) |-> [dir |-> nodes[n].dir, bytes |-> nodes[n].data]]
  BY <1>2, FilesOfIs
<1>4. ASSUME NEW n \in 1 .. Len(nodes) PROVE nodes[n].dir = TRUE /\ nodes[n].data = <<>>
  <2> DEFINE a == [Empty("/", TRUE, NULL) EXCEPT !.children = <<mountpoint>>]
             b == Empty("tmp", TRUE, vfs_root)
             c == Empty("/", TRUE, NULL)
  <2>1. a.dir = TRUE /\ a.data = <<>> /\ b.dir = TRUE /\ b.data = <<>> /\ c.dir = TRUE /\ c.data = <<>>
    BY DEF Empty
  <2>2. nodes = <<a, b, c>>
    BY DEF Init
  <2> HIDE DEF a, b, c
  <2>3. Len(nodes) = 3 /\ nodes[1] = a /\ nodes[2] = b /\ nodes[3] = c
    BY <2>2
  <2>4. n = 1 \/ n = 2 \/ n = 3
    BY <2>3
  <2>5. QED
    BY <2>1, <2>3, <2>4, Zenon
<1>5. FilesOf(nodes) \in Seq([dir : {TRUE}, bytes : {<<>>}])
  <2> DEFINE e == [dir |-> TRUE, bytes |-> <<>>]
             S == [dir : {TRUE}, bytes : {<<>>}]
  <2>1. e \in S
    OBVIOUS
  <2>2. FilesOf(nodes) = [n \in 1 .. Len(nodes) |-> e]
    BY <1>3, <1>4, Zenon
  <2>3. Len(nodes) \in Nat
    BY <1>2
  <2> HIDE DEF e, S
  <2>4. FilesOf(nodes) \in Seq(S)
    BY <2>1, <2>2, <2>3
  <2>5. QED
    BY <2>4, Zenon DEF S
<1>6. HandlesOf(fd_table) = [fd \in Fds |-> [file |-> 0, pos |-> 0]]
  <2>1. Unused.used = FALSE
    BY DEF Unused
  <2>2. \A fd \in Fds : fd_table[fd].used = FALSE
    BY <2>1, Zenon DEF Init
  <2>3. QED
    BY <2>2, Zenon DEF HandlesOf
<1>7. buffer = <<>> /\ ~panicked
  BY DEF Init
<1>8. QED
  BY <1>5, <1>6, <1>7, Zenon DEF Store!Init, Store!Closed, FilesOf, HandlesOf

\* Every step of the kernel is a step of the store or leaves it alone.
LEMMA StoreStep ==
    ASSUME FInv, DInv, NodesOK', [Next]_vars
    PROVE  Store!Next \/ UNCHANGED Store!vars
<1>0. FdTable /\ held \subseteq Fds /\ NodesOK /\ TreeInv
  BY DEF DInv, FInv
<1>1. Live \subseteq 1 .. Len(nodes)
  BY DEF Live
<1>2. ASSUME NEW path \in Paths, Opens(path), sys_open(path), ~panicked,
             nodes' = nodes, buffer' = buffer, panicked' = panicked
      PROVE  Store!Next
  BY <1>0, <1>2, StoreOpen
<1>3. CASE Client
  <2>1. ASSUME NEW path \in Paths, ClientOpen(path) PROVE Store!Next
    BY <1>2, <2>1 DEF ClientOpen, Ready
  <2>2. ASSUME NEW fd \in held, NEW text \in Texts, ClientWrite(fd, text) PROVE Store!Next
    <3>1. /\ fd \in Fds /\ fd_table[fd].used /\ sys_write(fd, text) /\ ~panicked
          /\ buffer' = buffer /\ panicked' = panicked
      BY <1>0, <2>2 DEF ClientWrite, Ready
    <3>2. QED
      BY <1>0, <3>1, StoreWrite
  <2>3. ASSUME NEW fd \in held, NEW size \in Sizes, ClientRead(fd, size) PROVE Store!Next
    <3>1. /\ fd \in Fds /\ fd_table[fd].used /\ sys_read(fd, size) /\ ~panicked
          /\ nodes' = nodes /\ panicked' = panicked
      BY <1>0, <2>3 DEF ClientRead, Ready
    <3>2. QED
      BY <1>0, <3>1, StoreRead
  <2>4. ASSUME NEW fd \in held, NEW offset \in Offsets, ClientSeek(fd, offset) PROVE Store!Next
    <3>1. /\ fd \in Fds /\ fd_table[fd].used /\ sys_seek(fd, offset) /\ ~panicked
          /\ nodes' = nodes /\ buffer' = buffer /\ panicked' = panicked
      BY <1>0, <2>4 DEF ClientSeek, Ready
    <3>2. QED
      BY <1>0, <3>1, StoreSeek
  <2>5. ASSUME NEW fd \in held, ClientClose(fd) PROVE Store!Next
    <3>1. fd \in Fds /\ sys_close(fd) /\ ~panicked /\ nodes' = nodes /\ panicked' = panicked
      BY <1>0, <2>5 DEF ClientClose, Ready
    <3>2. QED
      BY <1>0, <3>1, StoreClose
  <2>6. QED
    BY <1>3, <2>1, <2>2, <2>3, <2>4, <2>5 DEF Client
<1>4. ASSUME NEW name \in Names, cmd_mk(name) PROVE Store!Next
  <2>1. /\ ramfs_create(cwd, name) /\ ~panicked
        /\ fd_table' = fd_table /\ buffer' = buffer /\ panicked' = panicked
    BY <1>4 DEF cmd_mk, Make, Ready
  <2>2. cwd \in 1 .. Len(nodes)
    BY <1>1 DEF FInv
  <2>3. QED
    BY <1>0, <2>1, <2>2, StoreCreate
<1>5. tmp_root \in 1 .. Len(nodes) /\ vfs_root \in 1 .. Len(nodes) /\ vfs_lookup(<<"tmp">>) = tmp_root
  BY <1>0, <1>1, RootsLive, TmpIsMounted
<1>6. ASSUME NEW name \in Names, cmd_mkr(name) PROVE Store!Next
  <2>1. /\ ramfs_create(tmp_root, name) /\ ~panicked
        /\ fd_table' = fd_table /\ buffer' = buffer /\ panicked' = panicked
    BY <1>5, <1>6 DEF cmd_mkr, Make, Ready
  <2>2. QED
    BY <1>0, <1>5, <2>1, StoreCreate
<1>7. ASSUME NEW n \in Live \cup {NULL}, n # NULL, Put(n, 0, SeedText), ~panicked,
             fd_table' = fd_table, buffer' = buffer, panicked' = panicked
      PROVE  Store!Next
  <2>1. n \in 1 .. Len(nodes)
    BY <1>1, <1>7
  <2>2. QED
    BY <1>0, <1>7, <2>1, StorePut
<1>8. CASE cmd_fsseed
  <2>1. ~panicked /\ fd_table' = fd_table /\ buffer' = buffer /\ panicked' = panicked
    BY <1>8 DEF cmd_fsseed, Ready
  <2>2. nodes' = nodes \/ ramfs_create(vfs_root, "about")
    BY <1>8, Zenon DEF cmd_fsseed
  <2>3. "about" \in Names
    BY FilesConstants
  <2>4. QED
    BY <1>0, <1>5, <2>1, <2>2, <2>3, StoreCreate, StoreStays
<1>9. CASE SeedAbout
  <2> DEFINE about == vfs_lookup(<<"about">>)
  <2>1. ~panicked /\ fd_table' = fd_table /\ buffer' = buffer /\ panicked' = panicked
    BY <1>9 DEF SeedAbout
  <2>2. Len(<<"about">>) \in Nat
    OBVIOUS
  <2>3. about \in Live \cup {NULL}
    BY <1>0, <2>2, LookupLive
  <2>4. nodes' = nodes \/ (about # NULL /\ Put(about, 0, SeedText))
    BY <1>9 DEF SeedAbout, Put
  <2> HIDE DEF about
  <2>5. QED
    BY <1>7, <2>1, <2>3, <2>4, StoreStays
<1>10. CASE SeedTmp
  <2>1. ~panicked /\ fd_table' = fd_table /\ buffer' = buffer /\ panicked' = panicked
    BY <1>10 DEF SeedTmp
  <2>2. nodes' = nodes \/ ramfs_create(tmp_root, "hello")
    BY <1>5, <1>10, Zenon DEF SeedTmp
  <2>3. "hello" \in Names
    BY FilesConstants
  <2>4. QED
    BY <1>0, <1>5, <2>1, <2>2, <2>3, StoreCreate, StoreStays
<1>11. CASE SeedHello
  <2> DEFINE hello == vfs_lookup(<<"tmp", "hello">>)
  <2>1. ~panicked /\ fd_table' = fd_table /\ buffer' = buffer /\ panicked' = panicked
    BY <1>11 DEF SeedHello
  <2>2. Len(<<"tmp", "hello">>) \in Nat
    OBVIOUS
  <2>3. hello \in Live \cup {NULL}
    BY <1>0, <2>2, LookupLive
  <2>4. nodes' = nodes \/ (hello # NULL /\ Put(hello, 0, SeedText))
    BY <1>11 DEF SeedHello, Put
  <2> HIDE DEF hello
  <2>5. QED
    BY <1>7, <2>1, <2>3, <2>4, StoreStays
<1>12. ASSUME NEW path \in Paths, NEW chunks, cmd_write(path, chunks) PROVE Store!Next
  BY <1>2, <1>12 DEF cmd_write, Ready
<1>13. ASSUME NEW path \in Paths, cmd_rd(path) PROVE Store!Next
  BY <1>2, <1>13 DEF cmd_rd, Ready
<1>14. CASE WriteChunk
  <2>1. /\ job.cmd = "write" /\ job.chunks # <<>> /\ sys_write(job.fd, Head(job.chunks))
        /\ ~panicked /\ buffer' = buffer /\ panicked' = panicked
    BY <1>14 DEF WriteChunk
  <2>2. QED
    BY <1>0, <2>1, ChunkIs, StoreWrite
<1>15. job.cmd \in Opened => job.fd \in Fds /\ fd_table[job.fd].used
  <2>1. job.cmd \in Opened => job.fd \in Fds /\ job.fd \in Used
    BY DEF DInv
  <2>2. QED
    BY <2>1, Zenon DEF Used
<1>16. CASE RdRead
  <2>1. /\ job.fd \in Fds /\ fd_table[job.fd].used /\ sys_read(job.fd, BUFFER)
        /\ ~panicked /\ nodes' = nodes /\ panicked' = panicked
    BY <1>15, <1>16 DEF RdRead, Opened
  <2>2. QED
    BY <1>0, <2>1, StoreRead
<1>17. CASE WriteDone \/ RdDone
  <2>1. /\ job.fd \in Fds /\ sys_close(job.fd)
        /\ ~panicked /\ nodes' = nodes /\ panicked' = panicked
    BY <1>15, <1>17 DEF WriteDone, RdDone, Opened
  <2>2. QED
    BY <1>0, <2>1, StoreClose
<1>18. ASSUME NEW absolute \in BOOLEAN, NEW path \in Paths, cmd_cd(absolute, path)
       PROVE  UNCHANGED Store!vars
  BY <1>18, StoreStays DEF cmd_cd
<1>19. CASE OutOfMemory
  BY <1>19, StoreStop DEF OutOfMemory
<1>20. CASE Stopped \/ UNCHANGED vars
  BY <1>20, StoreStays DEF Stopped, vars
<1>21. CASE Shell
  BY <1>21, <1>4, <1>6, <1>8, <1>9, <1>10, <1>11, <1>12, <1>13, <1>14, <1>16, <1>17, <1>18 DEF Shell
<1>22. QED
  BY <1>3, <1>19, <1>20, <1>21 DEF Next

\* The file system implements the file store: ramfs_write's growing blocks,
\* the descriptor table and the commands that make several calls do to files
\* and descriptors exactly what FileStore allows, and nothing else does.
THEOREM FilesImplementStore == Spec => ImplementsFileStore
<1>1. (FInv /\ DInv) /\ (FInv /\ DInv)' /\ [Next]_vars => [Store!Next]_(Store!vars)
  <2> SUFFICES ASSUME FInv, DInv, FInv', [Next]_vars PROVE Store!Next \/ UNCHANGED Store!vars
    OBVIOUS
  <2>1. NodesOK'
    BY DEF FInv
  <2>2. QED
    BY <2>1, StoreStep
<1>2. Spec => Store!Spec
  BY <1>1, StoreInit, FilesInvariant, PTL DEF Spec, Store!Spec
<1>3. QED
  BY <1>2 DEF ImplementsFileStore
=============================================================================
