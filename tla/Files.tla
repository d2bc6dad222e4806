-------------------------------- MODULE Files --------------------------------
(***************************************************************************)
(* The file system and the shell commands on it: RAM file system           *)
(* (kernel/fs/ramfs), mounts and path resolution (kernel/fs/vfs),          *)
(* descriptors (kernel/fs/fd) and the commands cd, ls, mk, mkr, write, rd  *)
(* and fsseed of kernel/shell/shell.c.                                     *)
(*                                                                         *)
(* A node is its index in nodes; 0 is the NULL pointer.  A name is a value *)
(* and a path a sequence of names.  The bytes kmalloc returns are Garbage. *)
(* Whether kmalloc succeeds is a free choice (module Heap models it); the  *)
(* code never looks, writes through NULL and the machine stops.  What the   *)
(* shell prints is left out, and so is ls, which only prints.              *)
(***************************************************************************)
EXTENDS Integers, Sequences, FiniteSets, SequencesExt

CONSTANTS
    MAX_FDS,        \* descriptors (32)
    MAX_CHILDREN,   \* entries of a directory (32)
    BUFFER,         \* bytes that rd reads at most (255)
    Names,          \* the names files are given
    Paths,          \* the paths that are looked up, sequences of names
    Bytes,          \* the values of a byte that is written
    Texts,          \* what is written in one call, sequences of bytes
    Offsets,        \* where clients seek to
    Sizes,          \* how much clients read
    MaxSize         \* bound: bytes of a file

ASSUME FilesConstants ==
    /\ MAX_FDS \in Nat \ {0} /\ MAX_CHILDREN \in Nat \ {0}
    /\ BUFFER \in Nat
    /\ {"tmp", "about", "hello"} \subseteq Names
    /\ Paths \subseteq Seq(Names) /\ Texts \subseteq Seq(Bytes)
    /\ Offsets \subseteq Nat /\ Sizes \subseteq Nat
    /\ MaxSize \in Nat

NULL == 0
Garbage == "?"
Space == "SP"
Fds == 0 .. (MAX_FDS - 1)

\* The nodes kernel_boot makes: the root, the directory /tmp in it, and the
\* root of the file system that is mounted there.
vfs_root == 1
mountpoint == 2
tmp_root == 3
Empty(name, dir, parent) ==
    [name |-> name, dir |-> dir, parent |-> parent, children |-> <<>>,
     data |-> <<>>, size |-> 0]

VARIABLES
    nodes,      \* sequence of nodes; the capacity of a file is Len(data)
    fd_table,   \* descriptor -> [used, node, offset]
    cwd,        \* the shell's working directory
    job,        \* the shell command under way
    buffer,     \* the bytes of the last read
    held,       \* descriptors that other kernel code has open (history)
    panicked    \* the machine has stopped

vars == <<nodes, fd_table, cwd, job, buffer, held, panicked>>

-----------------------------------------------------------------------------
(* Lookup                                                                   *)

\* Faulty variant: the last child with the name.
ramfs_lookup_last(n, name) ==
    LET named == {i \in DOMAIN nodes[n].children : nodes[nodes[n].children[i]].name = name}
    IN  IF named = {} THEN NULL
        ELSE nodes[n].children[CHOOSE i \in named : \A j \in named : j <= i]

\* The first child with the name.
ramfs_lookup(n, name) ==
    LET named == {i \in DOMAIN nodes[n].children : nodes[nodes[n].children[i]].name = name}
    IN  IF named = {} THEN NULL
        ELSE nodes[n].children[CHOOSE i \in named : \A j \in named : i <= j]

vfs_check_mount(n) == IF n = mountpoint THEN tmp_root ELSE n

path_resolve(start, path) ==
    LET at[i \in 0 .. Len(path)] ==
            IF i = 0 THEN start
            ELSE IF at[i - 1] = NULL THEN NULL
            ELSE LET n == ramfs_lookup(at[i - 1], path[i])
                 IN  IF n = NULL THEN NULL ELSE vfs_check_mount(n)
    IN  at[Len(path)]
vfs_lookup(path) == path_resolve(vfs_root, path)

-----------------------------------------------------------------------------
(* ramfs_create, ramfs_write, ramfs_read                                    *)

\* Faulty variant: one entry too many.
HasRoomForOneMore(parent) == Len(nodes[parent].children) <= MAX_CHILDREN

HasRoom(parent) == Len(nodes[parent].children) < MAX_CHILDREN

\* A new node at the end of the parent's children, whatever their names.
ramfs_create(parent, name) ==
    nodes' = Append([nodes EXCEPT ![parent].children = Append(@, Len(nodes) + 1)],
                    Empty(name, FALSE, parent))

\* The write needs a larger block; the old one is not freed.
Grows(n, offset, text) == ~nodes[n].dir /\ offset + Len(text) > Len(nodes[n].data)
\* Faulty variants: the new block is one byte short; the old bytes are not
\* copied.
GrownShort(r, end) == [i \in 1 .. (end - 1) |-> IF i <= r.size THEN r.data[i] ELSE Garbage]
GrownBlank(r, end) == [i \in 1 .. end |-> Garbage]

Grown(r, end) == [i \in 1 .. end |-> IF i <= r.size THEN r.data[i] ELSE Garbage]
ramfs_write(r, offset, text) ==
    LET end == offset + Len(text)
        data == IF end > Len(r.data) THEN Grown(r, end) ELSE r.data
    IN  IF r.dir THEN r
        ELSE [r EXCEPT
                !.data = [i \in DOMAIN data |->
                             IF offset < i /\ i <= end THEN text[i - offset] ELSE data[i]],
                !.size = IF end > @ THEN end ELSE @]

ramfs_read(r, offset, size) ==
    IF offset >= r.size THEN <<>>
    ELSE SubSeq(r.data, offset + 1, IF offset + size > r.size THEN r.size ELSE offset + size)

-----------------------------------------------------------------------------
(* Descriptors                                                              *)

fd_alloc == CHOOSE fd \in Fds : ~fd_table[fd].used /\ \A g \in 0 .. (fd - 1) : fd_table[g].used
Opens(path) == vfs_lookup(path) # NULL /\ \E fd \in Fds : ~fd_table[fd].used

sys_open(path) ==
    fd_table' = [fd_table EXCEPT ![fd_alloc] =
                    [used |-> TRUE, node |-> vfs_lookup(path), offset |-> 0]]

sys_write(fd, text) ==
    LET n == fd_table[fd].node
        offset == fd_table[fd].offset
    IN
    /\ nodes' = [nodes EXCEPT ![n] = ramfs_write(@, offset, text)]
    /\ fd_table' = [fd_table EXCEPT ![fd].offset = IF nodes[n].dir THEN @ ELSE @ + Len(text)]

sys_read(fd, size) ==
    LET bytes == ramfs_read(nodes[fd_table[fd].node], fd_table[fd].offset, size) IN
    /\ buffer' = bytes
    /\ fd_table' = [fd_table EXCEPT ![fd].offset = @ + Len(bytes)]

\* The other fields of a closed descriptor are never read: sys_open sets them.
\* Who closes it is done with what it read.
Unused == [used |-> FALSE, node |-> NULL, offset |-> 0]
sys_close(fd) == fd_table' = [fd_table EXCEPT ![fd] = Unused] /\ buffer' = <<>>
sys_seek(fd, offset) == fd_table' = [fd_table EXCEPT ![fd].offset = offset]

-----------------------------------------------------------------------------
(* Other kernel code with descriptors of its own.  A shell command runs     *)
(* without interruption.                                                    *)

Idle == [cmd |-> "none", fd |-> 0, node |-> NULL, chunks |-> <<>>]
Ready == job = Idle /\ ~panicked

ClientOpen(path) ==
    /\ Ready /\ Opens(path)
    /\ sys_open(path)
    /\ held' = held \cup {fd_alloc}
    /\ UNCHANGED <<nodes, cwd, job, buffer, panicked>>
ClientWrite(fd, text) ==
    /\ Ready /\ fd_table[fd].used
    /\ fd_table[fd].offset + Len(text) <= MaxSize
    /\ sys_write(fd, text)
    /\ UNCHANGED <<cwd, job, buffer, held, panicked>>
ClientRead(fd, size) ==
    /\ Ready /\ fd_table[fd].used
    /\ sys_read(fd, size)
    /\ UNCHANGED <<nodes, cwd, job, held, panicked>>
ClientSeek(fd, offset) ==
    /\ Ready /\ fd_table[fd].used
    /\ sys_seek(fd, offset)
    /\ UNCHANGED <<nodes, cwd, job, buffer, held, panicked>>
ClientClose(fd) ==
    /\ Ready
    /\ sys_close(fd)
    /\ held' = held \ {fd}
    /\ UNCHANGED <<nodes, cwd, job, panicked>>
Client ==
    \/ \E path \in Paths : ClientOpen(path)
    \/ \E fd \in held : \/ \E text \in Texts : ClientWrite(fd, text)
                        \/ \E size \in Sizes : ClientRead(fd, size)
                        \/ \E offset \in Offsets : ClientSeek(fd, offset)
                        \/ ClientClose(fd)

-----------------------------------------------------------------------------
(* Shell commands.  write, rd and fsseed make several calls, one step each. *)

Target(absolute, path) == path_resolve(IF absolute THEN vfs_root ELSE cwd, path)

cmd_cd(absolute, path) ==
    LET target == Target(absolute, path) IN
    /\ Ready
    /\ target # NULL /\ nodes[target].dir
    /\ cwd' = target
    /\ UNCHANGED <<nodes, fd_table, job, buffer, held, panicked>>

Make(dir, name) ==
    /\ Ready
    /\ HasRoom(dir)
    /\ ramfs_create(dir, name)
    /\ UNCHANGED <<fd_table, cwd, job, buffer, held, panicked>>
cmd_mk(name) == Make(cwd, name)
cmd_mkr(name) ==
    LET tmp == vfs_lookup(<<"tmp">>) IN
    tmp # NULL /\ nodes[tmp].dir /\ Make(tmp, name)

\* write <file> <words>: the words with single spaces between them, each a
\* call of sys_write.  Without a file or a descriptor it is "File not found".
cmd_write(path, chunks) ==
    /\ Ready
    /\ Len(FlattenSeq(chunks)) <= MaxSize
    /\ Opens(path)
    /\ sys_open(path)
    /\ job' = [cmd |-> "write", fd |-> fd_alloc, node |-> vfs_lookup(path), chunks |-> chunks]
    /\ UNCHANGED <<nodes, cwd, buffer, held, panicked>>
WriteChunk ==
    /\ job.cmd = "write" /\ job.chunks # <<>> /\ ~panicked
    /\ sys_write(job.fd, Head(job.chunks))
    /\ job' = [job EXCEPT !.chunks = Tail(@)]
    /\ UNCHANGED <<cwd, buffer, held, panicked>>
\* The shell says "Written.", whatever the calls returned.
WriteDone ==
    /\ job.cmd = "write" /\ job.chunks = <<>> /\ ~panicked
    /\ sys_close(job.fd)
    /\ job' = Idle
    /\ UNCHANGED <<nodes, cwd, held, panicked>>

cmd_rd(path) ==
    /\ Ready
    /\ Opens(path)
    /\ sys_open(path)
    /\ job' = [cmd |-> "rd", fd |-> fd_alloc, node |-> vfs_lookup(path), chunks |-> <<>>]
    /\ UNCHANGED <<nodes, cwd, buffer, held, panicked>>
RdRead ==
    /\ job.cmd = "rd" /\ ~panicked
    /\ sys_read(job.fd, BUFFER)
    /\ job' = [job EXCEPT !.cmd = "shown"]
    /\ UNCHANGED <<nodes, cwd, held, panicked>>
\* Faulty variant: the descriptor stays open.
RdDoneLeaks ==
    /\ job.cmd = "shown" /\ ~panicked
    /\ job' = Idle
    /\ buffer' = <<>>
    /\ UNCHANGED <<nodes, fd_table, cwd, held, panicked>>

RdDone ==
    /\ job.cmd = "shown" /\ ~panicked
    /\ sys_close(job.fd)
    /\ job' = Idle
    /\ UNCHANGED <<nodes, cwd, held, panicked>>

\* fsseed writes /about, made if it is missing, and /tmp/hello, always made
\* anew; it uses no descriptors.
Seed(stage) == job' = [Idle EXCEPT !.cmd = stage]
SeedText == <<"s">>
cmd_fsseed ==
    /\ Ready
    /\ IF vfs_lookup(<<"about">>) = NULL /\ HasRoom(vfs_root)
       THEN ramfs_create(vfs_root, "about") ELSE UNCHANGED nodes
    /\ Seed("about")
    /\ UNCHANGED <<fd_table, cwd, buffer, held, panicked>>
SeedAbout ==
    LET about == vfs_lookup(<<"about">>) IN
    /\ job.cmd = "about" /\ ~panicked
    /\ IF about # NULL THEN nodes' = [nodes EXCEPT ![about] = ramfs_write(@, 0, SeedText)]
       ELSE UNCHANGED nodes
    /\ Seed("tmp")
    /\ UNCHANGED <<fd_table, cwd, buffer, held, panicked>>
SeedTmp ==
    LET tmp == vfs_lookup(<<"tmp">>) IN
    /\ job.cmd = "tmp" /\ ~panicked
    /\ IF tmp # NULL /\ nodes[tmp].dir /\ HasRoom(tmp)
       THEN ramfs_create(tmp, "hello") /\ Seed("hello")
       ELSE job' = Idle /\ UNCHANGED nodes
    /\ UNCHANGED <<fd_table, cwd, buffer, held, panicked>>
SeedHello ==
    LET hello == vfs_lookup(<<"tmp", "hello">>) IN
    /\ job.cmd = "hello" /\ ~panicked
    /\ IF hello # NULL THEN nodes' = [nodes EXCEPT ![hello] = ramfs_write(@, 0, SeedText)]
       ELSE UNCHANGED nodes
    /\ job' = Idle
    /\ UNCHANGED <<fd_table, cwd, buffer, held, panicked>>

\* kmalloc returns NULL to ramfs_create or to ramfs_write.
NeedsMemory ==
    CASE job.cmd = "none" ->
            \/ HasRoom(cwd) \/ HasRoom(tmp_root)
            \/ \E fd \in held, text \in Texts :
                   Grows(fd_table[fd].node, fd_table[fd].offset, text)
      [] job.cmd = "write" ->
            IF job.chunks = <<>> THEN FALSE
            ELSE Grows(job.node, fd_table[job.fd].offset, Head(job.chunks))
      [] job.cmd = "about" ->
            IF vfs_lookup(<<"about">>) = NULL THEN FALSE
            ELSE Grows(vfs_lookup(<<"about">>), 0, SeedText)
      [] job.cmd = "tmp" -> HasRoom(tmp_root)
      [] job.cmd = "hello" -> Grows(vfs_lookup(<<"tmp", "hello">>), 0, SeedText)
      [] OTHER -> FALSE
OutOfMemory ==
    /\ ~panicked
    /\ NeedsMemory
    /\ panicked' = TRUE
    /\ UNCHANGED <<nodes, fd_table, cwd, job, buffer, held>>

Stopped == panicked /\ UNCHANGED vars

-----------------------------------------------------------------------------
Init ==
    /\ nodes = <<[Empty("/", TRUE, NULL) EXCEPT !.children = <<mountpoint>>],
                 Empty("tmp", TRUE, vfs_root),
                 Empty("/", TRUE, NULL)>>
    /\ fd_table = [fd \in Fds |-> Unused]
    /\ cwd = vfs_root
    /\ job = Idle
    /\ buffer = <<>>
    /\ held = {}
    /\ panicked = FALSE

Shell ==
    \/ \E absolute \in BOOLEAN, path \in Paths : cmd_cd(absolute, path)
    \/ \E name \in Names : cmd_mk(name) \/ cmd_mkr(name)
    \/ \E path \in Paths, w \in Texts : cmd_write(path, <<w>>) \/ cmd_write(path, <<w, <<Space>>, w>>)
    \/ \E path \in Paths : cmd_rd(path)
    \/ cmd_fsseed
    \/ WriteChunk \/ WriteDone \/ RdRead \/ RdDone
    \/ SeedAbout \/ SeedTmp \/ SeedHello

Next == Shell \/ Client \/ OutOfMemory \/ Stopped

Spec == Init /\ [][Next]_vars

-----------------------------------------------------------------------------
(* Properties                                                               *)

\* Types of the nodes, the descriptors and the working directory, which cd
\* never sets to a node that does not exist.
TypeOK ==
    /\ \A n \in DOMAIN nodes :
        /\ nodes[n].name \in Names \cup {"/"}
        /\ nodes[n].dir \in BOOLEAN
        /\ nodes[n].parent \in 0 .. Len(nodes)
        /\ nodes[n].size \in Nat
    /\ \A fd \in Fds :
        /\ fd_table[fd].used \in BOOLEAN
        /\ fd_table[fd].node \in 0 .. Len(nodes)
        /\ fd_table[fd].offset \in Nat
    /\ cwd \in DOMAIN nodes
    /\ held \subseteq Fds
    /\ panicked \in BOOLEAN

\* The state is well formed and the nodes form two trees: each but the two
\* roots is exactly once a child, of its parent, which is a directory with at
\* most MAX_CHILDREN entries.
TreeShape ==
    /\ TypeOK
    /\ \A n \in DOMAIN nodes :
        /\ Len(nodes[n].children) <= MAX_CHILDREN
        /\ nodes[n].children # <<>> => nodes[n].dir
    /\ \A n \in DOMAIN nodes \ {vfs_root, tmp_root} :
        LET holders == {h \in (DOMAIN nodes) \X (1 .. MAX_CHILDREN) :
                            /\ h[2] <= Len(nodes[h[1]].children)
                            /\ nodes[h[1]].children[h[2]] = n}
        IN  Cardinality(holders) = 1 /\ \A h \in holders : h[1] = nodes[n].parent

\* /tmp is the mounted file system at all times, whatever files are made, and
\* nothing reaches the directory that it covers.
MountHolds ==
    /\ vfs_lookup(<<"tmp">>) = tmp_root
    /\ cwd # mountpoint
    /\ nodes[mountpoint].children = <<>>
    /\ \A fd \in Fds : fd_table[fd].used => fd_table[fd].node # mountpoint

\* Between commands the descriptors in use are the ones other code holds: a
\* command gives back what it takes, on every path.
NoDescriptorLeak ==
    job.cmd = "none" => {fd \in Fds : fd_table[fd].used} = held

\* ramfs_write keeps the bytes of a file, which ramfs_read copies out, inside
\* the block kmalloc returned for them.
SizeWithinCapacity == \A n \in DOMAIN nodes : nodes[n].size <= Len(nodes[n].data)

\* vfs_lookup is stable: whatever ramfs_create adds, a path that leads to a
\* node leads to the same node for ever.
PathsStable ==
    [][\A path \in Paths : vfs_lookup(path) # NULL => vfs_lookup(path)' = vfs_lookup(path)]_vars

\* The refinement mapping: the contents of a file are the bytes below its size.
Store == INSTANCE FileStore WITH
    Handles <- Fds,
    Texts <- Texts \cup {<<Space>>, SeedText},
    Positions <- Offsets,
    Sizes <- Sizes \cup {BUFFER},
    Unknown <- Garbage,
    files <- [n \in DOMAIN nodes |->
                 [dir |-> nodes[n].dir, bytes |-> SubSeq(nodes[n].data, 1, nodes[n].size)]],
    handles <- [fd \in Fds |->
                   IF fd_table[fd].used
                   THEN [file |-> fd_table[fd].node, pos |-> fd_table[fd].offset]
                   ELSE [file |-> 0, pos |-> 0]],
    shown <- buffer,
    on <- ~panicked

\* Files are byte sequences and descriptors are handles with a position, as
\* FileStore says: ramfs_write's growing block with uninitialised gaps, the
\* descriptor table and the shell's several calls implement it.
ImplementsFileStore == Store!Spec

=============================================================================
