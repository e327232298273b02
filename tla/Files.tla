-------------------------------- MODULE Files --------------------------------
(***************************************************************************)
(* The file system: fs_root.c mounts /dev (devfs.c, serial.c) and /ram,     *)
(* which ramfs.c fills from the tar archive that the boot loader left in    *)
(* memory; path.c splits paths; open and read keep the descriptors of a     *)
(* task.  Directories are lists of lib/list.c, in the order of list_add.    *)
(*                                                                          *)
(* A path is a sequence of names and "/"; a character is not smaller than   *)
(* that.  Sizes and addresses are 32 bits wide.  Boot runs with interrupts   *)
(* disabled, one action for each turn of a loop.                            *)
(***************************************************************************)
EXTENDS Integers, Sequences, FiniteSets, SequencesExt

CONSTANTS Disks,      \* a sequence of archives: [entries, end], end their length
          DevFiles,   \* files of devfs(): one, zero, random
          Ports,      \* files of serial(): com1 to com4
          Block,      \* 512
          Word,       \* 2^32
          Start,      \* mod_start, the address of the archive
          MaxHeaders, \* headers[64]
          MaxFiles    \* files[16] of a task

NoName == ""

ASSUME FilesAssumption ==
    /\ {Block, Word, MaxHeaders, MaxFiles} \subseteq Nat \ {0}
    /\ Start \in Nat
    /\ DevFiles \in Seq(STRING) /\ Ports \in Seq(STRING)
    /\ \A name \in Range(DevFiles \o Ports) : name \notin {NoName, "/"}
    /\ \A m \in DOMAIN Disks :
          /\ Disks[m].end \in Nat /\ Start + Disks[m].end < Word
          /\ Disks[m].entries \in Seq(Range(Disks[m].entries))
          /\ \A h \in Range(Disks[m].entries) : /\ h.type \in {"file", "dir", "other"}
                                                /\ h.size \in Seq(0 .. 7)
                                                /\ h.name \in Seq(STRING) \ {<<>>}
                                                /\ NoName \notin Range(h.name)

VARIABLES phase,      \* how far do_it_yourself has come, or "stopped"
          module,     \* the archive the boot loader left, an index of Disks
          files,      \* tar headers counted by tar_parse
          address,    \* of the header tar_parse looks at
          i,          \* index of ramfs()
          node,       \* local variable node of ramfs(), NULL before it is set
          nodes,      \* the fs_node_t made so far
          task,       \* file_count and files of the task that opens files
          harm        \* history: writes that went where they must not

boot == <<module, files, address, i, node, nodes>>
fvars == <<phase, boot, task, harm>>

disk == Disks[module]

NULL == 0
ROOT == 1             \* root_node
DEV == 2              \* devfs_root_node
RAM == 3 + Len(DevFiles \o Ports) \* ramfs_root_node
Pointer == -1         \* file_count once a node's address was stored over it
NoFd == -1            \* what open() returns is negative

-----------------------------------------------------------------------------
(* Paths and lists.                                                         *)

\* (variant) the "/" at the end stays
Trim_keep(file) ==
    IF file # <<>> /\ file[1] = "/" THEN Tail(file) ELSE file

\* file without the "/" it starts with, and then without the one it ends with
Trim(file) ==
    LET s == IF file # <<>> /\ file[1] = "/" THEN Tail(file) ELSE file
    IN  IF s # <<>> /\ Last(s) = "/" THEN Front(s) ELSE s

\* One character of a path: it ends a segment, or it is the segment's name.
Split(p, c) == IF c = "/" THEN Append(p, NoName) ELSE [p EXCEPT ![Len(p)] = c]

\* The segments of a path; one without a name between two "/" that follow each
\* other.
path(file) == FoldLeft(Split, <<NoName>>, Trim(file))

\* (variant) the last entry with that name
FindName_last(all, list, name) ==
    LET hits == {k \in DOMAIN list : all[list[k]].name = name}
    IN  IF hits = {} THEN NULL ELSE list[CHOOSE k \in hits : \A j \in hits : k >= j]

\* list_foreach with _find_name: the first entry with that name
FindName(all, list, name) ==
    LET hits == {k \in DOMAIN list : all[list[k]].name = name}
    IN  IF hits = {} THEN NULL ELSE list[CHOOSE k \in hits : \A j \in hits : k <= j]

\* A new node at the end of the list of parent: malloc and list_add.
AddNode(all, parent, new) ==
    Append([all EXCEPT ![parent].list = Append(@, Len(all) + 1)], new)

Dir(name) == [name |-> name, dir |-> TRUE, inode |-> 0, list |-> <<>>, read |-> "none"]
File(name, inode, read) ==
    [name |-> name, dir |-> FALSE, inode |-> inode, list |-> <<>>, read |-> read]

-----------------------------------------------------------------------------
(* Lookup, reading and descriptors.                                         *)

\* devfs_finddir is the same
ramfs_finddir(n, name) == IF nodes[n].dir THEN FindName(nodes, nodes[n].list, name) ELSE NULL

\* A file has no finddir.
finddir_fs(n, name) == IF nodes[n].dir THEN ramfs_finddir(n, name) ELSE NULL

\* From a node that was found, or from none, on to the next segment.
Enter(n, seg) == IF n = NULL THEN NULL ELSE finddir_fs(n, seg)

\* finddir_fs(fs_root_get(), name), that is root_fs_finddir
find(name) == IF name = <<"/">> THEN ROOT ELSE FoldLeft(Enter, ROOT, path(name))

\* What find stores outside an object: p[seg] = NULL of path() goes behind the
\* array it allocated.  free() frees nothing, so that is behind the last block of
\* the heap, and only _ramfs_create_path reads it.
Stray(name) == IF name = <<"/">> THEN {} ELSE {"path"}

\* What ramfs_readdir, or root_fs_readdir or devfs_readdir, gives one after the
\* other from an index on.
ramfs_readdir(n, index) ==
    [k \in 1 .. Len(nodes[n].list) - index |-> nodes[n].list[k + index]]

\* The entries readdir(name, d) gives, beginning behind d->offset.
readdir(name, offset) ==
    IF find(name) = NULL THEN <<>> ELSE ramfs_readdir(find(name), offset)

\* The size a header gives: 11 octal digits, up to 2^33 - 1.
Octal(in) == FoldLeft(LAMBDA size, digit : size * 8 + digit, 0, in)

tar_getsize(in) == Octal(in) % Word

FileSize(n) == tar_getsize(disk.entries[nodes[n].inode].size)

\* open(): the descriptor, and the task after it.  files[16] lies over
\* file_count: the open after the last one stores the node's address there, and
\* the next stores a node wherever that index leads.
open(name, t) ==
    LET file == find(name)
        Fails(after, stores) == [fd |-> NoFd, task |-> after, stores |-> Stray(name) \cup stores]
    IN  CASE file = NULL            -> Fails(t, {})
          [] file # NULL /\ t.file_count = Pointer -> Fails(t, {"files"})
          [] file # NULL /\ t.file_count = MaxFiles ->
                Fails([t EXCEPT !.file_count = Pointer], {"count"})
          [] OTHER ->
                [fd     |-> t.file_count,
                 task   |-> [file_count |-> t.file_count + 1,
                             files      |-> Append(t.files, file)],
                 stores |-> Stray(name)]

ramfs_read(n, size) == IF size > FileSize(n) THEN FileSize(n) ELSE size

\* one, zero and random fill what they are asked for
dev_one_read(size) == size

\* read(fd, buffer, size) of a descriptor, always from offset 0
read(fd, t, size) ==
    LET n == t.files[fd + 1]
    IN  CASE fd >= t.file_count        -> 0
          [] nodes[n].read = "ram"     -> ramfs_read(n, size)
          [] nodes[n].read = "device"  -> dev_one_read(size)
          [] OTHER                     -> 0

-----------------------------------------------------------------------------
(* Boot.                                                                    *)

FInit == /\ phase = "start"
         /\ module \in DOMAIN Disks
         /\ files = 0 /\ address = Start /\ i = 0
         /\ node = NULL
         /\ nodes = <<Dir("/")>>
         /\ task = [file_count |-> 0, files |-> <<>>]
         /\ harm = {}

Register(all, names, read_by) ==
    FoldLeft(LAMBDA a, name : AddNode(a, DEV, File(name, 0, read_by)), all, names)

\* devfs makes its three files and mounts /dev
devfs(all) == Register(AddNode(all, ROOT, Dir("dev")), DevFiles, "device")

fs_root == /\ phase = "start"
           /\ phase' = "serial"
           /\ nodes' = devfs(nodes)
           /\ UNCHANGED <<module, files, address, i, node, task, harm>>

\* serial; without a module the boot skips ramfs
serial == /\ phase = "serial"
          /\ nodes' = Register(nodes, Ports, "none")
          /\ phase' = IF disk.end = 0 THEN "up" ELSE "parse"
          /\ UNCHANGED <<module, files, address, i, node, task, harm>>

\* (variant) no block for the rest of the data
Behind_exact(from, size) == from + (size \div Block + 1) * Block

\* Behind the data of a file whose header is at from, in full blocks.
Behind(from, size) ==
    from + (size \div Block + 1) * Block + IF size % Block # 0 THEN Block ELSE 0

\* Where tar_parse looks for the header after one with that size.
NextHeader(from, size) == Behind(from, size) % Word

\* A turn of tar_parse on a header with a name.  Where a size or the sum has
\* wrapped, next is not where the next header is: there may be a zero, or something
\* that is taken for headers, whatever it is.
tar_parse ==
    LET in == disk.entries[files + 1].size
        next == NextHeader(address, tar_getsize(in))
        astray == next # Behind(address, Octal(in))
    IN  /\ phase = "parse" /\ files < Len(disk.entries)
        /\ \/ /\ files >= MaxHeaders
              /\ phase' = "stopped" /\ harm' = harm \cup {"headers"}
              /\ UNCHANGED <<files, address>>
           \/ /\ files < MaxHeaders /\ next > Start + disk.end
              /\ phase' = "parsed"
              /\ UNCHANGED <<files, address, harm>>
           \/ /\ files < MaxHeaders /\ next <= Start + disk.end
              /\ files' = files + 1 /\ address' = next
              /\ \/ ~astray /\ UNCHANGED <<phase, harm>>
                 \/ astray /\ phase' = "parsed" /\ UNCHANGED harm
                 \/ astray /\ phase' = "stopped" /\ harm' = harm \cup {"wrap"}
        /\ UNCHANGED <<module, i, node, nodes, task>>

\* The zeros after the last header, or memory behind a module that ends with its
\* last file: what is taken for a header there ends behind mod_end and is not
\* counted, unless headers[] is full or its size wraps.
tar_parse_end == /\ phase = "parse" /\ files = Len(disk.entries)
                 /\ \/ phase' = "parsed" /\ UNCHANGED harm
                    \/ /\ address = Start + disk.end
                       /\ phase' = "stopped"
                       /\ harm' = harm \cup {IF files >= MaxHeaders THEN "headers" ELSE "wrap"}
                 /\ UNCHANGED <<boot, task>>

\* ramfs_root_node
ramfs_root == /\ phase = "parsed"
              /\ phase' = "build"
              /\ nodes' = Append(nodes, Dir("ram"))
              /\ UNCHANGED <<module, files, address, i, node, task, harm>>

\* A turn of the loop of _ramfs_create_path.
EnterOrAdd(w, seg) ==
    LET found == FindName(w.all, w.all[w.at].list, seg)
    IN  IF found # NULL THEN [w EXCEPT !.at = found]
        ELSE [all     |-> AddNode(w.all, w.at, Dir(seg)),
              at      |-> Len(w.all) + 1,
              missing |-> TRUE]

\* path() stores its final NULL behind the array it allocated; the malloc for a
\* directory that is missing puts a block header there, and the walk takes the
\* last segment for one more directory.
_ramfs_create_path(p) ==
    LET start == [all |-> nodes, at |-> RAM, missing |-> FALSE]
        parent == FoldLeft(EnterOrAdd, start, Front(p))
    IN  IF parent.missing THEN EnterOrAdd(parent, Last(p)) ELSE parent

\* A turn of the loop of ramfs().  The type that is not supported adds the node
\* of the turn before once more.
ramfs_add ==
    LET header == disk.entries[i + 1]
        p == path(header.name)
        parent == _ramfs_create_path(p)
        new == IF header.type = "file" THEN File(Last(p), i + 1, "ram") ELSE Dir(Last(p))
    IN  /\ phase = "build" /\ i < files
        /\ CASE header.type # "other" /\ parent.missing -> \* copies from a bad pointer
                  /\ phase' = "stopped"
                  /\ harm' = harm \cup {"path", "disk"}
                  /\ UNCHANGED <<i, node, nodes>>
             [] header.type # "other" /\ ~parent.missing ->
                  /\ nodes' = AddNode(parent.all, parent.at, new)
                  /\ node' = Len(parent.all) + 1
                  /\ i' = i + 1
                  /\ harm' = harm \cup {"path"}
                  /\ UNCHANGED phase
             [] header.type = "other" /\ node = NULL -> \* adds a pointer never set
                  /\ phase' = "stopped"
                  /\ harm' = harm \cup {"path", "disk"}
                  /\ UNCHANGED <<i, node, nodes>>
             [] OTHER ->
                  /\ nodes' = [parent.all EXCEPT ![parent.at].list = Append(@, node)]
                  /\ i' = i + 1
                  /\ harm' = harm \cup {"path"}
                  /\ UNCHANGED <<phase, node>>
        /\ UNCHANGED <<module, files, address, task>>

\* The end of ramfs(): fs_register mounts /ram.
ramfs_register == /\ phase = "build" /\ i = files
                  /\ phase' = "up"
                  /\ nodes' = [nodes EXCEPT ![ROOT].list = Append(@, RAM)]
                  /\ UNCHANGED <<module, files, address, i, node, task, harm>>

FNext == \/ fs_root
         \/ serial
         \/ tar_parse
         \/ tar_parse_end
         \/ ramfs_root
         \/ ramfs_add
         \/ ramfs_register

FSpec == FInit /\ [][FNext]_fvars

-----------------------------------------------------------------------------
(* Properties of the tree once it is mounted.                               *)

RamPath(name) == <<"/", "ram", "/">> \o name

\* The names in a path, and those of the directory a header's entry is in.
AddName(names, c) == IF c = "/" THEN names ELSE Append(names, c)
Names(name) == FoldLeft(AddName, <<>>, name)
ParentOf(h) == Front(Names(h.name))

\* One "/" between two names, and none before the first.
Parted(name) == /\ name[1] # "/"
                /\ \A k \in 1 .. Len(name) - 1 : (name[k] = "/") # (name[k + 1] = "/")

\* Every directory has its own header, before the headers of what it holds,
\* nothing is a link or a device, and no path is a file once and a directory
\* another time: what "tar -cf x.tar *" makes of plain files.
PlainArchive(d) ==
    /\ \A k \in DOMAIN d.entries :
          LET h == d.entries[k]
          IN  /\ h.type # "other" /\ Parted(h.name)
              /\ ParentOf(h) = <<>> \/ \E j \in 1 .. k - 1 : /\ d.entries[j].type = "dir"
                                                             /\ Names(d.entries[j].name) = ParentOf(h)
    /\ \A j, k \in DOMAIN d.entries :
          Names(d.entries[j].name) = Names(d.entries[k].name) => d.entries[j].type = d.entries[k].type

\* Where the data of the k-th header ends, to a full block, from the start of the
\* module.
EndOf(d, k) ==
    LET Blocks(j) == 1 + ((Octal(d.entries[j].size) + Block - 1) \div Block)
    IN  FoldLeft(+, 0, [j \in 1 .. k |-> Block * Blocks(j)])

\* The headers of whole files: those before the first whose data ends behind the
\* module.
WholeHeaders(d) == {k \in DOMAIN d.entries : EndOf(d, k) <= d.end}

\* The first file that does not end in the module ends beyond all addresses.
Wraps(d) == \E k \in DOMAIN d.entries : /\ k = 1 \/ k - 1 \in WholeHeaders(d)
                                        /\ Start + EndOf(d, k) >= Word

\* tar_parse counts the headers whose data is all in the module and no other, so
\* a read() of a file of /ram never leaves the module, unless the file that does
\* not fit is so long that 32 bits do not hold where it ends.
CountsWholeFiles ==
    phase \in {"parsed", "build", "up"} /\ disk.end > 0 /\ ~Wraps(disk) =>
        1 .. files = WholeHeaders(disk)

Segments(k) == Names(disk.entries[k].name)

\* The first n entries of the archive that are in its directory p, in their order.
Listed(p, n) ==
    LET Add(list, k) == IF Front(Segments(k)) = p THEN Append(list, k) ELSE list
    IN  FoldLeft(Add, <<>>, [k \in 1 .. n |-> k])

\* What /ram lists is what the archive holds: looking up the path of a
\* directory's header gives a directory that lists the entries of the archive
\* in that directory, in their order, and the path of a file's header gives the
\* first file the archive has under that path.  (ramfs, root_fs_finddir,
\* ramfs_readdir.)
DiskIsArchive ==
    phase = "up" /\ disk.end > 0 /\ PlainArchive(disk) =>
        LET Lists(n, p) == LET in == Listed(p, files)
                           IN  /\ nodes[n].dir
                               /\ [k \in DOMAIN nodes[n].list |-> nodes[nodes[n].list[k]].name]
                                  = [k \in DOMAIN in |-> Last(Segments(in[k]))]
        IN  /\ find(<<"/", "ram">>) = RAM /\ Lists(RAM, <<>>)
            /\ \A k \in 1 .. files :
                  \/ \E j \in 1 .. k - 1 : Segments(j) = Segments(k)
                  \/ LET n == find(RamPath(disk.entries[k].name))
                     IN  /\ n # NULL
                         /\ IF disk.entries[k].type = "dir" THEN Lists(n, Segments(k))
                            ELSE nodes[n].read = "ram" /\ nodes[n].inode = k

=============================================================================
