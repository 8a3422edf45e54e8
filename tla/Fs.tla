--------------------------------- MODULE Fs ---------------------------------
(***************************************************************************)
(* Inodes, directories and path names: the inode cache and the directory    *)
(* layer of fs.c under the system calls of sysfile.c that use names.        *)
(*                                                                         *)
(* The steps of a process are separated by what can make it wait: the lock  *)
(* of an inode (I_BUSY), and the one transaction of the log.  What happens  *)
(* between ilock and iunlock touches only what the lock protects and is one *)
(* step, unless a second lock is taken while the first is held.             *)
(*                                                                         *)
(* q[p] holds the variables of p's system call: the path still to walk, the *)
(* inode w that namex has reached, the inode ip of the call, and puts, the  *)
(* references it has to drop before it goes on.  freeing is the inode that  *)
(* its iput has found without links, freed whether it is free on disk yet;  *)
(* stray says that the call has followed the ".." of a removed directory.   *)
(***************************************************************************)
EXTENDS Integers, Sequences, FiniteSets, FiniteSetsExt

CONSTANTS
  Proc, Name,      \* processes; names of directory entries
  NInode,          \* inodes on disk, and so entries the cache needs
  Paths,           \* the paths used: [abs : BOOLEAN, elems : Seq(Name \cup {".."})]
  Ops,             \* the system calls used
  MaxCalls,        \* calls of the processes
  Trees            \* directory trees to begin with

None == 0
Inum == 1..NInode
Entry == 1..NInode
ROOTINO == 1
Kind == [creat |-> "file", mkdir |-> "dir", mknod |-> "dev"]
Creates == DOMAIN Kind
Parent == Creates \cup {"unlink"}       \* calls that use nameiparent first
NoPath == [abs |-> TRUE, elems |-> <<>>]
Idle == [pc |-> "user", op |-> "none", path |-> <<>>, new |-> NoPath, up |-> FALSE,
         w |-> None, ip |-> None, puts |-> <<>>, freeing |-> None, freed |-> FALSE,
         stray |-> FALSE]
Unused == [inum |-> None, ref |-> 0, busy |-> FALSE, valid |-> FALSE,
           type |-> "free", nlink |-> 0]
NoEnts == [n \in Name \cup {".."} |-> None]

VARIABLES
  disk,            \* inodes on disk, with the entries of the directories
  cache,           \* struct inode
  trans,           \* the process whose transaction is open
  q, cwd, file,    \* processes: system call, directory, an open file
  calls,           \* calls made
  adrift,          \* inodes entered in a directory that was already removed
  panic

vars == <<disk, cache, trans, q, cwd, file, calls, adrift, panic>>

Init ==
  /\ disk \in Trees
  /\ cache = [e \in Entry |-> IF e = 1 THEN [Unused EXCEPT !.inum = ROOTINO, !.ref = Cardinality(Proc)]
                              ELSE Unused]
  /\ trans = None
  /\ q = [p \in Proc |-> Idle]
  /\ cwd = [p \in Proc |-> 1] /\ file = [p \in Proc |-> None]
  /\ calls = 0
  /\ adrift = {} /\ panic = "no"

-----------------------------------------------------------------------------
(* The inode cache, as functions of a cache c.                             *)
M_iget_NotFound(c, i) == Min({e \in Entry : c[e].ref = 0})
iget(c, i) ==
  IF \E e \in Entry : c[e].ref > 0 /\ c[e].inum = i
  THEN CHOOSE e \in Entry : c[e].ref > 0 /\ c[e].inum = i
  ELSE Min({e \in Entry : c[e].ref = 0})

Referenced(c, i) ==
  LET e == iget(c, i)
  IN [c EXCEPT ![e] = IF @.ref > 0 THEN [@ EXCEPT !.ref = @ + 1]
                      ELSE [Unused EXCEPT !.inum = i, !.ref = 1]]

(* ilock: wait for the inode, then read it from disk unless it is valid.   *)
Loaded(c, e) ==
  IF c[e].valid THEN c
  ELSE [c EXCEPT ![e].valid = TRUE, ![e].type = disk[c[e].inum].type,
                 ![e].nlink = disk[c[e].inum].nlink]
Locked(c, e) == [Loaded(c, e) EXCEPT ![e].busy = TRUE]
Unlocked(c, e) == [c EXCEPT ![e].busy = FALSE]

(* iupdate                                                                 *)
Updated(d, c, e) == [d EXCEPT ![c[e].inum].type = c[e].type, ![c[e].inum].nlink = c[e].nlink]
Links(c, e, k) == [c EXCEPT ![e].nlink = @ + k]

Go(p, r) == q' = [q EXCEPT ![p] = r]
(* Process p may take its next step at label l, having dropped what it had *)
(* to drop; it takes the lock of e with the step.                          *)
At(p, l) == panic = "no" /\ q[p].pc = l /\ q[p].puts = <<>>
NoType(e) == ~cache[e].valid /\ disk[cache[e].inum].type = "free"
Lock(e) == ~cache[e].busy /\ ~NoType(e)

-----------------------------------------------------------------------------
(* iput.  The last reference to an inode without links frees it on disk,   *)
(* with its content, before the cache entry is given up.                   *)
M_Last_Zero(e) == cache[e].ref = 0 /\ cache[e].valid /\ cache[e].nlink = 0
Last(e) == cache[e].ref = 1 /\ cache[e].valid /\ cache[e].nlink = 0

iput(p) ==
  /\ panic = "no" /\ q[p].puts # <<>> /\ q[p].freeing = None
  /\ LET e == Head(q[p].puts)
     IN IF Last(e)
        THEN IF cache[e].busy THEN panic' = "iput busy" /\ UNCHANGED <<cache, q>>
             ELSE /\ cache' = [cache EXCEPT ![e].busy = TRUE]
                  /\ Go(p, [q[p] EXCEPT !.freeing = e])
                  /\ UNCHANGED panic
        ELSE /\ cache' = [cache EXCEPT ![e] = IF @.ref = 1 THEN Unused ELSE [@ EXCEPT !.ref = @ - 1]]
             /\ Go(p, [q[p] EXCEPT !.puts = Tail(@)])
             /\ UNCHANGED panic
  /\ UNCHANGED <<disk, trans, cwd, file, calls, adrift>>

(* itrunc and iupdate write to the log, whoever's transaction is open.     *)
ifree(p) ==
  /\ panic = "no" /\ q[p].freeing # None
  /\ LET e == q[p].freeing
     IN /\ ~q[p].freed
        /\ IF trans = None
           THEN panic' = "write outside of trans" /\ UNCHANGED <<disk, cache, q>>
           ELSE /\ Go(p, [q[p] EXCEPT !.freed = TRUE])
                /\ cache' = [cache EXCEPT ![e].type = "free"]
                /\ disk' = [Updated(disk, cache', e) EXCEPT ![cache[e].inum].ents = NoEnts]
                /\ UNCHANGED panic
  /\ UNCHANGED <<trans, cwd, file, calls, adrift>>

Given(e) == [cache[e] EXCEPT !.busy = FALSE, !.valid = FALSE, !.ref = @ - 1]

iputfreed(p) ==
  /\ panic = "no" /\ q[p].freed
  /\ LET e == q[p].freeing
     IN cache' = [cache EXCEPT ![e] = IF @.ref = 1 THEN Unused ELSE Given(e)]
  /\ Go(p, [q[p] EXCEPT !.freeing = None, !.freed = FALSE, !.puts = Tail(@)])
  /\ UNCHANGED <<disk, trans, cwd, file, calls, adrift, panic>>

-----------------------------------------------------------------------------
(* namex, one component per step: r is p's call with the path to walk.     *)
StartWalk(p, r, path) ==
  LET w == IF path.abs THEN iget(cache', ROOTINO) ELSE cwd[p]
  IN Go(p, [r EXCEPT !.pc = "walk", !.path = path.elems, !.w = w])
WalkRef(c, p, path) ==
  Referenced(c, IF path.abs THEN ROOTINO ELSE c[cwd[p]].inum)

Found(op) ==
  CASE op = "open" -> "open1" [] op = "chdir" -> "chdir1"
    [] op = "link" -> "begin" [] op = "unlink" -> "begin"
    [] op = "link2" -> "link2" [] OTHER -> "create1"
NotFound(op) ==
  CASE op \in {"open", "chdir", "link", "unlink"} -> "user"
    [] op = "link2" -> "linkbad" [] OTHER -> "commit"

(* namex gives the inode up and fails.                                     *)
Fails(p) ==
  [q[p] EXCEPT !.pc = NotFound(q[p].op), !.w = None, !.puts = <<q[p].w>>]

(* The entry n of a directory d that has been removed, and is still in use, *)
(* can only be "..".  It does not keep the parent from being removed too.   *)
Strays(p, d, n) == q[p].stray \/ (n = ".." /\ disk[d].nlink = 0)

Lookup(p, w, i) ==
  /\ cache' = Referenced(Loaded(cache, w), i)
  /\ Go(p, [q[p] EXCEPT !.path = Tail(@), !.w = iget(cache', i), !.puts = <<w>>,
                        !.stray = Strays(p, cache[w].inum, Head(q[p].path))])

namex(p) ==
  /\ At(p, "walk")
  /\ LET w == q[p].w path == q[p].path up == q[p].up
     IN IF path = <<>>
        THEN /\ Go(p, IF up THEN Fails(p) ELSE [q[p] EXCEPT !.pc = Found(q[p].op)])
             /\ UNCHANGED cache
        ELSE /\ Lock(w)
             /\ LET c == Loaded(cache, w) i == disk[c[w].inum].ents[Head(path)]
                IN IF c[w].type = "dir" /\ up /\ Len(path) = 1
                   THEN cache' = c /\ Go(p, [q[p] EXCEPT !.pc = Found(q[p].op)])
                   ELSE IF c[w].type # "dir" \/ i = None
                   THEN cache' = c /\ Go(p, Fails(p))
                   ELSE Lookup(p, w, i)
  /\ UNCHANGED <<disk, trans, cwd, file, calls, adrift, panic>>

-----------------------------------------------------------------------------
Call(p, op, path, new) ==
  /\ At(p, "user") /\ calls < MaxCalls
  /\ calls' = calls + 1
  /\ op \in {"open", "creat"} => file[p] = None
  /\ LET r == [Idle EXCEPT !.op = op, !.new = new, !.up = op \in Parent]
     IN IF op \in Creates
        THEN Go(p, [r EXCEPT !.pc = "begin"]) /\ UNCHANGED cache
        ELSE cache' = WalkRef(cache, p, path) /\ StartWalk(p, r, path)
  /\ UNCHANGED <<disk, trans, cwd, file, adrift, panic>>

Close(p) ==
  /\ At(p, "user") /\ calls < MaxCalls /\ file[p] # None
  /\ calls' = calls + 1
  /\ Go(p, [Idle EXCEPT !.op = "close", !.pc = "begin"])
  /\ UNCHANGED <<disk, cache, trans, cwd, file, adrift, panic>>

begin_trans(p) ==
  /\ At(p, "begin") /\ trans = None
  /\ trans' = p
  /\ LET r == q[p]
     IN CASE r.op = "close" ->
               /\ Go(p, [r EXCEPT !.pc = "commit", !.puts = <<file[p]>>])
               /\ UNCHANGED cache
          [] r.op = "link" -> Go(p, [r EXCEPT !.pc = "link1", !.ip = r.w, !.w = None]) /\ UNCHANGED cache
          [] r.op = "unlink" -> Go(p, [r EXCEPT !.pc = "unlink1"]) /\ UNCHANGED cache
          [] OTHER -> cache' = WalkRef(cache, p, r.new) /\ StartWalk(p, r, r.new)
  /\ file' = [file EXCEPT ![p] = IF q[p].op = "close" THEN None ELSE @]
  /\ UNCHANGED <<disk, cwd, calls, adrift, panic>>

commit_trans(p) ==
  /\ At(p, "commit")
  /\ trans' = None
  /\ Go(p, IF q[p].op = "creat" /\ q[p].ip # None THEN [q[p] EXCEPT !.pc = "open2"] ELSE Idle)
  /\ UNCHANGED <<disk, cache, cwd, file, calls, adrift, panic>>

-----------------------------------------------------------------------------
(* sys_open, after namei; a directory is only opened for reading.          *)
open1(p) ==
  /\ At(p, "open1") /\ Lock(q[p].w)
  /\ cache' = Locked(cache, q[p].w)
  /\ \/ Go(p, [q[p] EXCEPT !.pc = "open2", !.ip = q[p].w, !.w = None])
     \/ /\ cache'[q[p].w].type = "dir"
        /\ Go(p, [q[p] EXCEPT !.pc = "openbad", !.ip = q[p].w, !.w = None])
  /\ UNCHANGED <<disk, trans, cwd, file, calls, adrift, panic>>

(* A file and a descriptor, or neither: then the inode is put again.       *)
open2(p) ==
  /\ At(p, "open2") \/ At(p, "openbad")
  /\ LET e == q[p].ip
     IN /\ cache' = Unlocked(cache, e)
        /\ \/ /\ q[p].pc = "open2"
              /\ file' = [file EXCEPT ![p] = e] /\ Go(p, Idle)
           \/ Go(p, [Idle EXCEPT !.puts = <<e>>]) /\ UNCHANGED file
  /\ UNCHANGED <<disk, trans, cwd, calls, adrift, panic>>

chdir1(p) ==
  /\ At(p, "chdir1") /\ Lock(q[p].w)
  /\ cache' = Loaded(cache, q[p].w)
  /\ IF cache'[q[p].w].type = "dir"
     THEN Go(p, [Idle EXCEPT !.puts = <<cwd[p]>>]) /\ cwd' = [cwd EXCEPT ![p] = q[p].w]
     ELSE Go(p, [Idle EXCEPT !.puts = <<q[p].w>>]) /\ UNCHANGED cwd
  /\ UNCHANGED <<disk, trans, file, calls, adrift, panic>>

(* exit drops the current directory; the slot is not used again.           *)
exit(p) ==
  /\ At(p, "user") /\ "exit" \in Ops /\ file[p] = None
  /\ Go(p, [Idle EXCEPT !.pc = "dead", !.puts = <<cwd[p]>>])
  /\ cwd' = [cwd EXCEPT ![p] = None]
  /\ UNCHANGED <<disk, cache, trans, file, calls, adrift, panic>>

-----------------------------------------------------------------------------
(* sys_link: the link is counted before it is entered.                     *)
link1(p) ==
  /\ At(p, "link1") /\ Lock(q[p].ip)
  /\ LET e == q[p].ip c == Loaded(cache, e) up == Links(c, e, 1) r == q[p]
     IN IF c[e].type = "dir"
        THEN /\ cache' = c /\ Go(p, [r EXCEPT !.pc = "commit", !.ip = None, !.puts = <<e>>])
             /\ UNCHANGED disk
        ELSE /\ disk' = Updated(disk, up, e)
             /\ cache' = WalkRef(up, p, r.new)
             /\ StartWalk(p, [r EXCEPT !.op = "link2", !.up = TRUE], r.new)
  /\ UNCHANGED <<trans, cwd, file, calls, adrift, panic>>

(* dirlink, then what is put.  The name is the last of the call's path.    *)
LastName(p) == q[p].path[Len(q[p].path)]
Enter(d, c, e, n, i) == [d EXCEPT ![c[e].inum].ents[n] = i]
Adrift(d, i) == adrift' = IF disk[d].nlink = 0 THEN adrift \cup {d, i} ELSE adrift

link2(p) ==
  /\ At(p, "link2") /\ Lock(q[p].w)
  /\ LET r == q[p] dp == r.w c == Loaded(cache, dp) d == c[dp].inum i == c[r.ip].inum
     IN /\ cache' = c
        /\ IF disk[d].ents[LastName(p)] # None
           THEN /\ Go(p, [r EXCEPT !.pc = "linkbad", !.w = None, !.puts = <<dp>>])
                /\ UNCHANGED <<disk, adrift>>
           ELSE /\ disk' = Enter(disk, c, dp, LastName(p), i)
                /\ Adrift(d, i)
                /\ Go(p, [r EXCEPT !.pc = "commit", !.w = None, !.ip = None, !.puts = <<dp, r.ip>>])
  /\ UNCHANGED <<trans, cwd, file, calls, panic>>

linkbad(p) ==
  /\ At(p, "linkbad") /\ Lock(q[p].ip)
  /\ LET e == q[p].ip
     IN /\ cache' = Links(Loaded(cache, e), e, -1)
        /\ disk' = Updated(disk, cache', e)
        /\ Go(p, [q[p] EXCEPT !.pc = "commit", !.ip = None, !.puts = <<e>>])
  /\ UNCHANGED <<trans, cwd, file, calls, adrift, panic>>

-----------------------------------------------------------------------------
(* sys_unlink: the directory stays locked while the inode is locked too.   *)
unlink1(p) ==
  /\ At(p, "unlink1") /\ Lock(q[p].w)
  /\ LET r == q[p] dp == r.w i == disk[cache[dp].inum].ents[LastName(p)]
     IN IF LastName(p) = ".." \/ i = None
        THEN /\ cache' = Loaded(cache, dp)
             /\ Go(p, [r EXCEPT !.pc = "commit", !.w = None, !.puts = <<dp>>])
        ELSE /\ cache' = Referenced(Locked(cache, dp), i)
             /\ Go(p, [r EXCEPT !.pc = "unlink2", !.ip = iget(cache', i)])
  /\ UNCHANGED <<disk, trans, cwd, file, calls, adrift, panic>>

isdirempty(i) == \A n \in Name : disk[i].ents[n] = None

unlink2(p) ==
  /\ At(p, "unlink2") /\ Lock(q[p].ip)
  /\ LET r == q[p] dp == r.w ip == r.ip
         c == Locked(cache, ip)
         d == IF c[ip].type = "dir" THEN Links(c, dp, -1) ELSE c
     IN IF c[ip].nlink < 1 THEN panic' = "unlink: nlink < 1" /\ UNCHANGED <<disk, cache, q>>
        ELSE IF c[ip].type = "dir" /\ ~isdirempty(c[ip].inum)
        THEN /\ cache' = Unlocked(c, ip)
             /\ Go(p, [r EXCEPT !.pc = "unlinkbad", !.ip = None, !.puts = <<ip>>])
             /\ UNCHANGED <<disk, panic>>
        ELSE /\ cache' = Unlocked(d, dp)
             /\ disk' = Updated(Enter(disk, d, dp, LastName(p), None), d, dp)
             /\ Go(p, [r EXCEPT !.pc = "unlink3", !.w = None, !.puts = <<dp>>])
             /\ UNCHANGED panic
  /\ UNCHANGED <<trans, cwd, file, calls, adrift>>

unlink3(p) ==
  /\ At(p, "unlink3")
  /\ LET ip == q[p].ip c == Links(cache, ip, -1)
     IN /\ cache' = Unlocked(c, ip)
        /\ disk' = Updated(disk, c, ip)
        /\ Go(p, [q[p] EXCEPT !.pc = "commit", !.ip = None, !.puts = <<ip>>])
  /\ UNCHANGED <<trans, cwd, file, calls, adrift, panic>>

unlinkbad(p) ==
  /\ At(p, "unlinkbad")
  /\ cache' = Unlocked(cache, q[p].w)
  /\ Go(p, [q[p] EXCEPT !.pc = "commit", !.w = None, !.puts = <<q[p].w>>])
  /\ UNCHANGED <<disk, trans, cwd, file, calls, adrift, panic>>

-----------------------------------------------------------------------------
(* create: the directory stays locked while a new inode is made.           *)
FreeInodes == {i \in Inum : disk[i].type = "free"}

create1(p) ==
  /\ At(p, "create1") /\ Lock(q[p].w)
  /\ LET r == q[p] dp == r.w n == LastName(p) i == disk[cache[dp].inum].ents[n]
         new == Min(FreeInodes)
     IN IF i # None
        THEN /\ cache' = Referenced(Loaded(cache, dp), i)
             /\ Go(p, [r EXCEPT !.pc = "create2", !.w = None, !.ip = iget(cache', i), !.puts = <<dp>>,
                                !.stray = Strays(p, cache[dp].inum, n)])
             /\ UNCHANGED <<disk, adrift, panic>>
        ELSE IF FreeInodes = {}
        THEN panic' = "ialloc: no inodes" /\ UNCHANGED <<disk, cache, q, adrift>>
        ELSE /\ disk' = [disk EXCEPT ![new] = [type |-> Kind[r.op], nlink |-> 0, ents |-> NoEnts]]
             /\ cache' = Referenced(Locked(cache, dp), new)
             /\ Go(p, [r EXCEPT !.pc = "create3", !.ip = iget(cache', new)])
             /\ adrift' = adrift \ {new}
             /\ UNCHANGED panic
  /\ UNCHANGED <<trans, cwd, file, calls>>

(* The name exists: only a file may be opened by creating it.              *)
create2(p) ==
  /\ At(p, "create2") /\ Lock(q[p].ip)
  /\ LET r == q[p] ip == r.ip c == Loaded(cache, ip)
     IN IF r.op = "creat" /\ c[ip].type = "file"
        THEN cache' = Locked(cache, ip) /\ Go(p, [r EXCEPT !.pc = "commit"])
        ELSE cache' = c /\ Go(p, [r EXCEPT !.pc = "commit", !.ip = None, !.puts = <<ip>>])
  /\ UNCHANGED <<disk, trans, cwd, file, calls, adrift, panic>>

create3(p) ==
  /\ At(p, "create3") /\ Lock(q[p].ip)
  /\ LET r == q[p] dp == r.w ip == r.ip dir == r.op = "mkdir"
         l == [Locked(cache, ip) EXCEPT ![ip].nlink = 1]
         c == IF dir THEN Links(l, dp, 1) ELSE l
         d == Updated(Updated(disk, c, ip), c, dp)
         dots == IF dir THEN Enter(d, c, ip, "..", c[dp].inum) ELSE d
     IN /\ disk' = Enter(dots, c, dp, LastName(p), c[ip].inum)
        /\ cache' = Unlocked(c, dp)
        /\ Go(p, [r EXCEPT !.pc = IF r.op = "creat" THEN "commit" ELSE "create4",
                           !.w = None, !.puts = <<dp>>])
        /\ Adrift(c[dp].inum, c[ip].inum)
  /\ UNCHANGED <<trans, cwd, file, calls, panic>>

(* sys_mkdir and sys_mknod have no use for the locked inode.               *)
create4(p) ==
  /\ At(p, "create4")
  /\ cache' = Unlocked(cache, q[p].ip)
  /\ Go(p, [q[p] EXCEPT !.pc = "commit", !.ip = None, !.puts = <<q[p].ip>>])
  /\ UNCHANGED <<disk, trans, cwd, file, calls, adrift, panic>>

-----------------------------------------------------------------------------
(* The panic of ilock, whatever step asks for the lock of e.               *)
Wanted(p) ==
  CASE q[p].pc \in {"walk", "open1", "chdir1", "link2", "unlink1", "create1"} -> q[p].w
    [] q[p].pc \in {"link1", "linkbad", "unlink2", "create2", "create3"} -> q[p].ip
    [] OTHER -> None
PanicNoType(p) ==
  /\ At(p, q[p].pc) /\ Wanted(p) # None
  /\ q[p].pc = "walk" => q[p].path # <<>>
  /\ ~cache[Wanted(p)].busy /\ NoType(Wanted(p))
  /\ panic' = "ilock: no type"
  /\ UNCHANGED <<disk, cache, trans, q, cwd, file, calls, adrift>>

(* After a panic, and when every process has made its calls, nothing moves. *)
Over ==
  /\ panic # "no" \/ \A p \in Proc : q[p].puts = <<>> /\
       (q[p].pc = "dead" \/ (q[p].pc = "user" /\ calls = MaxCalls))
  /\ UNCHANGED vars

Next ==
  \/ Over
  \/ \E p \in Proc :
       \/ iput(p) \/ ifree(p) \/ iputfreed(p) \/ namex(p) \/ PanicNoType(p)
       \/ \E op \in Ops \ {"exit", "close", "link"}, path \in Paths :
            Call(p, op, path, IF op \in Creates THEN path ELSE NoPath)
       \/ "link" \in Ops /\ \E path, new \in Paths : Call(p, "link", path, new)
       \/ "close" \in Ops /\ Close(p)
       \/ begin_trans(p) \/ commit_trans(p)
       \/ open1(p) \/ open2(p) \/ chdir1(p) \/ exit(p)
       \/ link1(p) \/ link2(p) \/ linkbad(p)
       \/ unlink1(p) \/ unlink2(p) \/ unlink3(p) \/ unlinkbad(p)
       \/ create1(p) \/ create2(p) \/ create3(p) \/ create4(p)

Spec == Init /\ [][Next]_vars

-----------------------------------------------------------------------------
Pointers(e) ==
  Cardinality({p \in Proc : cwd[p] = e}) + Cardinality({p \in Proc : file[p] = e})
  + Cardinality({p \in Proc : q[p].w = e}) + Cardinality({p \in Proc : q[p].ip = e})
  + Cardinality({x \in Proc \X (1..2) : x[2] <= Len(q[x[1]].puts) /\ q[x[1]].puts[x[2]] = e})

(* The inode cache: no inode has two entries, ip->ref counts the pointers   *)
(* to the entry, and an unlocked valid entry agrees with the disk.          *)
CacheRight ==
  \A e \in Entry :
    LET c == cache[e]
    IN /\ c.ref = Pointers(e)
       /\ c.ref > 0 =>
            /\ \A f \in Entry \ {e} : cache[f].ref > 0 => cache[f].inum # c.inum
            /\ c.valid /\ ~c.busy =>
                 c.type = disk[c.inum].type /\ c.nlink = disk[c.inum].nlink

(* Whenever no transaction is open, and so in whatever a crash leaves, the  *)
(* link count of an inode is the number of directory entries that name it,  *)
(* plus the ".." of its subdirectories.  The inodes entered in a directory  *)
(* that was removed meanwhile are excepted: create and link do not look at  *)
(* dp->nlink, and what they enter there is lost.                           *)
LinksRight ==
  trans = None =>
    \A i \in Inum \ adrift :
      disk[i].nlink =
        Cardinality({x \in Inum \X Name : disk[x[1]].ents[x[2]] = i})
        + Cardinality({n \in Name : disk[i].ents[n] # None /\ disk[disk[i].ents[n]].type = "dir"})
        + (IF i = ROOTINO THEN 1 ELSE 0)

(* A name leads to an allocated inode at every moment, also in a directory *)
(* that another process is removing.                                       *)
NoDanglingName ==
  \A d \in Inum, n \in Name : disk[d].ents[n] # None => disk[disk[d].ents[n]].type # "free"

(* An inode that has lost its last link is freed by whoever drops the last *)
(* reference: none stays allocated with neither.                           *)
Reclaimed ==
  trans = None =>
    \A i \in Inum \ adrift :
      disk[i].type # "free" => disk[i].nlink > 0 \/ \E e \in Entry : cache[e].ref > 0 /\ cache[e].inum = i

(* The checks of iput and sys_unlink never fail, and that of ilock only     *)
(* after ".." of a directory that has been removed, whose parent may be     *)
(* gone too.  (Running out of inodes stops the system; so does the iput of  *)
(* TransOwned.)                                                             *)
ChecksHold ==
  /\ panic \notin {"iput busy", "unlink: nlink < 1"}
  /\ panic = "ilock: no type" => \E p \in Proc : q[p].stray

(* log.c: every write to the file system happens within a transaction.     *)
TransOwned == panic # "write outside of trans"
=============================================================================
