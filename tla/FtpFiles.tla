----------------------------- MODULE FtpFiles -----------------------------
(* The file commands of protocols/ftp over core/filesystem.py: what is stored *)
(* (the temporary directory below WrapFS) and the _cache of AbstractFS, which *)
(* alone answers for owners and permissions.  A command does not yield, so it *)
(* is one action, but for an upload: its check is followed by the waits for   *)
(* the lock and for the data, while the other clients go on.  The contents of *)
(* files, and the replies, are left out.                                      *)
(* A name is the number of its letters, all of them alike: enough to tell a   *)
(* name from a longer one that begins with it, and to glue two together.      *)
EXTENDS Naturals, Sequences, SequencesExt, FiniteSets

CONSTANTS Clients,    \* logged-in clients
          Uid,        \* the user each is logged in as
          MaxName,    \* bound: the longest name
          MaxDepth,   \* bound: names in a path
          MaxStored,  \* bound: files and directories, the root among them
          MaxGiven    \* bound: commands the clients give

VARIABLES
  tree,   \* what is stored at a path: "none", "dir" or "file"
  meta,   \* _cache: owner and mode of a path, or NoMeta
  cwd,    \* working_dir of each client
  rnfr,   \* _rnfr of each client; Root, which cannot be renamed, for None
  upload, \* the upload each client's command greenlet waits in, or NoUpload
  given,  \* commands given so far
  raised  \* did the last command end in an exception, without an answer?

fileVars == <<tree, meta, cwd, rnfr, upload, given, raised>>

Root == <<>>
Paths == UNION {[1..n -> 1..MaxName] : n \in 0..MaxDepth}
NoUpload == [path |-> Root, cmd |-> "none"]
NoMeta == [uid |-> "none", mode |-> "none"]
Meta(uid, mode) == [uid |-> uid, mode |-> mode]

Stored(p) == p \in Paths /\ tree[p] # "none"
Parent(p) == IF p = Root THEN Root ELSE Front(p)
Children(p) == {q \in Paths : Stored(q) /\ q # Root /\ Parent(q) = p}
Below(p) == {q \in Paths : p # q /\ IsPrefix(p, q)}

\* The string p is contained in the string q: siblings with a longer name too,
\* and paths that have p further down.
StringIn(p, q) ==
  /\ p # Root
  /\ \E i \in 0..(Len(q) - Len(p)) :
       /\ \A j \in 1..(Len(p) - 1) : q[i + j] = p[j]
       /\ p[Len(p)] <= q[i + Len(p)]

\* Everything has its directory.
WellFounded ==
  \A p \in Paths : Stored(p) \/ p = Root => tree[Parent(p)] = "dir"

\* What the configuration has copied into the file system is root's, for all to use.
FilesInit ==
  /\ tree \in [Paths -> {"none", "dir", "file"}] /\ WellFounded
  /\ Cardinality({p \in Paths : Stored(p)}) <= MaxStored
  /\ meta = [p \in Paths |-> IF Stored(p) THEN Meta("root", "777") ELSE NoMeta]
  /\ cwd = [u \in Clients |-> Root] /\ rnfr = [u \in Clients |-> Root]
  /\ upload = [u \in Clients |-> NoUpload] /\ given = 0 /\ raised = FALSE

\* access: nobody may do anything to a path without an entry.
access(u, p, perms) ==
  /\ p \in Paths /\ meta[p] # NoMeta
  /\ CASE meta[p].mode = "777" -> TRUE
       [] meta[p].mode = "755" -> meta[p].uid = Uid[u] \/ "w" \notin perms
       [] meta[p].mode = "644" -> IF meta[p].uid = Uid[u] THEN "x" \notin perms
                                  ELSE perms = {"r"}
       [] OTHER -> FALSE

\* setinfo with nothing to set: a path that is stored gets an entry again, of
\* the process that owns the temporary directory.
Seen(m, ps) ==
  [p \in Paths |-> IF p \in ps /\ Stored(p) /\ m[p] = NoMeta
                   THEN Meta("conpot", IF tree[p] = "dir" THEN "755" ELSE "644")
                   ELSE m[p]]

(* ---------------------- commands that only look -------------------------- *)
\* A client's commands are carried out one after the other.
Idle(u) == upload[u] = NoUpload
Answered == raised' = FALSE /\ UNCHANGED upload

\* MDTM, SIZE, STAT of a file, RETR: an access check and a look.
Look(u, p) ==
  access(u, p, {"r"}) /\ tree[p] = "file" /\ Answered /\ UNCHANGED <<tree, meta, cwd, rnfr>>

\* LIST and STAT of a directory look at every entry, NLST at the names only.
do_LIST(u, p) ==
  /\ access(u, p, {"r"}) /\ tree[p] = "dir"
  /\ \E entries \in {{}, Children(p)} : meta' = Seen(meta, entries)
  /\ Answered /\ UNCHANGED <<tree, cwd, rnfr>>

do_CWD(u, p) ==
  /\ Stored(p) /\ tree[p] = "dir" /\ access(u, p, {"r", "w", "x"})
  /\ cwd' = [cwd EXCEPT ![u] = p] /\ Answered /\ UNCHANGED <<tree, meta, rnfr>>

\* Above the root there is nothing: 550.
do_CDUP(u) == cwd[u] # Root /\ do_CWD(u, Parent(cwd[u]))

(* --------------------- commands that change the store -------------------- *)
Put(p, kind, m) ==
  /\ p = Root \/ (Stored(Parent(p)) /\ tree[Parent(p)] = "dir")
  /\ Stored(p) \/ Cardinality({q \in Paths : Stored(q)}) < MaxStored
  /\ tree' = [tree EXCEPT ![p] = kind] /\ meta' = [meta EXCEPT ![p] = m]

\* The permission is asked of the working directory, wherever the path leads;
\* an existing directory is taken over.
do_MKD(u, p) ==
  /\ access(u, cwd[u], {"w"}) /\ tree[p] # "file"
  /\ Put(p, "dir", Meta(Uid[u], "755")) /\ Answered /\ UNCHANGED <<cwd, rnfr>>

\* mutant: only the directory's own entry is dropped.
removedir_own_entry(p) ==
  /\ p # Root /\ Stored(p) /\ tree[p] = "dir" /\ raised' = FALSE
  /\ tree' = [q \in Paths |-> IF q = p \/ q \in Below(p) THEN "none" ELSE tree[q]]
  /\ meta' = [meta EXCEPT ![p] = NoMeta]

\* removedir: an empty directory loses its entry, a full one is removed with
\* all below it, and with the entries of every path its string is part of.  The
\* entry of an empty one may have gone that way before: the directory is removed,
\* and the KeyError of the pop leaves the client without an answer.
removedir(p) ==
  /\ p # Root /\ Stored(p) /\ tree[p] = "dir"
  /\ raised' = (Children(p) = {} /\ meta[p] = NoMeta)
  /\ tree' = [q \in Paths |-> IF q = p \/ q \in Below(p) THEN "none" ELSE tree[q]]
  /\ meta' = [q \in Paths |->
       IF q = p \/ (Children(p) # {} /\ StringIn(p, q)) THEN NoMeta ELSE meta[q]]

\* An argument, joined to the working directory.
Named(u, arg) == IF arg.absolute THEN arg.path ELSE cwd[u] \o arg.path

\* RMD glues its argument to the working directory: in /d, "RMD d" is /dd.
Glued(dir, arg) ==
  IF dir = Root \/ arg.absolute THEN dir \o arg.path
  ELSE Front(dir) \o <<Last(dir) + arg.path[1]>> \o Tail(arg.path)

do_RMD(u, arg) ==
  LET named == Named(u, arg)
      path == Glued(cwd[u], arg) IN
  /\ named # cwd[u] /\ arg.path # Root /\ path \in Paths
  /\ access(u, Parent(named), {"w"})
  /\ removedir(path) /\ UNCHANGED <<cwd, rnfr, upload>>

do_DELE(u, p) ==
  /\ Stored(p) /\ tree[p] = "file" /\ access(u, p, {"w"})
  /\ tree' = [tree EXCEPT ![p] = "none"] /\ meta' = [meta EXCEPT ![p] = NoMeta]
  /\ Answered /\ UNCHANGED <<cwd, rnfr>>

do_RNFR(u, p) ==
  /\ Stored(p) /\ access(u, p, {"w"}) /\ p # Root
  /\ rnfr' = [rnfr EXCEPT ![u] = p] /\ Answered /\ UNCHANGED <<tree, meta, cwd>>

\* Only the last name of the target counts.  The source is forgotten first: a
\* directory cannot be moved (its move raises on an argument it does not take),
\* and a file becomes root's with the default mode.
do_RNTO(u, name) ==
  LET src == rnfr[u]
      dst == Append(Parent(src), name)
      moves == Stored(src) /\ access(u, src, {"w"}) /\ src # dst IN
  /\ src # Root /\ rnfr' = [rnfr EXCEPT ![u] = Root] /\ UNCHANGED <<cwd, upload>>
  /\ raised' = (moves /\ tree[src] = "dir")
  /\ IF moves /\ tree[src] = "file" /\ tree[dst] # "dir"
     THEN /\ tree' = [tree EXCEPT ![src] = "none", ![dst] = "file"]
          /\ meta' = [meta EXCEPT ![src] = NoMeta, ![dst] = Meta("root", "777")]
     ELSE UNCHANGED <<tree, meta>>

do_SITE_CHMOD(u, p, mode) ==
  /\ access(u, p, {"r", "w", "x"}) /\ Stored(p)
  /\ meta' = [meta EXCEPT ![p].mode = mode] /\ Answered /\ UNCHANGED <<tree, cwd, rnfr>>

(* ------------------------------- uploads --------------------------------- *)
\* recv_file waits for the lock of the file system and for the data.
Awaits(u, p, cmd) ==
  /\ p \in Paths \ {Root}
  /\ upload' = [upload EXCEPT ![u] = [path |-> p, cmd |-> cmd]]
  /\ raised' = FALSE /\ UNCHANGED <<tree, meta, cwd, rnfr>>

\* The permission is asked of the working directory, wherever the path leads; the
\* size that APPE and REST start from is that of the argument below the root.
do_STOR(u, arg, cmd) ==
  /\ access(u, cwd[u], {"w"}) /\ cmd # "STOR" => meta[arg.path] # NoMeta
  /\ Awaits(u, Named(u, arg), cmd)

\* A new name in the working directory, or in that of the argument.
do_STOU(u, dir, name) ==
  /\ access(u, dir, {"w"}) /\ Append(dir, name) \in Paths /\ ~Stored(Append(dir, name))
  /\ Awaits(u, Append(dir, name), "STOR")

\* What open finds when the data is there: STOR makes a file, the others need one.
Writable(p, cmd) ==
  IF cmd = "STOR" THEN tree[p] # "dir" /\ Stored(Parent(p)) ELSE tree[p] = "file"

\* The file is written and goes to the client; APPE leaves it to root, and after
\* REST it keeps its owner.
Written(u, p, cmd) ==
  /\ Writable(p, cmd)
  /\ Put(p, "file", Meta(CASE cmd = "STOR" -> Uid[u] [] cmd = "APPE" -> "root"
                           [] OTHER -> IF meta[p] = NoMeta THEN "conpot" ELSE meta[p].uid, "755"))

\* The data is there: it is written, or 554 (also to APPE when the size was 0).
Receives(u) ==
  LET p == upload[u].path
      cmd == upload[u].cmd IN
  /\ upload[u] # NoUpload /\ upload' = [upload EXCEPT ![u] = NoUpload]
  /\ \/ Written(u, p, cmd)
     \/ (cmd = "APPE" \/ ~Writable(p, cmd)) /\ UNCHANGED <<tree, meta>>
  /\ raised' = FALSE /\ UNCHANGED <<cwd, rnfr, given>>

Args == [path : Paths \ {Root}, absolute : BOOLEAN]

Command(u) ==
  \/ \E p \in Paths :
       \/ Look(u, p) \/ do_LIST(u, p) \/ do_CWD(u, p) \/ do_MKD(u, p)
       \/ do_DELE(u, p) \/ do_RNFR(u, p)
       \/ \E mode \in {"777", "755", "000"} : do_SITE_CHMOD(u, p, mode)
       \/ \E name \in 1..MaxName : do_STOU(u, p, name)
  \/ do_CDUP(u)
  \/ \E arg \in Args :
       do_RMD(u, arg) \/ \E cmd \in {"STOR", "APPE", "REST"} : do_STOR(u, arg, cmd)
  \/ \E name \in 1..MaxName : do_RNTO(u, name)

FilesNext ==
  \E u \in Clients :
    \/ Idle(u) /\ given < MaxGiven /\ given' = given + 1 /\ Command(u)
    \/ Receives(u)

FilesSpec == FilesInit /\ [][FilesNext]_fileVars

(* ------------------------------ properties ------------------------------- *)
\* The cache answers for nothing that is not stored, and what is stored has its
\* directory: removals, renames, re-creations and uploads checked before and written
\* after them, by several clients, leave no entry and no file behind.
NoGhost == WellFounded /\ \A p \in Paths : meta[p] # NoMeta => Stored(p)
=============================================================================
