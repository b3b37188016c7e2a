-------------------------------- MODULE Files --------------------------------
(* The file system the file commands work on: paths are sequences of names    *)
(* below "/", which is also the working directory, and lead to inodes.  The   *)
(* calls of the kernel and of Go's os and filepath packages.                *)
EXTENDS Text

MaxLinks == 3
NameOrder == <<"a", "a.gz", "b", "b.gz", "c", "d", "e", "l", "m", "n", "x">>   \* the order names are listed in
Bits == {"u", "g", "o"} \X {"r", "w", "x"} \cup {<<"u", "s">>, <<"g", "s">>, <<"o", "t">>}
Perm(mode) == {b \in mode : b[2] \in {"r", "w", "x"}}
Everyone(perms) == {"u", "g", "o"} \X perms

(* fs: at gives a path's inode, node an inode's contents; the caller is root  *)
(* or a user, to whom the "u" part of a mode is for what is his and the "o"   *)
(* part for what is not; full says that nothing more can be written.        *)
Caller(fs) == IF fs.root THEN 0 ELSE 1
Owns(fs, n) == fs.root \/ n.uid = Caller(fs)
IsAt(fs, p) == p \in DOMAIN fs.at
NodeAt(fs, p) == fs.node[fs.at[p]]
Below(fs, p) == {q \in DOMAIN fs.at : Len(q) > Len(p) /\ IsPrefix(p, q)}
Children(fs, p) == {q \in Below(fs, p) : Len(q) = Len(p) + 1}
Nlink(fs, ino) == Cardinality({p \in DOMAIN fs.at : fs.at[p] = ino})
IsDirNode(n) == n.kind = "dir"
May(fs, n, perms) == fs.root \/ \A q \in perms : <<IF Owns(fs, n) THEN "u" ELSE "o", q>> \in n.mode
Parent(p) == IF p = <<>> THEN p ELSE Front(p)
(* filepath.Clean: "." and ".." go without a look at what the names are.     *)
(* filepath.Join cleans what it has joined.                                 *)
Clean(path) == FoldLeft(LAMBDA p, c : IF c = "." THEN p ELSE IF c = ".." THEN Parent(p) ELSE Append(p, c), <<>>, path)
Join(dir, name) == Clean(Append(dir, name))

(* Where a path leads: to at, or to a place where a last name may be put.     *)
RECURSIVE Walk(_, _, _, _, _)
Walk(fs, base, rest, follow, links) ==
  IF rest = <<>> THEN [err |-> "", at |-> base]
  ELSE LET p == Append(base, Head(rest))
           last == Len(rest) = 1
       IN IF ~ IsDirNode(NodeAt(fs, base)) THEN [err |-> "ENOTDIR", at |-> <<>>]
          ELSE IF ~ May(fs, NodeAt(fs, base), {"x"}) THEN [err |-> "EACCES", at |-> <<>>]
          ELSE IF Head(rest) = "." THEN Walk(fs, base, Tail(rest), follow, links)
          ELSE IF Head(rest) = ".." THEN Walk(fs, Parent(base), Tail(rest), follow, links)
          ELSE IF ~ IsAt(fs, p) THEN [err |-> "ENOENT", at |-> IF last THEN p ELSE <<>>]
          ELSE LET n == NodeAt(fs, p)
               IN IF n.kind /= "link" \/ (last /\ ~ follow) THEN Walk(fs, p, Tail(rest), follow, links)
                  ELSE IF links = MaxLinks THEN [err |-> "ELOOP", at |-> <<>>]
                  ELSE Walk(fs, IF n.abs THEN <<>> ELSE base, n.to \o Tail(rest), follow, links + 1)
Lookup(fs, path, follow) == Walk(fs, <<>>, path, follow, 0)
(* os.Lstat, os.Stat: the path's inode and what it is.                        *)
Stat(fs, path, follow) ==
  LET w == Lookup(fs, path, follow)
  IN IF w.err /= "" THEN [err |-> w.err, ino |-> 0, kind |-> "none", at |-> w.at]
     ELSE [err |-> "", ino |-> fs.at[w.at], kind |-> NodeAt(fs, w.at).kind, at |-> w.at]

(* ----------------------------- what changes it ---------------------------- *)
Failed(fs, err) == [err |-> err, fs |-> fs]
Changed(fs) == [err |-> "", fs |-> fs]
Without(f, S) == [x \in DOMAIN f \ S |-> f[x]]
Writable(fs, p) == May(fs, NodeAt(fs, Parent(p)), {"w", "x"})
NewInode(fs) == 1 + Cardinality(DOMAIN fs.node)

Chmod(fs, path, mode) ==
  LET s == Stat(fs, path, TRUE)
  IN IF s.err /= "" THEN Failed(fs, s.err)
     ELSE IF ~ Owns(fs, fs.node[s.ino]) THEN Failed(fs, "EPERM")
     ELSE Changed([fs EXCEPT !.node[s.ino].mode = mode])
(* -1 leaves an id alone; a chown also takes away the set-id bits of a file.  *)
Chown(fs, path, uid, gid, follow) ==
  LET s == Stat(fs, path, follow)
      n == fs.node[s.ino]
      kept == IF n.kind = "file" THEN n.mode \ {<<"u", "s">>, <<"g", "s">>} ELSE n.mode
  IN IF s.err /= "" THEN Failed(fs, s.err)
     ELSE IF ~ fs.root THEN Failed(fs, "EPERM")
     ELSE Changed([fs EXCEPT !.node[s.ino] = [n EXCEPT !.uid = IF uid = -1 THEN @ ELSE uid, !.gid = IF gid = -1 THEN @ ELSE gid, !.mode = kept]])
SetTimes(fs, path, time, follow) ==
  LET s == Stat(fs, path, follow)
  IN IF s.err /= "" THEN Failed(fs, s.err)
     ELSE IF ~ Owns(fs, fs.node[s.ino]) THEN Failed(fs, "EPERM")
     ELSE Changed([fs EXCEPT !.node[s.ino].mtime = time])
ReadNames(fs, path) ==
  LET s == Stat(fs, path, TRUE)
  IN IF s.err /= "" THEN [err |-> s.err, names |-> {}]
     ELSE IF s.kind /= "dir" THEN [err |-> "ENOTDIR", names |-> {}]
     ELSE IF ~ May(fs, fs.node[s.ino], {"r"}) THEN [err |-> "EACCES", names |-> {}]
     ELSE [err |-> "", names |-> {Last(q) : q \in Children(fs, s.at)}]
(* os.Remove: a file, a link or an empty directory, by its name.             *)
EndsInDot(path) == path /= <<>> /\ Last(path) = "."
RemoveName(fs, path, dirs, others) ==
  LET s == Stat(fs, path, FALSE)
  IN IF s.err /= "" THEN Failed(fs, s.err)
     ELSE IF EndsInDot(path) THEN Failed(fs, "EINVAL")
     ELSE IF ~ Writable(fs, s.at) THEN Failed(fs, "EACCES")
     ELSE IF s.kind = "dir" /\ ~ dirs THEN Failed(fs, "EISDIR")
     ELSE IF s.kind /= "dir" /\ ~ others THEN Failed(fs, "ENOTDIR")
     ELSE IF Children(fs, s.at) /= {} THEN Failed(fs, "ENOTEMPTY")
     ELSE Changed([fs EXCEPT !.at = Without(@, {s.at})])
(* os.RemoveAll goes as far as it may, the deepest first.                     *)
RemoveAll(fs, path) ==
  LET s == Stat(fs, path, FALSE)
      kept(q) == \E r \in Below(fs, s.at) \cup {s.at} :
                   IsPrefix(q, r) /\ \/ ~ Writable(fs, r)
                                     \/ Children(fs, r) /= {} /\ ~ May(fs, NodeAt(fs, r), {"r", "x"})
      all == Below(fs, s.at) \cup {s.at}
      gone == {q \in all : ~ kept(q) /\ \A k \in 1 .. Len(q) - 1 : IsPrefix(s.at, Take(q, k)) => May(fs, NodeAt(fs, Take(q, k)), {"r", "x"})}
  IN IF EndsInDot(path) THEN Failed(fs, "EINVAL")
     ELSE IF s.err = "ENOENT" THEN Changed(fs)
     ELSE IF s.err /= "" THEN Failed(fs, s.err)
     ELSE [err |-> IF gone = all THEN "" ELSE "EACCES", fs |-> [fs EXCEPT !.at = Without(@, gone)]]
(* Where a name may be put, and what is put there.                           *)
Place(fs, path, follow) ==
  LET w == Lookup(fs, path, follow)
  IN CASE w.err = "" -> [err |-> "EEXIST", at |-> w.at]
       [] w.err = "ENOENT" /\ w.at /= <<>> -> [err |-> IF Writable(fs, w.at) THEN "" ELSE "EACCES", at |-> w.at]
       [] OTHER -> [err |-> w.err, at |-> w.at]
Make(fs, path, node) ==
  LET w == Place(fs, path, FALSE)
      i == NewInode(fs)
  IN IF w.err /= "" THEN Failed(fs, w.err)
     ELSE Changed([fs EXCEPT !.at = (w.at :> i) @@ @, !.node = (i :> [node EXCEPT !.uid = Caller(fs), !.dev = NodeAt(fs, Parent(w.at)).dev]) @@ @])
Blank == [kind |-> "file", mode |-> {}, uid |-> 0, gid |-> 0, data |-> "", abs |-> FALSE, to |-> <<>>, dev |-> 1, mtime |-> 5]
(* mkdir ignores the set-id bits it is given.                               *)
Mkdir(fs, path, mode) == Make(fs, path, [Blank EXCEPT !.kind = "dir", !.mode = mode \ (fs.umask \cup {<<"u", "s">>, <<"g", "s">>})])
Symlink(fs, abs, to, path) == Make(fs, path, [Blank EXCEPT !.kind = "link", !.abs = abs, !.to = to])
Link(fs, from, path) ==
  LET s == Stat(fs, from, FALSE)
      w == Place(fs, path, FALSE)
  IN IF s.err /= "" THEN Failed(fs, s.err)
     ELSE IF w.err /= "" THEN Failed(fs, w.err)
     ELSE IF NodeAt(fs, Parent(w.at)).dev /= fs.node[s.ino].dev THEN Failed(fs, "EXDEV")
     ELSE IF s.kind = "dir" THEN Failed(fs, "EPERM")
     ELSE Changed([fs EXCEPT !.at = (w.at :> s.ino) @@ @])
(* os.Rename within one directory.                                          *)
Rename(fs, from, to) ==
  LET s == Stat(fs, from, FALSE)
      w == Lookup(fs, to, FALSE)
      there == IF w.err = "" THEN {w.at} \cup Below(fs, w.at) ELSE {}
      rest == Without(fs.at, {s.at} \cup Below(fs, s.at) \cup there)
      moved == [q \in {w.at \o Skip(p, Len(s.at)) : p \in {s.at} \cup Below(fs, s.at)} |-> fs.at[s.at \o Skip(q, Len(w.at))]]
  IN IF s.err /= "" THEN Failed(fs, s.err)
     ELSE IF w.err = "" /\ (fs.at[w.at] = s.ino) THEN Changed(fs)
     ELSE IF w.err = "" /\ IsDirNode(NodeAt(fs, w.at)) /\ (s.kind /= "dir" \/ Children(fs, w.at) /= {}) THEN Failed(fs, "EEXIST")
     ELSE IF w.err = "" /\ ~ IsDirNode(NodeAt(fs, w.at)) /\ s.kind = "dir" THEN Failed(fs, "ENOTDIR")
     ELSE IF ~ Writable(fs, s.at) THEN Failed(fs, "EACCES")
     ELSE Changed([fs EXCEPT !.at = moved @@ rest])
(* os.MkdirAll gives every directory it makes the same mode; it is content    *)
(* with a last name, such as ".", that the rest of the path has brought.     *)
RECURSIVE MkdirAll(_, _, _)
MkdirAll(fs, path, mode) ==
  LET s == Stat(fs, path, TRUE)
      up == MkdirAll(fs, Front(path), mode)
      m == Mkdir(up.fs, path, mode)
  IN IF s.err = "" THEN IF s.kind = "dir" THEN Changed(fs) ELSE Failed(fs, "ENOTDIR")
     ELSE IF up.err /= "" THEN up
     ELSE IF Stat(up.fs, path, FALSE).kind = "dir" THEN Changed(up.fs) ELSE m
(* os.OpenFile for writing, made if missing and emptied if there; os.Open.    *)
OpenWrite(fs, path, mode) ==
  LET s == Stat(fs, path, TRUE)
      w == Place(fs, path, TRUE)
      i == NewInode(fs)
  IN IF s.err = "" THEN
          IF s.kind = "dir" THEN [err |-> "EISDIR", fs |-> fs, ino |-> 0]
          ELSE IF ~ May(fs, fs.node[s.ino], {"w"}) THEN [err |-> "EACCES", fs |-> fs, ino |-> 0]
          ELSE [err |-> "", fs |-> [fs EXCEPT !.node[s.ino].data = "", !.node[s.ino].mtime = 5], ino |-> s.ino]
     ELSE IF w.err /= "" THEN [err |-> w.err, fs |-> fs, ino |-> 0]
     ELSE [err |-> "", ino |-> i,
           fs |-> [fs EXCEPT !.at = (w.at :> i) @@ @,
                             !.node = (i :> [Blank EXCEPT !.mode = mode \ fs.umask, !.uid = Caller(fs), !.dev = NodeAt(fs, Parent(w.at)).dev]) @@ @]]
OpenRead(fs, path) ==
  LET s == Stat(fs, path, TRUE)
  IN IF s.err /= "" THEN s ELSE IF May(fs, fs.node[s.ino], {"r"}) THEN s ELSE [s EXCEPT !.err = "EACCES"]

(* filepath.Rel of two clean paths.                                         *)
Common(p, q) == LET same == {k \in 0 .. Len(p) : k <= Len(q) /\ Take(p, k) = Take(q, k)} IN CHOOSE k \in same : \A j \in same : j <= k
Rel(base, target) ==
  LET k == Common(base, target)
  IN [n \in 1 .. Len(base) - k |-> ".."] \o Skip(target, k)
=============================================================================
