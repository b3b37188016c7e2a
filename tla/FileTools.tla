------------------------------ MODULE FileTools ------------------------------
(* ln, readlink, realpath, cp, rm, mkdir, rmdir and touch on one file system.  *)
(* A path is given relative to the working directory.  r is the state of a    *)
(* command: its file system, the answers still to be read and the status.    *)
EXTENDS Files

Start(fs, answers) == [fs |-> fs, answers |-> answers, status |-> 0, out |-> <<>>, links |-> <<>>, dev |-> 0, err |-> ""]
Refused(fs) == [Start(fs, <<>>) EXCEPT !.status = 1]
Fails(r) == [r EXCEPT !.status = 1]
(* confirm: an answer is "yes", "no", or "fails" if it cannot be read; an input *)
(* that has ended is an answer that is not yes.                            *)
Confirmed(r) == r.answers /= <<>> /\ Head(r.answers) = "yes"
Unanswered(r) == r.answers /= <<>> /\ Head(r.answers) = "fails"
Asked(r) == [r EXCEPT !.answers = IF @ = <<>> THEN @ ELSE Tail(@)]
Base(p) == Last(p)

(* --------------------------------- backups -------------------------------- *)
BackupControls ==
  <<[name |-> <<"n", "o", "n", "e">>, method |-> "none"], [name |-> <<"o", "f", "f">>, method |-> "none"],
    [name |-> <<"s", "i", "m", "p", "l", "e">>, method |-> "simple"], [name |-> <<"n", "e", "v", "e", "r">>, method |-> "simple"],
    [name |-> <<"e", "x", "i", "s", "t", "i", "n", "g">>, method |-> "existing"], [name |-> <<"n", "i", "l">>, method |-> "existing"],
    [name |-> <<"n", "u", "m", "b", "e", "r", "e", "d">>, method |-> "numbered"], [name |-> <<"t">>, method |-> "numbered"]>>
(* A whole name, or the start of the names of one method only.               *)
ParseBackupControl(value) ==
  LET whole == {k \in DOMAIN BackupControls : BackupControls[k].name = value}
      begun == {BackupControls[k].method : k \in {i \in DOMAIN BackupControls : IsPrefix(value, BackupControls[i].name)}}
  IN IF value = <<>> THEN [ok |-> FALSE, method |-> "none"]
     ELSE IF whole /= {} THEN [ok |-> TRUE, method |-> BackupControls[Least(whole)].method]
     ELSE [ok |-> Cardinality(begun) = 1, method |-> IF Cardinality(begun) = 1 THEN CHOOSE m \in begun : TRUE ELSE "none"]
Numbered(p, n) == Append(Front(p), Base(p) \o ".~" \o ToString(n) \o "~")
(* A directory that cannot be read has no backups.                          *)
BackupHighestNumber(fs, path) ==
  LET at == Lookup(fs, path, FALSE).at
      there == {n \in 1 .. 9 : IsAt(fs, Numbered(at, n))}
  IN IF ReadNames(fs, Front(path)).err /= "" \/ there = {} THEN 0 ELSE CHOOSE n \in there : \A m \in there : m <= n
BackupName(fs, path, method, suffix) ==
  LET highest == BackupHighestNumber(fs, path)
  IN IF method = "none" \/ Stat(fs, path, FALSE).err /= "" THEN <<>>
     ELSE IF method = "numbered" \/ (method = "existing" /\ highest > 0) THEN Numbered(path, highest + 1)
     ELSE Append(Front(path), Base(path) \o suffix)
MakeBackup(fs, path, method, suffix) ==
  LET name == BackupName(fs, path, method, suffix)
      r == Rename(fs, path, name)
  IN IF name = <<>> THEN [err |-> "", fs |-> fs, name |-> <<>>]
     ELSE [err |-> r.err, fs |-> r.fs, name |-> IF r.err = "" THEN name ELSE <<>>]
(* The environment comes before the options: VERSION_CONTROL, what -b and a   *)
(* bare --backup stand for, and SIMPLE_BACKUP_SUFFIX.                       *)
DefaultBackupMethod(o) == IF o.control = <<>> THEN [ok |-> TRUE, method |-> "existing"] ELSE ParseBackupControl(o.control)
WithBackup(o, x) ==
  LET p == IF x.opt = "b" \/ x.arg = <<>> THEN DefaultBackupMethod(o) ELSE ParseBackupControl(x.arg)
  IN CASE x.opt = "VERSION_CONTROL" -> [o EXCEPT !.control = x.arg]
       [] x.opt = "SIMPLE_BACKUP_SUFFIX" -> [o EXCEPT !.suffix = IF x.arg = "" THEN "~" ELSE x.arg]
       [] x.opt = "S" -> [o EXCEPT !.suffix = x.arg, !.backup = IF @ = "none" THEN "existing" ELSE @]
       [] x.opt \in {"b", "backup"} -> [o EXCEPT !.backup = p.method, !.bad = @ \/ ~ p.ok]
BackupOptions == {"VERSION_CONTROL", "SIMPLE_BACKUP_SUFFIX", "b", "S", "backup"}

(* ----------------------------- resolving paths ---------------------------- *)
(* Component by component from the cleaned path; what is missing depends on   *)
(* the mode: "all" must exist, "last" may be missing, or "any".             *)
RECURSIVE ResolveFrom(_, _, _, _)
ResolveFrom(fs, result, comps, mode) ==
  LET candidate == Append(result, Head(comps))
      e == Lookup(fs, candidate, TRUE)
  IN IF comps = <<>> THEN [err |-> "", p |-> result]
     ELSE IF e.err = "" THEN ResolveFrom(fs, e.at, Tail(comps), mode)
     ELSE IF mode = "any" THEN [err |-> "", p |-> Clean(result \o comps)]
     ELSE IF mode = "last" /\ Len(comps) = 1 THEN [err |-> "", p |-> candidate]
     ELSE [err |-> e.err, p |-> <<>>]
ResolvePath(fs, path, mode) == ResolveFrom(fs, <<>>, Clean(path), mode)
StripResolve(path) == [err |-> "", p |-> Clean(path)]

ReadlinkOne(fs, mode, path) ==
  LET s == Stat(fs, path, FALSE)
      r == ResolvePath(fs, path, mode)
  IN IF mode = "none" THEN IF s.kind = "link" THEN [err |-> "", p |-> fs.node[s.ino].to, rel |-> ~ fs.node[s.ino].abs]
                           ELSE [err |-> IF s.err = "" THEN "EINVAL" ELSE s.err, p |-> <<>>, rel |-> FALSE]
     ELSE [err |-> r.err, p |-> r.p, rel |-> FALSE]
(* A name that cannot be resolved has no line of output.                    *)
Resolved(lines) ==
  [status |-> IF lines /= <<>> /\ \A k \in DOMAIN lines : lines[k].err = "" THEN 0 ELSE 1, out |-> SelectSeq(lines, LAMBDA l : l.err = "")]
CmdReadlink(fs, mode, names) == Resolved(Mapped(names, LAMBDA n : ReadlinkOne(fs, mode, n)))
RealpathDefaults == [mode |-> "last", strip |-> FALSE, logical |-> FALSE, relTo |-> <<>>, relBase |-> <<>>, bad |-> FALSE]
RealpathOption(o, x) ==
  CASE x.opt = "e" -> [o EXCEPT !.mode = "all"]
    [] x.opt = "m" -> [o EXCEPT !.mode = "any"]
    [] x.opt = "s" -> [o EXCEPT !.strip = TRUE]
    [] x.opt \in {"L", "P"} -> [o EXCEPT !.logical = (x.opt = "L"), !.strip = FALSE]
    [] x.opt = "relative-to" -> [o EXCEPT !.relTo = x.arg]
    [] x.opt = "relative-base" -> [o EXCEPT !.relBase = x.arg]
    [] OTHER -> [o EXCEPT !.bad = TRUE]
(* --relative-base is an absolute path that is not resolved itself, and hides *)
(* only what is below it.                                                  *)
RealpathOne(fs, o, path) ==
  LET r == IF o.strip THEN StripResolve(path) ELSE ResolvePath(fs, path, o.mode)
      base == ResolvePath(fs, o.relTo, "any")
  IN IF r.err /= "" THEN [err |-> r.err, p |-> <<>>, rel |-> FALSE]
     ELSE IF o.relTo /= <<>> THEN [err |-> "", p |-> Rel(base.p, r.p), rel |-> TRUE]
     ELSE IF o.relBase /= <<>> /\ IsPrefix(Clean(o.relBase), r.p) THEN [err |-> "", p |-> Rel(Clean(o.relBase), r.p), rel |-> TRUE]
     ELSE [err |-> "", p |-> r.p, rel |-> FALSE]
CmdRealpath(fs, args, names) ==
  LET o == Options(RealpathOption, RealpathDefaults, args)
  IN IF o.bad THEN [status |-> 1, out |-> <<>>] ELSE Resolved(Mapped(names, LAMBDA n : RealpathOne(fs, o, n)))

(* ----------------------------------- ln ----------------------------------- *)
LnDefaults == [s |-> FALSE, f |-> FALSE, i |-> FALSE, T |-> FALSE, t |-> <<>>, n |-> FALSE, v |-> FALSE, r |-> FALSE, d |-> FALSE, L |-> FALSE,
               control |-> <<>>, backup |-> "none", suffix |-> "~", bad |-> FALSE]
LnOption(o, x) ==
  CASE x.opt \in {"s", "T", "n", "v", "r", "d", "L"} -> [o EXCEPT ![x.opt] = TRUE]
    [] x.opt = "P" -> [o EXCEPT !.L = FALSE]
    [] x.opt \in {"f", "i"} -> [o EXCEPT !.f = (x.opt = "f"), !.i = (x.opt = "i")]
    [] x.opt = "t" -> [o EXCEPT !.t = x.arg]
    [] x.opt \in BackupOptions -> WithBackup(o, x)
    [] OTHER -> [o EXCEPT !.bad = TRUE]
(* What the link is made to: the source, relative to the link with -r, or what *)
(* a link leads to with -L.                                                *)
LinkText(fs, o, source, target) ==
  LET from == ResolvePath(fs, Parent(target), "any")
      to == ResolvePath(fs, source, "any")
      s == Stat(fs, source, FALSE)
      real == Lookup(fs, source, TRUE)
      text == IF o.r /\ from.err = "" /\ to.err = "" THEN Rel(from.p, to.p) ELSE source
  IN IF o.s THEN [err |-> "", p |-> text]
     ELSE IF s.err /= "" THEN [err |-> s.err, p |-> text]
     ELSE IF s.kind = "dir" /\ ~ o.d THEN [err |-> "EISDIR", p |-> text]
     ELSE IF s.kind = "link" /\ o.L THEN [err |-> real.err, p |-> real.at]
     ELSE [err |-> "", p |-> text]
SameFile(fs, o, source, target) ==
  LET s == Stat(fs, source, FALSE) IN ~ o.s /\ s.err = "" /\ Stat(fs, target, FALSE).ino = s.ino
(* What is there is asked about, then backed up or removed, then replaced.    *)
LinkOne(o, r, source, target) ==
  LET text == LinkText(r.fs, o, source, target)
      existing == Stat(r.fs, target, FALSE)
      asks == existing.err = "" /\ o.i
      clears == existing.err = "" /\ (o.i \/ o.f \/ o.backup /= "none")
      q == IF asks THEN Asked(r) ELSE r
      backup == MakeBackup(r.fs, target, o.backup, o.suffix)
      removed == IF backup.name /= <<>> THEN Changed(backup.fs) ELSE RemoveName(backup.fs, target, FALSE, TRUE)
      fs == IF clears THEN removed.fs ELSE r.fs
      made == IF o.s THEN Symlink(fs, FALSE, text.p, target) ELSE Link(fs, text.p, target)
  IN IF text.err /= "" \/ SameFile(r.fs, o, source, target) THEN Fails(r)
     ELSE IF asks /\ ~ Confirmed(r) THEN Fails(q)
     ELSE IF clears /\ (backup.err /= "" \/ removed.err /= "") THEN Fails(q)
     ELSE IF made.err /= "" THEN [Fails(q) EXCEPT !.fs = fs]
     ELSE [q EXCEPT !.fs = made.fs, !.out = IF o.v THEN Append(@, target) ELSE @]
CmdLn(fs, args, operands, answers) ==
  LET o == Options(LnOption, LnDefaults, args)
      n == Len(operands)
      into == Stat(fs, o.t, TRUE)
      last == Stat(fs, operands[n], ~ o.n)
      sources == IF o.t /= <<>> \/ n = 1 THEN operands ELSE Front(operands)
      destination == IF o.t /= <<>> THEN o.t ELSE IF n = 1 THEN <<>> ELSE operands[n]
      isDir == o.t /= <<>> \/ n = 1 \/ (~ o.T /\ last.kind = "dir")
      one(r, s) == LinkOne(o, r, s, IF isDir THEN Join(destination, Base(Clean(s))) ELSE destination)
  IN IF o.bad \/ n = 0 \/ (o.t /= <<>> /\ into.kind /= "dir") \/ (Len(sources) > 1 /\ ~ isDir) THEN Refused(fs)
     ELSE FoldLeft(one, Start(fs, answers), sources)

(* ----------------------------------- cp ----------------------------------- *)
CpDefaults == [r |-> FALSE, f |-> FALSE, i |-> FALSE, n |-> FALSE, u |-> FALSE, v |-> FALSE, l |-> FALSE, s |-> FALSE, x |-> FALSE, T |-> FALSE,
               rm |-> FALSE, parents |-> FALSE, attributes |-> FALSE, deref |-> "", mode |-> FALSE, times |-> FALSE, owner |-> FALSE, keep |-> FALSE,
               reflink |-> "", t |-> <<>>, control |-> <<>>, backup |-> "none", suffix |-> "~", bad |-> FALSE]
Preserve(o, name, on) ==
  CASE name = "mode" -> [o EXCEPT !.mode = on]
    [] name = "ownership" -> [o EXCEPT !.owner = on]
    [] name = "timestamps" -> [o EXCEPT !.times = on]
    [] name = "links" -> [o EXCEPT !.keep = on]
    [] name = "all" -> [o EXCEPT !.mode = on, !.owner = on, !.times = on, !.keep = on]
    [] name \in {"context", "xattr"} -> o
    [] OTHER -> [o EXCEPT !.bad = TRUE]
CpOption(o, x) ==
  CASE x.opt \in {"r", "u", "v", "l", "s", "x", "T", "rm", "parents", "attributes"} -> [o EXCEPT ![x.opt] = TRUE]
    [] x.opt = "a" -> Preserve([o EXCEPT !.r = TRUE, !.deref = "P"], "all", TRUE)
    [] x.opt = "d" -> [o EXCEPT !.deref = "P", !.keep = TRUE]
    [] x.opt = "p" -> [o EXCEPT !.mode = TRUE, !.times = TRUE, !.owner = TRUE]
    [] x.opt \in {"f", "i", "n"} -> [o EXCEPT !.f = (x.opt = "f"), !.i = (x.opt = "i"), !.n = (x.opt = "n")]
    [] x.opt \in {"P", "H", "L"} -> [o EXCEPT !.deref = x.opt]
    [] x.opt \in {"preserve", "no-preserve"} -> FoldLeft(LAMBDA c, a : Preserve(c, a, x.opt = "preserve"), o, x.arg)
    [] x.opt = "reflink" -> [o EXCEPT !.reflink = x.arg, !.bad = @ \/ x.arg \notin {"auto", "always", "never"}]
    [] x.opt = "t" -> [o EXCEPT !.t = x.arg]
    [] x.opt = "sparse" -> [o EXCEPT !.bad = @ \/ x.arg \notin {"never", "auto", "always"}]
    [] x.opt \in {"Z", "c", "context", "strip-trailing-slashes"} -> o
    [] x.opt \in BackupOptions -> WithBackup(o, x)
    [] OTHER -> [o EXCEPT !.bad = TRUE]

With(r, c) == [r EXCEPT !.fs = c.fs, !.err = c.err]
Erred(r, err) == [r EXCEPT !.err = err]
Copied(o, r, dst) == [r EXCEPT !.out = IF o.v THEN Append(@, dst) ELSE @, !.err = ""]
(* Whether what is there may go, and its backup or its removal.              *)
PrepareDestination(o, r, dst, info) ==
  LET d == Stat(r.fs, dst, FALSE)
      q == IF o.i /\ ~ o.n THEN Asked(r) ELSE r
      backup == MakeBackup(r.fs, dst, o.backup, o.suffix)
      removed == RemoveName(backup.fs, dst, TRUE, TRUE)
      older == info.mtime <= r.fs.node[d.ino].mtime
  IN CASE d.err /= "" -> [r |-> Erred(r, ""), proceed |-> TRUE]
       [] d.err = "" /\ d.ino = info.ino -> [r |-> Erred(r, "SAME"), proceed |-> FALSE]
       [] d.err = "" /\ d.ino /= info.ino /\ (o.n \/ (o.u /\ older)) -> [r |-> Erred(r, ""), proceed |-> FALSE]
       [] d.err = "" /\ d.ino /= info.ino /\ ~ o.n /\ ~ (o.u /\ older) ->
            IF o.i /\ ~ Confirmed(r) THEN [r |-> Erred(q, "DECLINED"), proceed |-> FALSE]
            ELSE IF backup.err /= "" THEN [r |-> Erred(q, backup.err), proceed |-> FALSE]
            ELSE IF backup.name = <<>> /\ o.rm THEN [r |-> With(q, removed), proceed |-> removed.err = ""]
            ELSE [r |-> With(q, backup), proceed |-> TRUE]
ReplaceWithLink(r, src, dst, symbolic) ==
  LET gone == IF Stat(r.fs, dst, FALSE).err = "" THEN RemoveName(r.fs, dst, TRUE, TRUE) ELSE Changed(r.fs)
  IN IF gone.err /= "" THEN Erred(r, gone.err)
     ELSE With(r, IF symbolic THEN Symlink(gone.fs, FALSE, src, dst) ELSE Link(gone.fs, src, dst))
LinkInsteadOfCopy(o, r, src, dst) ==
  LET real == Lookup(r.fs, src, TRUE)
      made == IF o.s THEN ReplaceWithLink(r, src, dst, TRUE) ELSE ReplaceWithLink(r, IF o.deref = "P" THEN src ELSE real.at, dst, FALSE)
  IN IF o.s /\ Clean(Front(dst)) /= <<>> THEN Erred(r, "RELATIVE")
     ELSE IF ~ o.s /\ o.deref /= "P" /\ real.err /= "" THEN Erred(r, real.err)
     ELSE IF made.err /= "" THEN made ELSE Copied(o, made, dst)
(* The owner of the name itself, then mode and time of what it leads to.      *)
ApplyAttributes(o, r, dst, info) ==
  LET owned == IF o.owner THEN Chown(r.fs, dst, info.uid, info.gid, FALSE) ELSE Changed(r.fs)
      moded == IF o.mode THEN Chmod(owned.fs, dst, Perm(info.mode)) ELSE Changed(owned.fs)
      timed == IF o.times THEN SetTimes(moded.fs, dst, info.mtime, TRUE) ELSE Changed(moded.fs)
  IN IF owned.err \notin {"", "EPERM"} THEN Erred(r, owned.err)
     ELSE IF info.kind = "link" THEN With(r, Changed(owned.fs))
     ELSE IF moded.err /= "" THEN With(r, moded) ELSE With(r, timed)
(* The source, opened first, is read after the destination has been emptied;  *)
(* sharing its extents needs no room, writing its bytes does.               *)
CopyContents(o, r, from, to) ==
  LET cloned == o.reflink \in {"auto", "always"} /\ r.fs.clones
  IN IF o.attributes THEN Erred(r, "")
     ELSE IF ~ cloned /\ o.reflink = "always" THEN Erred(r, "EOPNOTSUPP")
     ELSE IF ~ cloned /\ r.fs.full THEN Erred(r, "ENOSPC")
     ELSE [r EXCEPT !.fs.node[to].data = r.fs.node[from].data, !.err = ""]
CopyFile(o, r, src, dst, info) ==
  LET p == PrepareDestination(o, r, dst, info)
      linked == o.keep /\ ~ o.l /\ ~ o.s /\ Nlink(r.fs, info.ino) > 1
      again == ReplaceWithLink(p.r, p.r.links[info.ino], dst, FALSE)
      noted == IF linked THEN [p.r EXCEPT !.links = (info.ino :> dst) @@ @] ELSE p.r
      in == OpenRead(noted.fs, src)
      first == OpenWrite(noted.fs, dst, Perm(info.mode))
      removed == RemoveName(noted.fs, dst, TRUE, TRUE)
      out == IF first.err /= "" /\ o.f /\ removed.err = "" THEN OpenWrite(removed.fs, dst, Perm(info.mode)) ELSE first
      body == CopyContents(o, [noted EXCEPT !.fs = out.fs], in.ino, out.ino)
      kept == ApplyAttributes(o, body, dst, info)
  IN IF p.r.err /= "" \/ ~ p.proceed THEN p.r
     ELSE IF linked /\ info.ino \in DOMAIN p.r.links THEN IF again.err /= "" THEN again ELSE Copied(o, again, dst)
     ELSE IF o.l \/ o.s THEN LinkInsteadOfCopy(o, noted, src, dst)
     ELSE IF in.err /= "" THEN Erred(noted, in.err)
     ELSE IF out.err /= "" THEN [noted EXCEPT !.fs = out.fs, !.err = out.err]
     ELSE IF body.err /= "" THEN body
     ELSE IF kept.err /= "" THEN kept ELSE Copied(o, kept, dst)
CopySymlink(o, r, src, dst, info) ==
  LET p == PrepareDestination(o, r, dst, info)
      gone == RemoveName(p.r.fs, dst, TRUE, TRUE)
      made == Symlink(IF gone.err = "" THEN gone.fs ELSE p.r.fs, info.abs, info.to, dst)
      kept == ApplyAttributes(o, With(p.r, made), dst, info)
  IN IF p.r.err /= "" \/ ~ p.proceed THEN p.r
     ELSE IF o.l \/ o.s THEN LinkInsteadOfCopy(o, p.r, src, dst)
     ELSE IF gone.err \notin {"", "ENOENT"} THEN Erred(p.r, gone.err)
     ELSE IF made.err /= "" THEN With(p.r, made)
     ELSE IF kept.err /= "" THEN kept ELSE Copied(o, kept, dst)
(* Where a path that may not exist yet would be.                             *)
RECURSIVE ResolveProspectivePath(_, _)
ResolveProspectivePath(fs, path) ==
  LET e == Lookup(fs, path, TRUE)
  IN IF e.err = "" THEN e.at ELSE Append(ResolveProspectivePath(fs, Front(path)), Base(path))
RejectCopyIntoSelf(fs, src, dst) ==
  LET s == Lookup(fs, src, TRUE)
  IN IF s.err /= "" THEN s.err ELSE IF IsPrefix(s.at, ResolveProspectivePath(fs, Clean(dst))) THEN "SELF" ELSE ""
ReadDirByInode(fs, path) ==
  LET names == ReadNames(fs, path)
      ino(n) == Stat(fs, Join(path, n), FALSE).ino
  IN SortSeq(SelectSeq(NameOrder, LAMBDA n : n \in names.names), LAMBDA m, n : ino(m) < ino(n))
RECURSIVE CopyPath(_, _, _, _, _)
CopyDir(o, r, src, dst, info) ==
  LET made == MkdirAll(r.fs, dst, Perm(info.mode))
      one(q, n) ==
        LET c == CopyPath(o, q, Join(src, n), Join(dst, n), FALSE)
        IN IF c.err /= "" THEN Fails(c) ELSE c
      inside == FoldLeft(one, Copied(o, With(r, made), dst), ReadDirByInode(made.fs, src))
      names == ReadNames(made.fs, src)
  IN IF made.err /= "" THEN With(r, made)
     ELSE IF names.err /= "" THEN Erred(Copied(o, With(r, made), dst), names.err)
     ELSE ApplyAttributes(o, inside, dst, info)
Follows(o, commandLine) == o.deref = "L" \/ (o.deref = "H" /\ commandLine)
CopyPath(o, r, src, dst, commandLine) ==
  LET l == Stat(r.fs, src, FALSE)
      s == IF l.kind = "link" /\ Follows(o, commandLine) THEN Stat(r.fs, src, TRUE) ELSE l
      info == [ino |-> s.ino] @@ r.fs.node[s.ino]
      q == IF o.x /\ r.dev = 0 THEN [r EXCEPT !.dev = info.dev] ELSE r
      self == RejectCopyIntoSelf(r.fs, src, dst)
  IN IF l.err /= "" \/ s.err /= "" THEN Erred(r, IF l.err /= "" THEN l.err ELSE s.err)
     ELSE IF o.x /\ r.dev \notin {0, info.dev} THEN Erred(r, "")
     ELSE CASE info.kind = "link" -> CopySymlink(o, q, src, dst, info)
            [] info.kind = "dir" -> IF ~ o.r THEN Erred(q, "EISDIR") ELSE IF self /= "" THEN Erred(q, self) ELSE CopyDir(o, q, src, dst, info)
            [] info.kind = "file" -> CopyFile(o, q, src, dst, info)
CpOptions(args) ==
  LET o == Options(CpOption, CpDefaults, args)
  IN IF o.deref /= "" THEN o ELSE [o EXCEPT !.deref = IF o.r /\ ~ o.l THEN "P" ELSE "L"]
CmdCp(fs, args, operands, answers) ==
  LET o == CpOptions(args)
      n == Len(operands)
      sources == IF o.t /= <<>> THEN operands ELSE Front(operands)
      destination == IF o.t /= <<>> THEN o.t ELSE operands[n]
      d == Stat(fs, destination, TRUE)
      isDir == o.t /= <<>> \/ (~ o.T /\ d.kind = "dir")
      below(s) == Clean(destination \o Clean(s))
      parents(r, s) == MkdirAll(r.fs, Parent(below(s)), Everyone({"r", "x"}) \cup {<<"u", "w">>})
      copy(r, s, target) == LET c == CopyPath(o, [r EXCEPT !.dev = 0, !.err = ""], s, target, TRUE) IN IF c.err /= "" THEN Fails(c) ELSE c
      one(r, s) ==
        IF o.parents THEN
          LET p == parents(r, s) IN IF p.err /= "" THEN Fails([r EXCEPT !.fs = p.fs]) ELSE copy([r EXCEPT !.fs = p.fs], s, below(s))
        ELSE copy(r, s, IF isDir THEN Append(destination, Base(s)) ELSE destination)
  IN IF o.bad \/ n = 0 \/ (n = 1 /\ o.t = <<>>) \/ (o.t /= <<>> /\ d.kind /= "dir") \/ ((Len(sources) > 1 \/ o.parents) /\ ~ isDir) THEN Refused(fs)
     ELSE FoldLeft(one, Start(fs, answers), sources)

(* ------------------------- rm, mkdir, rmdir and touch --------------------- *)
RmDefaults == [r |-> FALSE, f |-> FALSE, i |-> FALSE, v |-> FALSE, d |-> FALSE, preserve |-> TRUE, bad |-> FALSE]
RmOption(o, x) ==
  CASE x.opt \in {"r", "v", "d"} -> [o EXCEPT ![x.opt] = TRUE]
    [] x.opt \in {"f", "i"} -> [o EXCEPT !.f = (x.opt = "f"), !.i = (x.opt = "i")]
    [] x.opt \in {"force", "interactive"} -> [o EXCEPT ![IF x.opt = "force" THEN "f" ELSE "i"] = TRUE]
    [] x.opt \in {"preserve-root", "no-preserve-root"} -> [o EXCEPT !.preserve = (x.opt = "preserve-root")]
    [] OTHER -> [o EXCEPT !.bad = TRUE]
RmOne(o, r, path) ==
  LET s == Stat(r.fs, path, FALSE)
      q == IF o.i THEN Asked(r) ELSE r
      gone == IF s.kind = "dir" /\ o.r THEN RemoveAll(r.fs, path) ELSE RemoveName(r.fs, path, TRUE, TRUE)
  IN IF o.r /\ o.preserve /\ Clean(path) = <<>> THEN Fails(r)
     ELSE IF s.err /= "" THEN IF o.f /\ s.err = "ENOENT" THEN r ELSE Fails(r)
     ELSE IF s.kind = "dir" /\ ~ o.r /\ ~ o.d THEN Fails(r)
     ELSE IF o.i /\ ~ Confirmed(r) THEN IF Unanswered(r) THEN Fails(q) ELSE q
     ELSE IF gone.err /= "" THEN Fails([q EXCEPT !.fs = gone.fs])
     ELSE [q EXCEPT !.fs = gone.fs, !.out = IF o.v THEN Append(@, path) ELSE @]
CmdRm(fs, args, paths, answers) ==
  LET o == Options(RmOption, RmDefaults, args)
  IN IF o.bad \/ (paths = <<>> /\ ~ o.f) THEN Refused(fs) ELSE FoldLeft(LAMBDA r, p : RmOne(o, r, p), Start(fs, answers), paths)

(* The directories missing, the first one first; filepath.Dir cleans.         *)
MissingParents(fs, path) ==
  LET up == Clean(Parent(path))
      there == {k \in 0 .. Len(up) : Stat(fs, Take(up, k), TRUE).err = ""}
      deepest == CHOOSE k \in there : \A j \in there : j <= k
  IN IF Stat(fs, path, TRUE).err = "" THEN <<>> ELSE Append(Mapped(Between(deepest + 1, Len(up)), LAMBDA k : Take(up, k)), path)
(* m is the mode asked for, if any; a mode beyond the twelve bits is refused.  *)
MkdirOption(o, x) ==
  CASE x.opt \in {"p", "v"} -> [o EXCEPT ![x.opt] = TRUE]
    [] x.opt = "m" -> [o EXCEPT !.m = <<x.arg>>, !.bad = @ \/ ~ x.arg \subseteq Bits]
    [] OTHER -> [o EXCEPT !.bad = TRUE]
MkdirOne(o, r, path) ==
  LET mode == IF o.m = <<>> THEN Everyone({"r", "w", "x"}) ELSE o.m[1]
      made == IF o.p THEN MkdirAll(r.fs, path, mode) ELSE Mkdir(r.fs, path, mode)
      existed == Stat(r.fs, path, TRUE).err = ""
      moded == IF o.m /= <<>> /\ ~ existed THEN Chmod(made.fs, path, o.m[1]) ELSE Changed(made.fs)
      said == IF ~ o.v THEN <<>> ELSE IF o.p THEN MissingParents(r.fs, path) ELSE IF existed THEN <<>> ELSE <<path>>
  IN IF made.err /= "" THEN Fails([r EXCEPT !.fs = made.fs])
     ELSE [r EXCEPT !.fs = moded.fs, !.out = @ \o said, !.status = IF moded.err = "" THEN @ ELSE 1]
CmdMkdir(fs, args, paths) ==
  LET o == Options(MkdirOption, [p |-> FALSE, v |-> FALSE, m |-> <<>>, bad |-> FALSE], args)
  IN IF o.bad \/ paths = <<>> THEN Refused(fs) ELSE FoldLeft(LAMBDA r, p : MkdirOne(o, r, p), Start(fs, <<>>), paths)

(* -p goes on with the parents until one cannot be removed.                  *)
RemoveOneDir(o, r, path) ==
  LET c == RemoveName(r.fs, path, TRUE, FALSE)
  IN IF c.err = "" THEN [r EXCEPT !.fs = c.fs, !.out = IF o.v THEN Append(@, path) ELSE @, !.err = ""]
     ELSE IF o.ignore /\ c.err = "ENOTEMPTY" THEN Erred(r, "") ELSE Erred(Fails(r), c.err)
RmdirOne(o, r, path) ==
  LET dir == Clean(Parent(path))
      up == IF o.p THEN Reverse(Mapped(Between(1, Len(dir)), LAMBDA k : Take(dir, k))) ELSE <<>>
  IN FoldLeft(LAMBDA q, p : IF q.err /= "" THEN q ELSE RemoveOneDir(o, q, p), RemoveOneDir(o, [r EXCEPT !.err = ""], path), up)
RmdirOption(o, x) == IF x.opt \in {"p", "v", "ignore"} THEN [o EXCEPT ![x.opt] = TRUE] ELSE [o EXCEPT !.bad = TRUE]
CmdRmdir(fs, args, paths) ==
  LET o == Options(RmdirOption, [p |-> FALSE, v |-> FALSE, ignore |-> FALSE, bad |-> FALSE], args)
  IN IF o.bad \/ paths = <<>> THEN Refused(fs) ELSE FoldLeft(LAMBDA r, p : RmdirOne(o, r, p), Start(fs, <<>>), paths)

(* A node has one time, the mtime; now is 5.  The time may be given by a       *)
(* reference, by -t or by -d, in that order whatever the order of the options, *)
(* and only the one that counts has to make sense.                         *)
Now == 5
NoTime == -1
TouchDefaults == [c |-> FALSE, a |-> FALSE, m |-> FALSE, h |-> FALSE, r |-> <<>>, t |-> <<>>, d |-> <<>>, bad |-> FALSE]
TouchOption(o, x) ==
  CASE x.opt \in {"c", "a", "m", "h"} -> [o EXCEPT ![x.opt] = TRUE]
    [] x.opt = "f" -> o
    [] x.opt = "time" /\ x.arg \in {"a", "m"} -> [o EXCEPT ![x.arg] = TRUE]
    [] x.opt = "r" -> [o EXCEPT !.r = x.arg]
    [] x.opt \in {"t", "d"} -> [o EXCEPT ![x.opt] = <<x.arg>>]
    [] OTHER -> [o EXCEPT !.bad = TRUE]
TouchTime(fs, o) ==
  LET s == Stat(fs, o.r, ~ o.h)
  IN IF o.r /= <<>> THEN IF s.err = "" THEN fs.node[s.ino].mtime ELSE NoTime ELSE IF o.t /= <<>> THEN o.t[1] ELSE IF o.d /= <<>> THEN o.d[1] ELSE Now
TouchOne(o, r, path) ==
  LET missing == Stat(r.fs, path, FALSE).err = "ENOENT"
      made == OpenWrite(r.fs, path, Everyone({"r", "w"}))
      fs == IF missing THEN made.fs ELSE r.fs
      set == SetTimes(fs, path, o.time, ~ o.h)
      timed == IF o.a /\ ~ o.m /\ set.err = "" THEN Changed(fs) ELSE set
  IN IF missing /\ o.c THEN r
     ELSE IF missing /\ made.err /= "" THEN Fails(r)
     ELSE IF timed.err /= "" THEN Fails([r EXCEPT !.fs = fs]) ELSE [r EXCEPT !.fs = timed.fs]
(* A reference gives its own time, or that of what it leads to.              *)
CmdTouch(fs, args, paths) ==
  LET o == Options(TouchOption, TouchDefaults, args)
  IN IF o.bad \/ paths = <<>> \/ TouchTime(fs, o) = NoTime THEN Refused(fs)
     ELSE FoldLeft(LAMBDA r, p : TouchOne([time |-> TouchTime(fs, o)] @@ o, r, p), Start(fs, <<>>), paths)
=============================================================================
