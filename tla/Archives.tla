------------------------------ MODULE Archives ------------------------------
(* tar, zip and unzip, and what cpio shares with them.  A name is a sequence  *)
(* of components, with a first "/" when absolute, and slash when it ends in    *)
(* one.  An archive is its members in order and whether it breaks off (torn). *)
EXTENDS FileTools

MaxExpanded == 4                                    \* the 64 GiB a run may write
RatioWord == 2 ^ 20                                 \* the uint64 a ratio is computed in
OwnerAll == {"u"} \X {"r", "w", "x"}
Size(data) == Len(data)

(* --------------------------------- patterns ------------------------------- *)
Star == 42
Question == 63
Bracket == 91
CloseBracket == 93
Backslash == 92
IndexFirst(s, x) == Least({i \in DOMAIN s : s[i] = x})
CharsOf(c) == CASE c = "/" -> <<>> [] c = "." -> <<46>> [] c = ".." -> <<46, 46>> [] OTHER -> <<96 + IndexFirst(NameOrder, c)>>
NameText(name) == Joined(Mapped(name, CharsOf), <<47>>)
(* A range may run between any two characters of a set but its last.         *)
RECURSIVE InSet(_, _)
InSet(set, c) ==
  CASE set = <<>> -> FALSE
    [] Len(set) > 2 /\ set[2] = Minus -> c \in set[1] .. set[3] \/ InSet(Skip(set, 3), c)
    [] OTHER -> set[1] = c \/ InSet(Tail(set), c)
Negated(set) == set /= <<>> /\ Head(set) \in {33, 94}
(* fnmatch without FNM_PATHNAME.                                            *)
RECURSIVE Matches(_, _)
Matches(p, s) ==
  LET closes == {i \in DOMAIN p : i > 1 /\ p[i] = CloseBracket}
      end == Least(closes)
      set == SubSeq(p, 2, end - 1)
  IN IF p = <<>> THEN s = <<>>
     ELSE IF p[1] = Star THEN \E i \in 0 .. Len(s) : Matches(Tail(p), Skip(s, i))
     ELSE IF s = <<>> THEN FALSE
     ELSE IF p[1] = Question THEN Matches(Tail(p), Tail(s))
     ELSE IF p[1] = Bracket /\ closes /= {} THEN
          /\ InSet(IF Negated(set) THEN Tail(set) ELSE set, s[1]) /= Negated(set)
          /\ Matches(Skip(p, end), Tail(s))
     ELSE IF p[1] = Backslash THEN Len(p) > 1 /\ p[2] = s[1] /\ Matches(Skip(p, 2), Tail(s))
     ELSE p[1] = s[1] /\ Matches(Tail(p), Tail(s))
TarPatternMatch(pattern, text) == pattern /= <<>> /\ Matches(pattern, text)
Covered(patterns, text) == \E k \in DOMAIN patterns : TarPatternMatch(patterns[k], text)

(* ---------------------------------- names --------------------------------- *)
IsAbs(name) == name /= <<>> /\ name[1] = "/"
Relative(name) == IF IsAbs(name) THEN Tail(name) ELSE name
(* filepath.Clean of a name that is not taken from "/".                      *)
CleanName(name) ==
  LET up(p) == p = <<>> \/ Last(p) = ".."
      step(p, c) == IF c = "." THEN p ELSE IF c /= ".." THEN Append(p, c) ELSE IF up(p) THEN Append(p, "..") ELSE Front(p)
      clean == FoldLeft(step, <<>>, name)
  IN IF IsAbs(name) THEN <<"/">> \o Clean(Tail(name)) ELSE IF clean = <<>> THEN <<".">> ELSE clean
IsLocal(name) == name[1] \notin {"/", ".."}         \* of a clean name
ZipMemberName(operand) == IF IsAbs(operand) THEN Clean(Tail(operand)) ELSE CleanName(operand)
EvalSymlinks(fs, path) == Lookup(fs, path, TRUE)

(* ------------------------------ writing archives -------------------------- *)
Session(fs) == [fs |-> fs, err |-> "", status |-> 0, dirs |-> <<>>, bytes |-> 0, out |-> <<>>, matched |-> {}, members |-> <<>>]
Stop(st, change) == [st EXCEPT !.err = change.err, !.fs = change.fs]
Went(st, change) == [st EXCEPT !.fs = change.fs]
After(st, change) == IF change.err /= "" THEN Stop(st, change) ELSE Went(st, change)
Target(node) == IF node.abs THEN <<"/">> \o node.to ELSE node.to
Member(node, name) ==
  [name |-> name, slash |-> IsDirNode(node), kind |-> node.kind, mode |-> node.mode, mtime |-> node.mtime, data |-> node.data,
   link |-> Target(node), bad |-> FALSE]
InDirectory(fs, path) == SelectSeq(NameOrder, LAMBDA c : c \in ReadNames(fs, path).names)

(* An archive is not written over one of its sources or below one.           *)
SourceOf(base, operand) == IF IsAbs(operand) THEN Relative(operand) ELSE Clean(base \o operand)
SourceRefused(fs, archive, base, operand) ==
  LET source == SourceOf(base, operand)
      s == Stat(fs, source, FALSE)
      at == ResolveProspectivePath(fs, Clean(archive))
      same == LET a == Stat(fs, archive, TRUE) b == Stat(fs, source, TRUE) IN a.err = "" /\ b.err = "" /\ a.ino = b.ino
  IN \/ s.err /= "" \/ same
     \/ IF s.kind = "dir" THEN IsPrefix(EvalSymlinks(fs, source).at, at) ELSE Clean(source) = at
ValidateSources(fs, archive, base, files) == \E k \in DOMAIN files : SourceRefused(fs, archive, base, files[k])
ReadWrite == Everyone({"r", "w"})
CreateArchiveOutput(fs, archive) ==
  LET s == Stat(fs, archive, FALSE)
  IN IF s.err = "" /\ s.kind /= "file" THEN Failed(fs, "EINVAL")
     ELSE IF s.err \notin {"", "ENOENT"} THEN Failed(fs, s.err)
     ELSE OpenWrite(fs, archive, ReadWrite)

(* A member's header goes out before its file is opened.                     *)
AddTarEntry(w, source, name) ==
  LET node == NodeAt(w.fs, Lookup(w.fs, source, FALSE).at)
      put == [w EXCEPT !.members = Append(@, Member(node, name))]
  IN IF node.kind = "file" THEN [put EXCEPT !.err = OpenRead(w.fs, source).err] ELSE put
RECURSIVE AddTarPath(_, _, _, _)
AddTarPath(o, w, source, name) ==
  LET s == Stat(w.fs, source, FALSE)
      put == AddTarEntry(w, source, name)
      child(v, c) == IF v.err /= "" THEN v ELSE AddTarPath(o, v, Join(source, c), Append(name, c))
  IN IF s.err /= "" THEN [w EXCEPT !.err = s.err]
     ELSE IF Covered(o.excludes, NameText(name)) THEN w
     ELSE IF s.kind /= "dir" THEN put
     ELSE IF ReadNames(w.fs, source).err /= "" THEN [put EXCEPT !.err = "EACCES"]
     ELSE FoldLeft(child, put, InDirectory(w.fs, source))
CreateTar(fs, o) ==
  LET output == IF o.archive = <<>> THEN Changed(fs) ELSE CreateArchiveOutput(fs, o.archive)
      nameOf(operand) == IF IsAbs(operand) /\ o.absolute THEN CleanName(operand) ELSE ZipMemberName(operand)
      add(w, operand) == IF w.err /= "" THEN w ELSE AddTarPath(o, w, SourceOf(o.dir, operand), nameOf(operand))
  IN IF o.archive /= <<>> /\ ValidateSources(fs, o.archive, o.dir, o.files) THEN [Session(fs) EXCEPT !.err = "REFUSED"]
     ELSE IF output.err /= "" THEN Stop(Session(fs), output)
     ELSE FoldLeft(add, Session(output.fs), o.files)

(* A file is read and packed before its header goes out.                    *)
CompressZipMember(fs, source) == OpenRead(fs, source).err
AddZipEntry(w, source, name) ==
  LET node == NodeAt(w.fs, Lookup(w.fs, source, FALSE).at)
      err == IF node.kind = "file" THEN CompressZipMember(w.fs, source) ELSE ""
  IN IF err /= "" THEN [w EXCEPT !.err = err] ELSE [w EXCEPT !.members = Append(@, Member(node, name))]
(* With -j a file keeps only its last name; a pattern covers a directory in    *)
(* either spelling.                                                        *)
RECURSIVE AddZipPath(_, _, _, _)
AddZipPath(o, w, source, name) ==
  LET s == Stat(w.fs, source, FALSE)
      stored == IF o.junk /\ s.kind /= "dir" THEN <<Last(name)>> ELSE name
      here == IF o.junk THEN w ELSE AddZipEntry(w, source, name)
      child(v, c) == IF v.err /= "" THEN v ELSE AddZipPath(o, v, Join(source, c), CleanName(Append(name, c)))
      covered == Covered(o.excludes, NameText(stored)) \/ (s.kind = "dir" /\ Covered(o.excludes, Append(NameText(name), 47)))
  IN IF s.err /= "" THEN [w EXCEPT !.err = s.err]
     ELSE IF covered THEN w
     ELSE IF s.kind /= "dir" THEN AddZipEntry(w, source, stored)
     ELSE IF ~ o.recursive THEN here
     ELSE IF ReadNames(w.fs, source).err /= "" THEN [here EXCEPT !.err = "EACCES"]
     ELSE FoldLeft(child, here, InDirectory(w.fs, source))
CreateZip(fs, o) ==
  LET output == CreateArchiveOutput(fs, o.archive)
      add(w, operand) == IF w.err /= "" THEN w ELSE AddZipPath(o, w, Relative(operand), ZipMemberName(operand))
  IN IF ValidateSources(fs, o.archive, <<>>, o.files) THEN [Session(fs) EXCEPT !.err = "REFUSED"]
     ELSE IF output.err /= "" THEN Stop(Session(fs), output)
     ELSE FoldLeft(add, Session(output.fs), o.files)

(* --------------------------- where a member may go ------------------------ *)
SafeTarget(root, name) ==
  LET clean == CleanName(name)
  IN IF ~ IsLocal(clean) THEN [err |-> "ESCAPES", at |-> <<>>] ELSE [err |-> "", at |-> Clean(root \o clean)]
(* Missing directories are made; no link and no file is gone through.  For    *)
(* the root itself it is the directory above that is looked at.             *)
EnsureParents(fs, root, target) ==
  LET lengths == IF target /= root THEN Between(Len(root) + 1, Len(target) - 1) ELSE IF root = <<>> THEN <<>> ELSE <<Len(root) - 1>>
      step(r, k) ==
        LET p == Take(target, k)
            s == Stat(r.fs, p, FALSE)
        IN IF r.err /= "" THEN r
           ELSE IF s.err = "ENOENT" THEN Mkdir(r.fs, p, OwnerAll)
           ELSE IF s.err = "" /\ s.kind /= "dir" THEN Failed(r.fs, "ENOTDIR")
           ELSE Failed(r.fs, s.err)
  IN FoldLeft(step, Changed(fs), lengths)
(* Where a link would lead, as far as what it passes is there.               *)
ResolveArchiveLink(fs, base, link) ==
  LET step(p, c) ==
        IF c = "." THEN p
        ELSE IF c = ".." THEN Parent(p)
        ELSE LET w == EvalSymlinks(fs, Append(p, c)) IN IF w.err = "" THEN w.at ELSE Append(p, c)
  IN FoldLeft(step, base, link)
(* A link may not leave the root, read from its name or from where it is.    *)
LinkAllowed(fs, root, target, name, link) ==
  LET base == EvalSymlinks(fs, Parent(target))
      realRoot == EvalSymlinks(fs, root)
  IN /\ ~ IsAbs(link) /\ IsLocal(CleanName(Front(name) \o link))
     /\ realRoot.err = "" /\ base.err = ""
     /\ IsPrefix(realRoot.at, ResolveArchiveLink(fs, base.at, link))
(* A new inode under a temporary name, renamed to where it belongs.          *)
Install(fs, path, node) ==
  LET w == Lookup(fs, path, FALSE)
      i == NewInode(fs)
  IN IF w.err \notin {"", "ENOENT"} \/ w.at = <<>> THEN Failed(fs, IF w.err = "" THEN "EBUSY" ELSE w.err)
     ELSE IF ~ Writable(fs, w.at) THEN Failed(fs, "EACCES")
     ELSE IF w.err = "" /\ IsDirNode(NodeAt(fs, w.at)) THEN Failed(fs, "EEXIST")
     ELSE Changed([fs EXCEPT !.at = (w.at :> i) @@ @, !.node = (i :> [node EXCEPT !.uid = Caller(fs), !.dev = NodeAt(fs, Parent(w.at)).dev]) @@ @])
FileOf(m, mode) == [Blank EXCEPT !.data = m.data, !.mode = mode, !.mtime = m.mtime]
LinkOf(link) == [Blank EXCEPT !.kind = "link", !.abs = IsAbs(link), !.to = Relative(link)]

(* A directory's mode and time wait until everything is in it.               *)
ExtractDirectory(st, root, target, m, mode) ==
  LET up == EnsureParents(st.fs, root, target)
      there == Stat(up.fs, target, FALSE)
      made == MkdirAll(up.fs, target, OwnerAll)
  IN IF up.err /= "" THEN Stop(st, up)
     ELSE IF there.err = "" /\ there.kind /= "dir" THEN Stop(st, Failed(up.fs, "EEXIST"))
     ELSE IF made.err /= "" THEN Stop(st, made)
     ELSE [st EXCEPT !.fs = made.fs, !.dirs = Append(@, [path |-> target, mode |-> mode, mtime |-> m.mtime])]
(* The same with the outer directories first.                              *)
RestoreDown(st) ==
  LET step(s, d) ==
        LET c == Chmod(s.fs, d.path, d.mode)
        IN IF s.err /= "" THEN s ELSE IF c.err /= "" THEN Stop(s, c) ELSE After(s, SetTimes(c.fs, d.path, d.mtime, TRUE))
  IN IF st.err /= "" THEN st ELSE FoldLeft(step, st, st.dirs)
RestoreDirs(st) ==
  LET step(s, d) ==
        LET c == Chmod(s.fs, d.path, d.mode)
        IN IF s.err /= "" THEN s ELSE IF c.err /= "" THEN Stop(s, c) ELSE After(s, SetTimes(c.fs, d.path, d.mtime, TRUE))
  IN IF st.err /= "" THEN st ELSE FoldLeft(step, st, Reverse(st.dirs))

(* ------------------------------------ tar --------------------------------- *)
TarDefaults == [op |-> "", archive |-> <<>>, dir |-> <<>>, keepOld |-> FALSE, overwrite |-> FALSE, toStdout |-> FALSE, absolute |-> FALSE,
                strip |-> 0, excludes |-> <<>>, files |-> <<>>, bad |-> FALSE]
TarOption(o, x) ==
  CASE x.opt \in {"c", "x", "t"} -> [o EXCEPT !.op = x.opt, !.bad = @ \/ o.op \notin {"", x.opt}]
    [] x.opt \in {"create", "extract", "list"} -> [o EXCEPT !.op = CASE x.opt = "create" -> "c" [] x.opt = "extract" -> "x" [] x.opt = "list" -> "t"]
    [] x.opt = "k" -> [o EXCEPT !.keepOld = TRUE]
    [] x.opt = "overwrite" -> [o EXCEPT !.overwrite = TRUE, !.keepOld = FALSE]
    [] x.opt = "O" -> [o EXCEPT !.toStdout = TRUE]
    [] x.opt = "P" -> [o EXCEPT !.absolute = TRUE]
    [] x.opt = "f" -> [o EXCEPT !.archive = x.arg]
    [] x.opt = "C" -> [o EXCEPT !.dir = x.arg]
    [] x.opt = "T" -> [o EXCEPT !.files = @ \o x.arg]
    [] x.opt = "exclude" -> [o EXCEPT !.excludes = Append(@, x.arg)]
    [] x.opt = "strip" -> [o EXCEPT !.strip = x.arg, !.bad = @ \/ x.arg < 0]
    [] x.opt \in {"v", "p", "numeric-owner", "same-owner", "z", "j", "J", "Z"} -> o
    [] OTHER -> [o EXCEPT !.bad = TRUE]
(* The names of -T come after the operands.                                 *)
ParseTarOptions(args, operands) ==
  LET o == Options(TarOption, [TarDefaults EXCEPT !.files = operands], args)
  IN [o EXCEPT !.bad = @ \/ o.op = "" \/ (o.op = "c" /\ o.files = <<>>)]

(* A member counts for the first selection it fits, and only for that one.    *)
Wants(o, m) == {k \in DOMAIN o.files : IsPrefix(o.files[k], m.name)}
Seen(o, st, m) == IF Wants(o, m) = {} THEN st ELSE [st EXCEPT !.matched = @ \cup {o.files[Least(Wants(o, m))]}]
Selected(o, m) == (o.files = <<>> \/ Wants(o, m) /= {}) /\ ~ Covered(o.excludes, NameText(m.name))
StripComponents(m, count) ==
  IF count = 0 THEN m.name ELSE IF Len(Relative(m.name)) <= count THEN <<>> ELSE Skip(Relative(m.name), count)

TarRegular(o, st, root, target, m) ==
  LET up == EnsureParents(st.fs, root, target)
      there == Stat(up.fs, target, FALSE)
      now == [st EXCEPT !.bytes = @ + Size(m.data)]
  IN IF Size(m.data) > MaxExpanded - st.bytes THEN Stop(st, Failed(st.fs, "LIMIT"))
     ELSE IF up.err /= "" THEN Stop(now, up)
     ELSE IF there.err = "" /\ o.keepOld THEN [Went(now, up) EXCEPT !.status = 2]
     ELSE IF there.err = "" /\ there.kind /= "file" THEN Stop(now, Failed(up.fs, "EEXIST"))
     ELSE After(now, Install(up.fs, target, FileOf(m, m.mode)))
TarSymlink(o, st, root, target, name, m) ==
  LET up == EnsureParents(st.fs, root, target)
      there == Stat(up.fs, target, FALSE)
  IN IF up.err /= "" THEN Stop(st, up)
     ELSE IF ~ LinkAllowed(up.fs, root, target, name, m.link) THEN Stop(st, Failed(up.fs, "ESCAPES"))
     ELSE IF o.keepOld /\ there.err = "" THEN [Went(st, up) EXCEPT !.status = 2]
     ELSE After(st, Install(up.fs, target, LinkOf(m.link)))
(* The member a hard link names is not stripped of its first components.     *)
TarHardLink(st, root, target, m) ==
  LET from == SafeTarget(root, m.link)
      up == EnsureParents(st.fs, root, target)
  IN IF from.err /= "" THEN Stop(st, Failed(st.fs, from.err))
     ELSE IF up.err /= "" THEN Stop(st, up)
     ELSE IF Stat(up.fs, from.at, FALSE).kind /= "file" THEN Stop(st, Failed(up.fs, "EINVAL"))
     ELSE After(st, Link(up.fs, from.at, target))
ExtractTarMember(o, root, before, m) ==
  LET name == StripComponents(m, o.strip)
      st == Seen(o, before, m)
      target == SafeTarget(root, name)
  IN IF before.err /= "" THEN before
     ELSE IF ~ Selected(o, m) \/ name = <<>> THEN st
     ELSE IF o.toStdout THEN IF m.kind = "file" THEN [st EXCEPT !.out = Append(@, m.data)] ELSE st
     ELSE IF target.err /= "" THEN Stop(st, Failed(st.fs, target.err))
     ELSE CASE m.kind = "dir" -> ExtractDirectory(st, root, target.at, m, m.mode)
            [] m.kind = "file" -> TarRegular(o, st, root, target.at, m)
            [] m.kind = "link" -> TarSymlink(o, st, root, target.at, name, m)
            [] m.kind = "hard" -> TarHardLink(st, root, target.at, m)
            [] OTHER -> Stop(st, Failed(st.fs, "UNSUPPORTED"))
Torn(st, archive) == IF st.err = "" /\ archive.torn THEN [st EXCEPT !.err = "EOF"] ELSE st
ExtractTar(fs, o, archive) ==
  LET root == Clean(o.dir)
      made == MkdirAll(fs, root, Everyone({"r", "x"}) \cup OwnerAll)
      step(st, m) == ExtractTarMember(o, root, st, m)
  IN IF made.err /= "" THEN Stop(Session(fs), made)
     ELSE RestoreDirs(Torn(FoldLeft(step, Session(made.fs), archive.members), archive))
ListTar(fs, o, archive) ==
  LET step(st, m) == IF Selected(o, m) THEN [Seen(o, st, m) EXCEPT !.out = Append(@, m.name)] ELSE Seen(o, st, m)
  IN Torn(FoldLeft(step, Session(fs), archive.members), archive)
(* An archive that cannot be opened is [members |-> <<>>, torn |-> FALSE,      *)
(* missing |-> TRUE].                                                      *)
CmdTar(fs, args, operands, archive) ==
  LET o == ParseTarOptions(args, operands)
      r == CASE o.op = "c" -> CreateTar(fs, o) [] o.op = "x" -> ExtractTar(fs, o, archive) [] OTHER -> ListTar(fs, o, archive)
      unseen == {k \in DOMAIN o.files : o.op /= "c" /\ o.files[k] \notin r.matched}
  IN IF o.bad THEN [Session(fs) EXCEPT !.status = 1, !.err = "USAGE"]
     ELSE IF o.op /= "c" /\ archive.missing THEN [Session(fs) EXCEPT !.status = 2, !.err = "ENOENT"]
     ELSE [r EXCEPT !.status = IF r.err /= "" THEN 1 ELSE IF unseen /= {} THEN 2 ELSE @]

(* --------------------------------- zip, unzip ----------------------------- *)
ZipDefaults == [archive |-> <<>>, recursive |-> FALSE, store |-> FALSE, junk |-> FALSE, files |-> <<>>, excludes |-> <<>>, excluding |-> FALSE, bad |-> FALSE]
ZipOption(o, x) ==
  CASE x.opt = "r" -> [o EXCEPT !.recursive = TRUE]
    [] x.opt = "x" -> [o EXCEPT !.excluding = TRUE]
    [] x.opt = "j" -> [o EXCEPT !.junk = TRUE]
    [] x.opt \in {"0", "9"} -> [o EXCEPT !.store = (x.opt = "0")]
    [] x.opt \in {"q", "v"} -> o
    [] x.opt = "operand" -> IF o.archive = <<>> THEN [o EXCEPT !.archive = x.arg] ELSE IF o.excluding THEN [o EXCEPT !.excludes = Append(@, x.arg)] ELSE [o EXCEPT !.files = Append(@, x.arg)]
    [] OTHER -> [o EXCEPT !.bad = TRUE]
CmdZip(fs, args) ==
  LET o == Options(ZipOption, ZipDefaults, args)
      r == CreateZip(fs, o)
  IN IF o.bad \/ o.archive = <<>> \/ o.files = <<>> THEN [Session(fs) EXCEPT !.status = 1, !.err = "USAGE"]
     ELSE [r EXCEPT !.status = IF r.err /= "" THEN 1 ELSE 0]
UnzipDefaults == [dir |-> <<>>, list |-> FALSE, test |-> FALSE, pipe |-> FALSE, overwrite |-> FALSE, never |-> FALSE, junk |-> FALSE, quiet |-> 0,
                  archive |-> <<>>, members |-> <<>>, excludes |-> <<>>, excluding |-> FALSE, bad |-> FALSE]
UnzipOption(o, x) ==
  CASE x.opt = "d" -> [o EXCEPT !.dir = x.arg]
    [] x.opt = "x" -> [o EXCEPT !.excluding = TRUE]
    [] x.opt \in {"l", "v"} -> [o EXCEPT !.list = TRUE]
    [] x.opt = "t" -> [o EXCEPT !.test = TRUE]
    [] x.opt \in {"p", "c"} -> [o EXCEPT !.pipe = TRUE, !.quiet = IF x.opt = "p" THEN 2 ELSE @]
    [] x.opt \in {"o", "n"} -> [o EXCEPT !.overwrite = (x.opt = "o"), !.never = (x.opt = "n")]
    [] x.opt = "j" -> [o EXCEPT !.junk = TRUE]
    [] x.opt = "q" -> [o EXCEPT !.quiet = @ + 1]
    [] x.opt \in {"a", "b", "C", "K", "L", "U", "X", "V", "W", "D"} -> o
    [] x.opt = "operand" -> IF o.archive = <<>> THEN [o EXCEPT !.archive = x.arg] ELSE IF o.excluding THEN [o EXCEPT !.excludes = Append(@, x.arg)] ELSE [o EXCEPT !.members = Append(@, x.arg)]
    [] OTHER -> [o EXCEPT !.bad = TRUE]
TextOf(m) == IF m.slash THEN Append(NameText(m.name), 47) ELSE NameText(m.name)
UnzipSelects(o, m) == ~ Covered(o.excludes, TextOf(m)) /\ (o.members = <<>> \/ \E k \in DOMAIN o.members : o.members[k] = TextOf(m) \/ TarPatternMatch(o.members[k], TextOf(m)))

(* The parents, the file that is not replaced if it is no file, the new one.  *)
ExtractArchiveRegular(fs, root, target, m) ==
  LET up == EnsureParents(fs, root, target)
      there == Stat(up.fs, target, FALSE)
  IN IF Size(m.data) > MaxExpanded THEN Failed(fs, "LIMIT")
     ELSE IF up.err /= "" THEN up
     ELSE IF there.err = "" /\ there.kind /= "file" THEN Failed(up.fs, "EEXIST")
     ELSE Install(up.fs, target, FileOf(m, Perm(m.mode)))
ExtractZipSymlink(st, root, target, m) ==
  LET up == EnsureParents(st.fs, root, target)
      made == Symlink(up.fs, FALSE, m.link, target)
  IN IF m.bad THEN Stop(st, Failed(st.fs, "BAD"))
     ELSE IF up.err /= "" THEN Stop(st, up)
     ELSE IF ~ LinkAllowed(up.fs, root, target, m.name, m.link) THEN Stop(st, Failed(up.fs, "ESCAPES"))
     ELSE After(st, IF made.err = "" THEN made ELSE Failed(up.fs, made.err))
(* What is there is kept without -o.  A checksum is only looked at by those    *)
(* who read past the member's last byte: -p and -t, and a link's.            *)
ExtractZipMember(o, root, before, m) ==
  LET name == IF o.junk THEN <<Last(m.name)>> ELSE m.name
      st == [before EXCEPT !.matched = {TRUE}]
      target == SafeTarget(root, name)
      r == ExtractArchiveRegular(st.fs, root, target.at, m)
  IN IF before.err /= "" \/ ~ UnzipSelects(o, m) THEN before
     ELSE IF Size(m.data) > MaxExpanded - st.bytes THEN Stop(st, Failed(st.fs, "LIMIT"))
     ELSE IF m.slash /\ (o.junk \/ o.pipe) THEN st
     ELSE IF o.pipe THEN [st EXCEPT !.out = Append(@, m.data), !.err = IF m.bad THEN "BAD" ELSE ""]
     ELSE IF target.err /= "" THEN Stop(st, Failed(st.fs, target.err))
     ELSE IF m.slash \/ m.kind = "dir" THEN ExtractDirectory(st, root, target.at, m, Perm(m.mode))
     ELSE IF m.kind = "link" THEN ExtractZipSymlink(st, root, target.at, m)
     ELSE IF m.kind /= "file" THEN Stop(st, Failed(st.fs, "UNSUPPORTED"))
     ELSE IF Stat(st.fs, target.at, FALSE).err = "" /\ ~ o.overwrite THEN st
     ELSE IF r.err /= "" THEN Stop(st, r)
     ELSE [Went(st, r) EXCEPT !.bytes = @ + Size(m.data)]
ExtractZip(fs, o, archive) ==
  LET root == Clean(o.dir)
      made == MkdirAll(fs, root, Everyone({"r", "x"}) \cup OwnerAll)
      step(st, m) == ExtractZipMember(o, root, st, m)
  IN IF made.err /= "" THEN Stop(Session(fs), made) ELSE RestoreDirs(FoldLeft(step, Session(made.fs), archive.members))
Chosen(o, archive) == SelectSeq(archive.members, LAMBDA m : UnzipSelects(o, m))
NoneOf(o, chosen) == chosen = {} /\ o.members /= <<>>
ListZip(fs, o, chosen) == [Session(fs) EXCEPT !.out = [k \in DOMAIN chosen |-> chosen[k].name], !.status = IF NoneOf(o, Range(chosen)) THEN 11 ELSE 0]
TestZip(fs, chosen) ==
  [Session(fs) EXCEPT !.out = [k \in DOMAIN chosen |-> ~ chosen[k].bad], !.status = IF \E k \in DOMAIN chosen : chosen[k].bad THEN 2 ELSE 0]
RunUnzip(fs, args, archive) ==
  LET o == Options(UnzipOption, UnzipDefaults, args)
      chosen == Chosen(o, archive)
      r == ExtractZip(fs, o, archive)
  IN IF o.bad \/ o.archive = <<>> THEN [Session(fs) EXCEPT !.status = 1, !.err = "USAGE"]
     ELSE IF archive.missing \/ archive.torn THEN [Session(fs) EXCEPT !.status = 9, !.err = "ENOENT"]
     ELSE IF o.list THEN ListZip(fs, o, chosen)
     ELSE IF o.test THEN TestZip(fs, chosen)
     ELSE [r EXCEPT !.status = IF r.err /= "" THEN 2 ELSE IF NoneOf(o, r.matched) THEN 11 ELSE 0]
(* A member that was stored larger than it is gives a number without meaning. *)
ZipRatio(uncompressed, compressed) ==
  IF uncompressed = 0 THEN 0
  ELSE (((((uncompressed - compressed) * 100) % RatioWord) + (uncompressed \div 2)) % RatioWord) \div uncompressed
=============================================================================
