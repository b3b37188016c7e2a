-------------------------------- MODULE Cpio --------------------------------
(* cpio: writing an archive as a stream, reading one, and copying through.    *)
(* A stream is a sequence of tokens, each [t |-> "head", h |-> ...] followed   *)
(* by the member's "data" and its "pad", where there are any.                *)
EXTENDS Archives

NameMax == 6                                        \* cpioMaxNameBytes, which is 2^16
FieldMax == 3                                       \* maxCpioFieldValue, 2^32 - 1
Trailer == <<"TRAILER!!!">>

(* -------------------------------- the stream ------------------------------ *)
CpioDataAlign(format) == CASE format \in {"newc", "crc"} -> 4 [] format = "bin" -> 2 [] format = "odc" -> 1
DataLen(h) == IF h.kind = "link" THEN Len(h.link) ELSE IF h.kind = "file" THEN Size(h.data) ELSE 0
Padded(format, size) == IF size % CpioDataAlign(format) = 0 THEN <<>> ELSE <<[t |-> "pad"]>>
NameSize(h) == IF h.name = Trailer THEN 1 ELSE 2 * Len(h.name)
(* bin has 16 bits for the name's size, the others have more.               *)
StoredNameSize(format, h) == IF format = "bin" THEN NameSize(h) % NameMax ELSE NameSize(h)
Header(format, h) == [t |-> "head", h |-> h, nameSize |-> StoredNameSize(format, h), format |-> format]
WriteCpioHeader(w, format, h) ==
  IF NameSize(h) \notin 1 .. NameMax THEN [w EXCEPT !.err = "NAME"] ELSE [w EXCEPT !.err = "", !.stream = Append(@, Header(format, h))]
Payload(format, h) == IF DataLen(h) = 0 THEN <<>> ELSE <<[t |-> "data"]>> \o Padded(format, DataLen(h))
WriteCpioPath(o, w, operand) ==
  LET path == Relative(operand)
      s == Stat(w.fs, path, o.dereference)
      h == Member(w.fs.node[s.ino], ZipMemberName(operand))
      headed == WriteCpioHeader(w, o.format, h)
  IN IF s.err /= "" THEN [w EXCEPT !.err = s.err]
     ELSE IF s.kind = "file" /\ Size(h.data) > FieldMax THEN [w EXCEPT !.err = "LARGE"]
     ELSE IF s.kind = "file" /\ OpenRead(w.fs, path).err /= "" THEN [w EXCEPT !.err = "EACCES"]
     ELSE IF headed.err /= "" THEN headed
     ELSE [headed EXCEPT !.stream = @ \o Payload(o.format, h)]
(* A path that fails is left out and the rest go on.                         *)
CreateCpio(fs, o, paths) ==
  LET output == IF o.archive = <<>> THEN Changed(fs) ELSE CreateArchiveOutput(fs, o.archive)
      refused == o.archive /= <<>> /\ ValidateSources(fs, o.archive, <<>>, paths)
      start(at) == [fs |-> at, err |-> "", failed |-> FALSE, stream |-> <<>>]
      add(w, p) == LET v == WriteCpioPath(o, w, p) IN [v EXCEPT !.failed = @ \/ v.err /= "", !.err = ""]
      last == [name |-> Trailer, kind |-> "none"]
  IN IF refused \/ output.err /= "" THEN [start(fs) EXCEPT !.failed = TRUE]
     ELSE [FoldLeft(add, start(output.fs), paths) EXCEPT !.stream = Append(@, Header(o.format, last))]
(* What is counted is rounded up to whole blocks.                           *)
Blocks(count, size) == (count + size - 1) \div size
Padding(count, size) == (size - (count % size)) % size

(* ---------------------------------- reading ------------------------------- *)
(* The tokens of a member's data and pad, which whoever leaves them unread     *)
(* leaves to be taken for a header.                                        *)
SkipData(st) ==
  LET isData(k) == k \in DOMAIN st.stream /\ st.stream[k].t /= "head"
  IN [st EXCEPT !.stream = Skip(@, IF isData(1) /\ isData(2) THEN 2 ELSE IF isData(1) THEN 1 ELSE 0)]
ReadCpioHeader(st) ==
  LET token == Head(st.stream)
  IN IF st.stream = <<>> THEN "EOF"
     ELSE IF token.t /= "head" THEN "MAGIC"
     ELSE IF token.nameSize \notin 1 .. NameMax THEN "NAME"
     ELSE ""
CpioSelected(o, m) == o.patterns = <<>> \/ (Covered(o.patterns, NameText(m.name)) /= o.nonMatching)
Refuse(st, fs) == [SkipData(st) EXCEPT !.fs = fs, !.failed = TRUE]
ExtractCpioDirectory(st, target, m) ==
  LET there == Stat(st.fs, target, FALSE)
      made == Mkdir(st.fs, target, OwnerAll)
  IN IF (there.err = "" /\ there.kind /= "dir") \/ made.err \notin {"", "EEXIST"} THEN [st EXCEPT !.failed = TRUE]
     ELSE [Went(st, made) EXCEPT !.dirs = Append(@, [path |-> target, mode |-> m.mode, mtime |-> m.mtime])]
(* A file that cannot be installed leaves its data in the stream.           *)
ExtractCpioRegular(o, st, root, target, m) ==
  LET cleared == IF o.unlink THEN RemoveName(st.fs, target, TRUE, TRUE).fs ELSE st.fs
      r == ExtractArchiveRegular(cleared, root, target, m)
  IN IF r.err /= "" THEN [st EXCEPT !.fs = r.fs, !.failed = TRUE]
     ELSE [SkipData(Went(st, r)) EXCEPT !.bytes = @ + Size(m.data)]
ExtractCpioSymlink(o, st, root, target, m) ==
  LET cleared == IF o.unlink THEN RemoveName(st.fs, target, TRUE, TRUE).fs ELSE st.fs
      r == Symlink(cleared, FALSE, m.link, target)
  IN IF ~ LinkAllowed(st.fs, root, target, m.name, m.link) THEN Refuse(st, st.fs)
     ELSE IF r.err /= "" THEN Refuse(st, cleared)
     ELSE Went(SkipData(st), r)
(* Without -u what is no older than the member is kept.                      *)
ExtractCpioMember(o, root, st, m) ==
  LET target == SafeTarget(root, m.name)
      up == IF o.makeDirs THEN EnsureParents(st.fs, root, target.at) ELSE Changed(st.fs)
      there == Stat(up.fs, target.at, FALSE)
      now == Went(st, up)
  IN IF target.err /= "" THEN Refuse(st, st.fs)
     ELSE IF up.err /= "" THEN Refuse(st, up.fs)
     ELSE IF ~ o.unlink /\ m.kind /= "dir" /\ there.err = "" /\ up.fs.node[there.ino].mtime >= m.mtime THEN Refuse(st, up.fs)
     ELSE CASE m.kind = "dir" -> ExtractCpioDirectory(now, target.at, m)
            [] m.kind = "file" -> ExtractCpioRegular(o, now, root, target.at, m)
            [] m.kind = "link" -> ExtractCpioSymlink(o, now, root, target.at, m)
            [] OTHER -> Refuse(now, now.fs)
ReadCpioMember(o, root, st, m) ==
  IF ~ CpioSelected(o, m) THEN SkipData(st)
  ELSE IF o.op = "t" THEN [SkipData(st) EXCEPT !.out = Append(@, m.name)]
  ELSE IF o.toStdout THEN [SkipData(st) EXCEPT !.out = Append(@, IF m.kind = "link" THEN m.link ELSE m.data)]
  ELSE ExtractCpioMember(o, root, st, m)
(* What cannot be read on ends the run at once, the directories as they are.  *)
RestoreCpioDirectories(st) ==
  LET step(fs, d) == SetTimes(Chmod(fs, d.path, d.mode).fs, d.path, d.mtime, TRUE).fs
  IN [st EXCEPT !.fs = FoldLeft(step, st.fs, Reverse(st.dirs))]
RECURSIVE ReadMembers(_, _, _)
ReadMembers(o, root, st) ==
  LET err == ReadCpioHeader(st)
      token == Head(st.stream)
      past == [st EXCEPT !.stream = Tail(@)]
  IN IF err /= "" THEN [st EXCEPT !.err = err]
     ELSE IF token.h.name = Trailer THEN RestoreCpioDirectories(past)
     ELSE IF DataLen(token.h) > MaxExpanded - st.bytes THEN [st EXCEPT !.err = "LIMIT"]
     ELSE ReadMembers(o, root, ReadCpioMember(o, root, past, token.h))
Reading(fs, stream) == Session(fs) @@ [stream |-> stream, failed |-> FALSE]
ReadCpio(fs, o, stream) ==
  LET root == Clean(o.dir)
      made == IF o.op = "i" /\ ~ o.toStdout THEN MkdirAll(fs, root, Everyone({"r", "x"}) \cup OwnerAll) ELSE Changed(fs)
  IN IF o.archive /= <<>> /\ OpenRead(fs, o.archive).err /= "" THEN [Reading(fs, stream) EXCEPT !.err = "OPEN"]
     ELSE IF made.err /= "" THEN Stop(Reading(fs, stream), made)
     ELSE ReadMembers(o, root, Reading(made.fs, stream))

(* --------------------------------- through -------------------------------- *)
(* With -l the target goes before it is known that the link can be made.      *)
PassCpioRegular(o, st, path, target, node) ==
  LET cleared == IF o.link \/ o.unlink THEN RemoveName(st.fs, target, TRUE, TRUE).fs ELSE st.fs
      linked == Link(cleared, path, target)
      opens == OpenRead(IF o.link THEN cleared ELSE st.fs, path)
      made == OpenWrite(cleared, target, Perm(node.mode))
      copied == made.fs.node[opens.ino].data
      written == [made.fs EXCEPT !.node[made.ino].data = copied, !.node[made.ino].mtime = 5]
      full == [written EXCEPT !.node[made.ino].mode = Perm(node.mode), !.node[made.ino].mtime = IF o.keepTimes THEN node.mtime ELSE @]
  IN IF o.link /\ linked.err = "" THEN Went(st, linked)
     ELSE IF opens.err /= "" THEN [st EXCEPT !.fs = IF o.link THEN cleared ELSE st.fs, !.failed = TRUE]
     ELSE IF made.err /= "" THEN [st EXCEPT !.fs = cleared, !.failed = TRUE]
     ELSE IF ~ Owns(made.fs, made.fs.node[made.ino]) THEN [st EXCEPT !.fs = written, !.failed = TRUE]
     ELSE [st EXCEPT !.fs = full]
PassCpioPath(o, root, st, operand) ==
  LET path == Relative(operand)
      s == Stat(st.fs, path, o.dereference)
      node == st.fs.node[s.ino]
      target == SafeTarget(root, ZipMemberName(operand))
      up == IF o.makeDirs THEN EnsureParents(st.fs, root, target.at) ELSE Changed(st.fs)
      now == Went(st, up)
      made == Mkdir(up.fs, target.at, OwnerAll)
      cleared == IF o.unlink THEN RemoveName(up.fs, target.at, TRUE, TRUE).fs ELSE up.fs
      link == Symlink(cleared, FALSE, Target(node), target.at)
      failed(fs) == [st EXCEPT !.fs = fs, !.failed = TRUE]
  IN IF s.err /= "" \/ target.err /= "" THEN failed(st.fs)
     ELSE IF up.err /= "" \/ NameSize([name |-> ZipMemberName(operand)]) \notin 1 .. NameMax THEN failed(up.fs)
     ELSE CASE s.kind = "dir" -> IF made.err \in {"", "EEXIST"} THEN [Went(st, made) EXCEPT !.dirs = Append(@, [path |-> target.at, mode |-> Perm(node.mode), mtime |-> node.mtime])]
                                 ELSE failed(up.fs)
            [] s.kind = "link" -> IF ~ LinkAllowed(up.fs, root, target.at, operand, Target(node)) THEN failed(up.fs)
                                  ELSE IF link.err = "" THEN Went(st, link) ELSE failed(cleared)
            [] s.kind = "file" -> PassCpioRegular(o, now, path, target.at, node)
            [] OTHER -> failed(up.fs)
PassCpio(fs, o, paths) == RestoreCpioDirectories(FoldLeft(LAMBDA st, p : PassCpioPath(o, Clean(o.dir), st, p), Reading(fs, <<>>), paths))

(* --------------------------------- options -------------------------------- *)
CpioDefaults == [op |-> "", archive |-> <<>>, dir |-> <<>>, format |-> "newc", patterns |-> <<>>, makeDirs |-> FALSE, unlink |-> FALSE, keepTimes |-> FALSE,
                 toStdout |-> FALSE, dereference |-> FALSE, nonMatching |-> FALSE, link |-> FALSE, size |-> 512, bad |-> 0]
CpioOption(o, x) ==
  CASE o.bad /= 0 -> o
    [] o.bad = 0 /\ x.opt \in {"o", "p"} -> IF o.op \in {"", x.opt} THEN [o EXCEPT !.op = x.opt] ELSE [o EXCEPT !.bad = 2]
    [] o.bad = 0 /\ x.opt = "i" -> IF o.op \in {"", "i"} THEN [o EXCEPT !.op = "i"] ELSE IF o.op = "t" THEN o ELSE [o EXCEPT !.bad = 2]
    [] o.bad = 0 /\ x.opt = "t" -> IF o.op \in {"o", "p"} THEN [o EXCEPT !.bad = 2] ELSE [o EXCEPT !.op = "t"]
    [] o.bad = 0 /\ x.opt = "F" -> [o EXCEPT !.archive = x.arg]
    [] o.bad = 0 /\ x.opt = "H" -> IF x.arg \in {"newc", "crc", "odc", "bin"} THEN [o EXCEPT !.format = x.arg] ELSE [o EXCEPT !.bad = 2]
    [] o.bad = 0 /\ x.opt = "c" -> [o EXCEPT !.format = "odc"]
    [] o.bad = 0 /\ x.opt \in {"B", "C"} -> [o EXCEPT !.size = IF x.opt = "B" THEN 5120 ELSE x.arg, !.bad = IF x.opt = "C" /\ x.arg <= 0 THEN 2 ELSE 0]
    [] o.bad = 0 /\ x.opt \in {"makeDirs", "unlink", "keepTimes", "toStdout", "dereference", "nonMatching", "link"} -> [o EXCEPT ![x.opt] = TRUE]
    [] o.bad = 0 /\ x.opt = "E" -> IF x.arg.err = "" THEN [o EXCEPT !.patterns = @ \o x.arg.patterns] ELSE [o EXCEPT !.bad = 2]
    [] o.bad = 0 /\ x.opt \in {"v", "quiet", "a", "R", "V", "0", "absolute"} -> o
    [] OTHER -> [o EXCEPT !.bad = 64]
ParseCpioOptions(args, operands) ==
  LET o == Options(CpioOption, CpioDefaults, args)
      wrong == o.op = "" \/ (o.op = "p" /\ Len(operands) /= 1) \/ (o.op = "o" /\ operands /= <<>>)
  IN IF o.bad /= 0 THEN o
     ELSE IF wrong THEN [o EXCEPT !.bad = 2]
     ELSE IF o.op = "p" THEN [o EXCEPT !.dir = operands[1]]
     ELSE [o EXCEPT !.patterns = @ \o operands]
(* The names to pack or to pass come from the standard input.                *)
CmdCpio(fs, args, operands, names, stream) ==
  LET o == ParseCpioOptions(args, operands)
      c == CreateCpio(fs, o, names)
      r == CASE o.op = "o" -> [Reading(c.fs, c.stream) EXCEPT !.failed = c.failed]
             [] o.op = "p" -> PassCpio(fs, o, names)
             [] OTHER -> ReadCpio(fs, o, stream)
  IN IF o.bad /= 0 THEN [Reading(fs, <<>>) EXCEPT !.status = o.bad]
     ELSE [r EXCEPT !.status = IF r.failed \/ r.err /= "" THEN 2 ELSE 0]
=============================================================================
