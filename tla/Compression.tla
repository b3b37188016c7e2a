----------------------------- MODULE Compression -----------------------------
(* gzip and gunzip, and the one command behind bzip2, xz and zstd.  A file's   *)
(* data is its layers, the outermost first and the plain contents last:       *)
(* [form, name, mtime, bad], where bad data fails its check when it is read.  *)
(* What a command that failed had already written out is left out.           *)
EXTENDS Archives

(* ---------------------------------- names --------------------------------- *)
HasSuffix(name, suffix) == Len(name) >= Len(suffix) /\ SubSeq(name, Len(name) - Len(suffix) + 1, Len(name)) = suffix
Without1(name, suffix) == SubSeq(name, 1, Len(name) - Len(suffix))
KnownSuffixes == <<".gz", ".z", "-gz", "-z", "_z">>
(* The suffix in force, then the known ones, then those of packed archives.   *)
GzipStripSuffix(name, suffix) ==
  LET known == {k \in DOMAIN KnownSuffixes : HasSuffix(name, KnownSuffixes[k])}
      packed == {p \in {".tgz", ".taz"} : HasSuffix(name, p)}
  IN IF suffix /= "" /\ HasSuffix(name, suffix) THEN [ok |-> TRUE, name |-> Without1(name, suffix)]
     ELSE IF known /= {} THEN [ok |-> TRUE, name |-> Without1(name, KnownSuffixes[Least(known)])]
     ELSE IF packed /= {} THEN [ok |-> TRUE, name |-> Without1(name, CHOOSE p \in packed : TRUE) \o ".tar"]
     ELSE [ok |-> FALSE, name |-> name]
CodecSuffix(codec) == CASE codec = "bzip2" -> ".bz2" [] codec = "xz" -> ".xz" [] codec = "zstd" -> ".zst"
InputNames(codec) ==
  CASE codec = "bzip2" -> (".bz2" :> "") @@ (".tbz" :> ".tar") @@ (".tbz2" :> ".tar")
    [] codec = "xz" -> ".xz" :> ""
    [] codec = "zstd" -> (".zst" :> "") @@ (".zstd" :> "")
(* The longest suffix the name has.                                         *)
CodecOutputName(codec, name) ==
  LET has == {s \in DOMAIN InputNames(codec) : HasSuffix(name, s)}
      best == CHOOSE s \in has : \A t \in has : Len(t) <= Len(s)
  IN IF has = {} THEN [ok |-> FALSE, name |-> name] ELSE [ok |-> TRUE, name |-> Without1(name, best) \o InputNames(codec)[best]]

(* --------------------------------- contents ------------------------------- *)
Layer(form, name, mtime) == <<[form |-> form, name |-> name, mtime |-> mtime, bad |-> FALSE]>>
IsForm(data, form) == data /= <<>> /\ Head(data).form = form
(* What reading the data to its end gives.                                   *)
Expand(data, form) ==
  IF ~ IsForm(data, form) THEN [err |-> "FORMAT", data |-> data]
  ELSE IF Head(data).bad THEN [err |-> "CRC", data |-> data]
  ELSE [err |-> "", data |-> Tail(data)]
(* Reading a directory fails once it is open.                                *)
ReadFile(fs, path) ==
  LET s == OpenRead(fs, path)
  IN IF s.err /= "" THEN [err |-> s.err, data |-> <<>>]
     ELSE IF s.kind = "dir" THEN [err |-> "EISDIR", data |-> <<>>] ELSE [err |-> "", data |-> fs.node[s.ino].data]
(* openInput: "-" is standard input, which can be read once.                 *)
Dash == <<"-">>
ReadAll(fs, path) == IF path = Dash THEN [err |-> "", data |-> fs.stdin] ELSE ReadFile(fs, path)
Consumed(path, st) == IF path = Dash THEN [st EXCEPT !.fs.stdin = <<>>] ELSE st
OrStdin(files) == IF files = <<>> THEN <<Dash>> ELSE files
InfoOf(fs, path) == fs.node[Stat(fs, path, TRUE).ino]

(* ----------------------------------- gzip --------------------------------- *)
GzipDefaults == [decompress |-> FALSE, stdout |-> FALSE, keep |-> FALSE, force |-> FALSE, test |-> FALSE, list |-> FALSE, quiet |-> FALSE,
                 recursive |-> FALSE, noName |-> FALSE, useName |-> FALSE, suffix |-> ".gz", bad |-> FALSE]
GzipOption(o, x) ==
  CASE x.opt = "d" -> [o EXCEPT !.decompress = TRUE]
    [] x.opt = "c" -> [o EXCEPT !.stdout = TRUE]
    [] x.opt = "k" -> [o EXCEPT !.keep = TRUE]
    [] x.opt = "f" -> [o EXCEPT !.force = TRUE]
    [] x.opt = "t" -> [o EXCEPT !.test = TRUE, !.decompress = TRUE]
    [] x.opt = "l" -> [o EXCEPT !.list = TRUE]
    [] x.opt = "q" -> [o EXCEPT !.quiet = TRUE]
    [] x.opt = "r" -> [o EXCEPT !.recursive = TRUE]
    [] x.opt \in {"n", "N"} -> [o EXCEPT !.noName = (x.opt = "n"), !.useName = (x.opt = "N")]
    [] x.opt = "S" -> [o EXCEPT !.suffix = x.arg]
    [] x.opt \in {"v", "1", "9"} -> o
    [] OTHER -> [o EXCEPT !.bad = TRUE]
(* The status only grows: 1 for what failed, 2 for a warning.               *)
Fail(st, status) == [st EXCEPT !.status = IF status > @ THEN status ELSE @]
FailFormat(st) == Fail(st, 1)
(* -l: the name the member would get, or with -N the one it carries.          *)
ListedName(o, path, data) ==
  LET s == GzipStripSuffix(Base(path), o.suffix) IN IF o.useName /\ Head(data).name /= "" THEN <<Head(data).name>> ELSE Append(Front(path), s.name)
ListOne(o, st, path) ==
  LET r == ReadFile(st.fs, path)
  IN IF r.err /= "" \/ ~ IsForm(r.data, "gz") THEN Fail(st, 1) ELSE [st EXCEPT !.out = Append(@, ListedName(o, path, r.data))]
TestOne(st, path) ==
  LET r == ReadAll(st.fs, path)
  IN Consumed(path, IF r.err /= "" \/ Expand(r.data, "gz").err /= "" THEN Fail(st, 1) ELSE st)
(* The name the output gets: the suffix off or on, or with -N the name the     *)
(* member carries; a name that has the suffix, or no known one, is warned of. *)
OutputName(o, path, data) ==
  LET s == GzipStripSuffix(Base(path), o.suffix)
      carried == o.useName /\ IsForm(data, "gz") /\ Head(data).name /= ""
  IN IF o.decompress THEN [ok |-> s.ok, path |-> Append(Front(path), IF carried THEN Head(data).name ELSE s.name)]
     ELSE [ok |-> ~ HasSuffix(Base(path), o.suffix), path |-> Append(Front(path), Base(path) \o o.suffix)]
Transformed(o, path, info, data) ==
  IF o.decompress THEN Expand(data, "gz")
  ELSE [err |-> "", data |-> (IF o.noName \/ path = Dash THEN Layer("gz", "", 0) ELSE Layer("gz", Base(path), info.mtime)) \o data]
(* Everything goes to a temporary file that takes the input's mode and time,  *)
(* then the output's name; the input goes last.                              *)
TransformOne(o, st, path) ==
  LET r == ReadAll(st.fs, path)
      stdout == o.stdout \/ path = Dash
      info == InfoOf(st.fs, path)
      output == OutputName(o, path, r.data)
      there == Stat(st.fs, output.path, FALSE)
      t == Transformed(o, path, info, r.data)
      carried == o.decompress /\ o.useName
      mtime == IF ~ carried THEN info.mtime ELSE IF Head(r.data).mtime /= 0 THEN Head(r.data).mtime ELSE 5
      put == Install(st.fs, output.path, [Blank EXCEPT !.data = t.data, !.mode = Perm(info.mode), !.mtime = mtime])
      gone == RemoveName(put.fs, path, TRUE, TRUE)
  IN IF r.err \notin {"", "EISDIR"} THEN Fail(st, 1)
     ELSE IF ~ stdout /\ ~ output.ok THEN Fail(st, 2)
     ELSE IF ~ stdout /\ there.err = "" /\ ~ o.force THEN Fail(st, 2)
     ELSE IF ~ stdout /\ there.err \notin {"", "ENOENT"} THEN Fail(st, 1)
     ELSE IF r.err /= "" \/ t.err /= "" THEN Fail(st, 1)
     ELSE IF stdout THEN [st EXCEPT !.out = Append(@, t.data)]
     ELSE IF put.err /= "" THEN Fail(st, 1)
     ELSE IF o.keep THEN Went(st, put)
     ELSE IF gone.err /= "" THEN Fail(Went(st, put), 1)
     ELSE Went(st, gone)
RECURSIVE Handle(_, _, _)
Handle(o, st, path) ==
  LET names == InDirectory(st.fs, path)
  IN IF path /= Dash /\ o.recursive /\ Stat(st.fs, path, FALSE).kind = "dir" THEN
          IF ReadNames(st.fs, path).err /= "" THEN Fail(st, 1) ELSE FoldLeft(LAMBDA s, c : Handle(o, s, Append(path, c)), st, names)
     ELSE IF o.list THEN ListOne(o, st, path)
     ELSE IF o.test THEN TestOne(st, path)
     ELSE Consumed(path, TransformOne(o, st, path))
CmdGzip(fs, args, files) ==
  LET o == Options(GzipOption, GzipDefaults, args)
  IN IF o.bad THEN [Session(fs) EXCEPT !.status = 1] ELSE FoldLeft(LAMBDA st, f : Handle([o EXCEPT !.stdout = @ \/ files = <<>>], st, f), Session(fs), OrStdin(files))
CmdGunzip(fs, args, files) == CmdGzip(fs, <<[opt |-> "d", arg |-> 0]>> \o args, files)

(* The saving in tenths of a percent, rounded away from zero at the half;      *)
(* overhead is what of a member is not deflated data: its header and trailer.  *)
Quotient(a, b) == IF a < 0 THEN -((-a) \div b) ELSE a \div b
GzipRatio(compressed, uncompressed, overhead) ==
  LET payload == IF compressed > overhead THEN compressed - overhead ELSE 0
      saved == (uncompressed - payload) * 1000
      half == uncompressed \div 2
  IN IF uncompressed = 0 THEN 0 ELSE Quotient(IF saved < 0 THEN saved - half ELSE saved + half, uncompressed)
GzipOverhead(header) ==
  18 + (IF header.extra = -1 THEN 0 ELSE 2 + header.extra) + (IF header.name = -1 THEN 0 ELSE header.name + 1)
     + (IF header.comment = -1 THEN 0 ELSE header.comment + 1) + (IF header.hcrc THEN 2 ELSE 0)

(* --------------------------- bzip2, xz and zstd --------------------------- *)
CodecDefaults(decompress) == [decompress |-> decompress, stdout |-> FALSE, keep |-> FALSE, force |-> FALSE, test |-> FALSE, list |-> FALSE, output |-> <<>>, bad |-> FALSE]
CodecOption(o, x) ==
  CASE x.opt = "c" -> [o EXCEPT !.stdout = TRUE]
    [] x.opt \in {"d", "z"} -> [o EXCEPT !.decompress = (x.opt = "d")]
    [] x.opt = "f" -> [o EXCEPT !.force = TRUE]
    [] x.opt \in {"k", "rm"} -> [o EXCEPT !.keep = (x.opt = "k")]
    [] x.opt = "l" -> [o EXCEPT !.list = TRUE]
    [] x.opt = "t" -> [o EXCEPT !.test = TRUE, !.decompress = TRUE]
    [] x.opt = "o" -> [o EXCEPT !.output = x.arg]
    [] x.opt \in {"q", "v", "9", "T0"} -> o
    [] OTHER -> [o EXCEPT !.bad = TRUE]
CodecName(codec, o, path) ==
  IF o.output /= <<>> THEN [ok |-> TRUE, path |-> o.output]
  ELSE IF o.decompress THEN LET c == CodecOutputName(codec, Base(path)) IN [ok |-> c.ok, path |-> Append(Front(path), c.name)]
  ELSE [ok |-> TRUE, path |-> Append(Front(path), Base(path) \o CodecSuffix(codec))]
OpenCodecOutput(fs, path, force) ==
  LET s == Stat(fs, path, FALSE)
  IN IF s.err = "" THEN IF force THEN "" ELSE "EEXIST" ELSE IF s.err = "ENOENT" THEN "" ELSE s.err
(* -o gives every file the same output, whichever it may be; "-" is standard  *)
(* output there too, and keeps the input.                                    *)
TransformCodecFile(codec, o, st, path) ==
  LET r == ReadAll(st.fs, path)
      stdout == IF o.output = <<>> THEN o.stdout \/ path = Dash ELSE o.output = Dash
      name == CodecName(codec, o, path)
      t == IF o.decompress THEN Expand(r.data, codec) ELSE [err |-> "", data |-> Layer(codec, "", 0) \o r.data]
      put == Install(st.fs, name.path, [Blank EXCEPT !.data = t.data, !.mode = {"u"} \X {"r", "w"}])
      gone == RemoveName(put.fs, path, TRUE, TRUE)
  IN IF r.err /= "" /\ r.err /= "EISDIR" THEN Fail(st, 1)
     ELSE IF o.test THEN IF r.err = "" /\ Expand(r.data, codec).err = "" THEN st ELSE Fail(st, 1)
     ELSE IF ~ stdout /\ (~ name.ok \/ OpenCodecOutput(st.fs, name.path, o.force) /= "") THEN Fail(st, 1)
     ELSE IF r.err /= "" \/ t.err /= "" THEN Fail(st, 1)
     ELSE IF stdout THEN [st EXCEPT !.out = Append(@, t.data)]
     ELSE IF put.err /= "" THEN Fail(st, 1)
     ELSE IF o.keep \/ path = Dash THEN Went(st, put)
     ELSE IF gone.err /= "" THEN Fail(Went(st, put), 1) ELSE Went(st, gone)
CmdCodec(codec, fs, args, files, decompress) ==
  LET o == Options(CodecOption, CodecDefaults(decompress), args)
      listOne(st, f) == IF f = Dash THEN st ELSE IF Stat(st.fs, f, TRUE).err = "" THEN [st EXCEPT !.out = Append(@, f)] ELSE Fail(st, 1)
  IN IF o.bad THEN [Session(fs) EXCEPT !.status = 1]
     ELSE IF o.list THEN FoldLeft(listOne, Session(fs), files)
     ELSE FoldLeft(LAMBDA st, f : Consumed(f, TransformCodecFile(codec, o, st, f)), Session(fs), OrStdin(files))
=============================================================================
