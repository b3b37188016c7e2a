----------------------------- MODULE Permissions -----------------------------
(* chmod, chown and chgrp: modes computed clause by clause, and the walks      *)
(* that apply them to a tree.                                              *)
EXTENDS Files

Usage(fs) == [fs |-> fs, out |-> <<>>, status |-> 1]

(* ---------------------------------- modes --------------------------------- *)
Signs == {"+", "-", "="}
PermLetters == {"r", "w", "x", "X", "s", "t"}
Who == {"u", "g", "o"}
(* "a" stands for all three, whatever was named before it.                   *)
ParseChmodWho(clause) ==
  LET n == Span(clause, LAMBDA c : c \in Who \cup {"a"})
  IN [next |-> n + 1,
      who |-> FoldLeft(LAMBDA w, c : IF c = "a" THEN <<"u", "g", "o">> ELSE IF c \in Range(w) THEN w ELSE Append(w, c), <<>>, Take(clause, n))]
(* One sign with its letters, or one class to copy from, and the signs after. *)
RECURSIVE ParseSigns(_, _)
ParseSigns(who, rest) ==
  LET letters == Span(Tail(rest), LAMBDA c : c \in PermLetters)
      copies == letters = 0 /\ Len(rest) > 1 /\ rest[2] \in Who
      after == Skip(rest, IF copies THEN 2 ELSE 1 + letters)
      op == [who |-> IF who = <<>> THEN <<"u", "g", "o">> ELSE who, omitted |-> who = <<>>, op |-> Head(rest),
             perms |-> Range(SubSeq(rest, 2, 1 + letters)), from |-> IF copies THEN rest[2] ELSE ""]
      more == ParseSigns(who, after)
  IN IF rest = <<>> \/ Head(rest) \notin Signs THEN [ok |-> FALSE, ops |-> <<>>]
     ELSE IF after = <<>> THEN [ok |-> TRUE, ops |-> <<op>>]
     ELSE [more EXCEPT !.ops = <<op>> \o @]
ParseSymbolicMode(clauses) ==
  LET parsed == Mapped(clauses, LAMBDA c : LET w == ParseChmodWho(c) IN ParseSigns(w.who, Skip(c, w.next - 1)))
  IN [ok |-> \A k \in DOMAIN parsed : parsed[k].ok, ops |-> FlattenSeq(Mapped(parsed, LAMBDA p : p.ops))]

(* The umask narrows what no class was named for, and only r, w and x.        *)
ApplyChmodClause(bits, isDir, c, umask) ==
  LET asked == IF c.from /= "" THEN {b[2] : b \in {x \in Perm(bits) : x[1] = c.from}}
               ELSE (c.perms \cap {"r", "w", "x"})
                    \cup (IF "X" \in c.perms /\ (isDir \/ \E b \in bits : b[2] = "x") THEN {"x"} ELSE {})
      rwx(w) == {<<w, p>> : p \in {q \in asked : ~ (c.omitted /\ <<w, q>> \in umask)}}
      special(w) == IF c.from = "" /\ "s" \in c.perms /\ w \in {"u", "g"} THEN {<<w, "s">>} ELSE {}
      sticky == IF c.from = "" /\ "t" \in c.perms THEN {<<"o", "t">>} ELSE {}
      one(b, w) ==
        CASE c.op = "+" -> b \cup rwx(w) \cup special(w) \cup sticky
          [] c.op = "-" -> b \ (rwx(w) \cup special(w) \cup sticky)
          [] c.op = "=" -> {x \in b : x[1] /= w} \cup rwx(w) \cup special(w) \cup (IF w = "o" THEN sticky ELSE {})
  IN FoldLeft(one, bits, c.who)
Compute(how, umask, old, isDir) ==
  IF how.kind = "mode" THEN how.mode
  ELSE FoldLeft(LAMBDA b, c : ApplyChmodClause(b, isDir, c, umask), old, how.ops)

(* ---------------------------------- chmod --------------------------------- *)
(* A report is a path with the mode it had and the one it has.               *)
ChmodReport(o, path, old, new) ==
  IF o.v \/ (o.c /\ old /= new) THEN <<[path |-> path, old |-> old, new |-> new]>> ELSE <<>>
Told(r) == [r EXCEPT !.status = 1]
ChmodOne(how, o, r, path) ==
  LET s == Stat(r.fs, path, FALSE)
      old == r.fs.node[s.ino].mode
      new == Compute(how, r.fs.umask, old, s.kind = "dir")
      c == Chmod(r.fs, path, new)
  IN IF s.err /= "" THEN Told(r)
     ELSE IF s.kind = "link" THEN r
     ELSE IF c.err /= "" THEN Told(r)
     ELSE [r EXCEPT !.fs = c.fs, !.out = @ \o ChmodReport(o, path, old, new)]
ChmodApply(how, o, fs, paths) == FoldLeft(LAMBDA r, p : ChmodOne(how, o, r, p), [fs |-> fs, out |-> <<>>, status |-> 0], paths)

(* The walk: a directory before what is in it, opened up if it cannot be read, *)
(* and its names in their order.                                           *)
RECURSIVE Visit(_, _)
Visit(r, path) ==
  LET s == Stat(r.fs, path, FALSE)
      mode == r.fs.node[s.ino].mode
      step == [path |-> path, mode |-> mode, isDir |-> s.kind = "dir"]
      first == ReadNames(r.fs, path)
      opened == Chmod(r.fs, path, mode \cup {<<"u", p>> : p \in {"r", "w", "x"}})
      again == first.err \in {"EACCES", "EPERM"} /\ opened.err = ""
      names == IF again THEN ReadNames(opened.fs, path) ELSE first
      here == [r EXCEPT !.fs = IF again THEN opened.fs ELSE @, !.steps = Append(@, step)]
  IN IF s.err /= "" THEN Told(r)
     ELSE IF s.kind = "link" THEN r
     ELSE IF s.kind /= "dir" THEN here
     ELSE IF names.err /= "" THEN Told(here)
     ELSE FoldLeft(LAMBDA v, n : Visit(v, Join(path, n)), here, SelectSeq(NameOrder, LAMBDA n : n \in names.names))
(* The modes are set from the last step to the first, and reported forwards.  *)
Apply(how, o, r) ==
  LET new(k) == Compute(how, r.fs.umask, r.steps[k].mode, r.steps[k].isDir)
      one(x, k) ==
        LET c == Chmod(x.fs, r.steps[k].path, new(k))
        IN IF c.err /= "" THEN Told(x) ELSE [x EXCEPT !.fs = c.fs, !.done = @ \cup {k}]
      end == FoldLeft(one, [fs |-> r.fs, done |-> {}, status |-> r.status], Reverse(Between(1, Len(r.steps))))
      reports == FlattenSeq(Mapped(InOrder(end.done, 1, Len(r.steps)), LAMBDA k : ChmodReport(o, r.steps[k].path, r.steps[k].mode, new(k))))
  IN [fs |-> end.fs, out |-> r.out \o reports, status |-> end.status, steps |-> <<>>]
ChmodRecursive(how, o, fs, roots) ==
  FoldLeft(LAMBDA r, p : Apply(how, o, Visit(r, p)), [fs |-> fs, out |-> <<>>, status |-> 0, steps |-> <<>>], roots)

ChmodDefaults == [R |-> FALSE, v |-> FALSE, c |-> FALSE, f |-> FALSE, preserve |-> FALSE, reference |-> <<>>, referenced |-> FALSE, bad |-> FALSE]
ChmodOption(o, x) ==
  CASE x.opt \in {"R", "v", "c", "f"} -> [o EXCEPT ![x.opt] = TRUE]
    [] x.opt = "reference" -> [o EXCEPT !.reference = x.arg, !.referenced = TRUE]
    [] x.opt \in {"preserve-root", "no-preserve-root"} -> [o EXCEPT !.preserve = (x.opt = "preserve-root")]
    [] OTHER -> [o EXCEPT !.bad = TRUE]
(* A mode is [kind, mode] if it is a number, a sequence of clauses if not.    *)
HowOf(fs, o, spec) ==
  LET s == Stat(fs, o.reference, TRUE)
      symbolic == ParseSymbolicMode(spec.clauses)
  IN IF o.referenced THEN [ok |-> s.err = "", kind |-> "mode", mode |-> IF s.err = "" THEN fs.node[s.ino].mode ELSE {}]
     ELSE IF spec.kind = "mode" THEN [ok |-> TRUE, kind |-> "mode", mode |-> spec.mode]
     ELSE [ok |-> symbolic.ok, kind |-> "symbolic", ops |-> symbolic.ops]
RefusesRoot(o, files) == o.R /\ o.preserve /\ \E k \in DOMAIN files : Clean(files[k]) = <<>>
CmdChmod(fs, args, spec, files) ==
  LET o == Options(ChmodOption, ChmodDefaults, args)
      how == HowOf(fs, o, spec)
  IN IF o.bad \/ files = <<>> \/ ~ how.ok \/ RefusesRoot(o, files) THEN Usage(fs)
     ELSE IF o.R THEN ChmodRecursive(how, o, fs, files) ELSE ChmodApply(how, o, fs, files)

(* ----------------------------- chown and chgrp ---------------------------- *)
(* Users: the id a name stands for and its group; a number needs no user.     *)
Users == [u1 |-> [uid |-> 1, gid |-> 11], u2 |-> [uid |-> 2, gid |-> 12]]
Groups == [g11 |-> 11, g12 |-> 12]
NoId == -1
ResolveUser(v) ==
  IF v.number THEN [ok |-> TRUE, id |-> v.id] ELSE [ok |-> v.name \in DOMAIN Users, id |-> IF v.name \in DOMAIN Users THEN Users[v.name].uid ELSE NoId]
ResolveGroup(v) ==
  IF v.number THEN [ok |-> TRUE, id |-> v.id] ELSE [ok |-> v.name \in DOMAIN Groups, id |-> IF v.name \in DOMAIN Groups THEN Groups[v.name] ELSE NoId]
(* The user a name or a number is of, which a number need not have.           *)
LookupUser(v) ==
  LET named == {n \in DOMAIN Users : IF v.number THEN Users[n].uid = v.id ELSE n = v.name}
  IN [ok |-> named /= {}, gid |-> IF named = {} THEN NoId ELSE Users[CHOOSE n \in named : TRUE].gid]
(* USER, USER:GROUP, :GROUP, or "USER:" for the user's own group; a spec gives *)
(* its user and its group, <<>> where there is none, and whether it had ":".  *)
Part(p, resolve(_)) == IF p = <<>> THEN [ok |-> TRUE, id |-> NoId] ELSE resolve(p[1])
ParseOwnerSpec(spec) ==
  LET u == Part(spec.user, ResolveUser)
      g == IF spec.colon /\ spec.group = <<>> THEN LET l == LookupUser(spec.user[1]) IN [ok |-> l.ok, id |-> l.gid]
           ELSE Part(spec.group, ResolveGroup)
  IN IF spec.user = <<>> /\ spec.group = <<>> THEN [ok |-> FALSE, uid |-> NoId, gid |-> NoId]
     ELSE [ok |-> u.ok /\ g.ok, uid |-> u.id, gid |-> g.id]
ParseOwnerCondition(spec) ==
  LET u == Part(spec.user, ResolveUser)
      g == Part(spec.group, ResolveGroup)
  IN [ok |-> u.ok /\ g.ok, uid |-> u.id, gid |-> g.id]

OwnerDefaults == [R |-> FALSE, c |-> FALSE, f |-> FALSE, v |-> FALSE, h |-> FALSE, deref |-> "P", preserve |-> FALSE,
                  from |-> [uid |-> NoId, gid |-> NoId], uid |-> -2, gid |-> NoId, bad |-> FALSE]
OwnerOption(prog, fs, o, x) ==
  CASE x.opt \in {"R", "c", "f", "v", "h"} -> [o EXCEPT ![x.opt] = TRUE]
    [] x.opt = "dereference" -> [o EXCEPT !.h = FALSE]
    [] x.opt \in {"H", "L", "P"} -> [o EXCEPT !.deref = x.opt]
    [] x.opt \in {"preserve-root", "no-preserve-root"} -> [o EXCEPT !.preserve = (x.opt = "preserve-root")]
    [] x.opt = "from" ->
         LET c == ParseOwnerCondition(x.arg) IN [o EXCEPT !.from = [uid |-> c.uid, gid |-> c.gid], !.bad = @ \/ ~ c.ok]
    [] x.opt = "reference" ->
         LET s == Stat(fs, x.arg, TRUE)
         IN IF s.err /= "" THEN [o EXCEPT !.bad = TRUE]
            ELSE [o EXCEPT !.uid = IF prog = "chgrp" THEN NoId ELSE fs.node[s.ino].uid, !.gid = fs.node[s.ino].gid]
    [] OTHER -> [o EXCEPT !.bad = TRUE]
ParseOwnerOptions(prog, fs, args) == Options(LAMBDA o, x : IF o.bad THEN o ELSE OwnerOption(prog, fs, o, x), OwnerDefaults, args)

(* Without -R every link is followed, with it those that -H or -L name.       *)
Follows(o, s, commandLine) ==
  s.kind = "link" /\ ~ o.h /\ (o.R => o.deref = "L" \/ (o.deref = "H" /\ commandLine))
Announce(o, path, n, uid, gid) ==
  IF o.v \/ (o.c /\ (n.uid /= uid \/ n.gid /= gid)) THEN <<[path |-> path, was |-> <<n.uid, n.gid>>, is |-> <<uid, gid>>]>> ELSE <<>>
Change(o, r, path, ino, follow) ==
  LET n == r.node[ino]   \* as it was when the walk reached it
      uid == IF o.uid >= 0 THEN o.uid ELSE n.uid
      gid == IF o.gid >= 0 THEN o.gid ELSE n.gid
      c == Chown(r.fs, path, o.uid, o.gid, follow)
      excepted == (o.from.uid >= 0 /\ n.uid /= o.from.uid) \/ (o.from.gid >= 0 /\ n.gid /= o.from.gid)
  IN IF excepted THEN [r EXCEPT !.out = @ \o Announce(o, path, n, n.uid, n.gid)]
     ELSE IF uid = n.uid /\ gid = n.gid THEN [r EXCEPT !.out = @ \o Announce(o, path, n, uid, gid)]
     ELSE IF c.err /= "" THEN Told(r)
     ELSE [r EXCEPT !.fs = c.fs, !.out = @ \o Announce(o, path, n, uid, gid)]
(* What is in a directory comes before the directory itself, in the order the *)
(* kernel gives, here that of the names.                                   *)
RECURSIVE WalkOwner(_, _, _, _)
WalkOwner(o, r, path, commandLine) ==
  LET l == Stat(r.fs, path, FALSE)
      follow == Follows(o, l, commandLine)
      s == IF follow THEN Stat(r.fs, path, TRUE) ELSE l
      names == ReadNames(r.fs, path)
      told == IF names.err /= "" THEN Told(r) ELSE r
      inside == FoldLeft(LAMBDA x, n : WalkOwner(o, x, Join(path, n), FALSE), told, SelectSeq(NameOrder, LAMBDA n : n \in names.names))
      after == IF s.kind = "dir" /\ o.R THEN inside ELSE r
  IN IF l.err /= "" \/ s.err /= "" THEN Told(r)
     ELSE [Change(o, [fs |-> after.fs, out |-> after.out, status |-> after.status, node |-> r.fs.node], path, s.ino, follow)
             EXCEPT !.node = <<>>]
ApplyOwner(o, fs, paths) ==
  LET one(r, p) == IF RefusesRoot(o, <<p>>) THEN Told(r) ELSE WalkOwner(o, r, p, TRUE)
  IN FoldLeft(one, [fs |-> fs, out |-> <<>>, status |-> 0, node |-> <<>>], paths)
CmdChown(fs, args, spec, files) ==
  LET o == ParseOwnerOptions("chown", fs, args)
      p == ParseOwnerSpec(spec)
  IN IF o.bad \/ files = <<>> \/ (o.uid = -2 /\ ~ p.ok) THEN Usage(fs)
     ELSE ApplyOwner(IF o.uid = -2 THEN [o EXCEPT !.uid = p.uid, !.gid = p.gid] ELSE o, fs, files)
CmdChgrp(fs, args, group, files) ==
  LET o == ParseOwnerOptions("chgrp", fs, args)
      g == ResolveGroup(group)
  IN IF o.bad \/ files = <<>> \/ (o.uid = -2 /\ ~ g.ok) THEN Usage(fs)
     ELSE ApplyOwner([o EXCEPT !.gid = IF o.uid = -2 THEN g.id ELSE @, !.uid = NoId], fs, files)
=============================================================================
