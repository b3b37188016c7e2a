---------------------------- MODULE LoginSession ----------------------------
(* getty (getty_linux.go) and login (login_linux.go) on one line, started   *)
(* again by init whenever they end, while an administrator rewrites passwd *)
(* and shadow one file at a time.                                          *)
EXTENDS Naturals, FiniteSets

CONSTANTS
  User,          \* the names one may type; "root" has uid 0
  Secret,        \* passwords; "" is a line left empty
  GettyOptions,  \* [timeout, skip, fails: BOOLEAN, autologin: a name or "none"]
  LoginOptions,  \* [f, user]: the command lines init starts login with itself
  PasswdEntries, ShadowEntries, FirstShadow,  \* what is written to them, and shadow at first
  MaxChanges,    \* bound: the rewrites of passwd or shadow
  MaxSessions    \* bound: the times init starts getty

ASSUME LoginAssumption ==
  /\ \A o \in GettyOptions : o.autologin \in User \cup {"none"}
  /\ LoginOptions \subseteq [f : BOOLEAN, user : User \cup {"none"}]

VARIABLES
  stage,      \* what the process on the line is about to do
  getty,      \* getty's options
  argv,       \* login's command line, the user "none" when there is no operand
  name,       \* the user name of this attempt
  tries,      \* login's attempts
  echo,       \* the ECHO flag of the line
  prior,      \* what it was before the password was asked for
  entry,      \* the passwd entry this attempt read
  typed,      \* the password of this attempt
  shell,      \* the account a shell runs as, or "none"
  passwd, shadow,   \* the two files
  past,       \* every version of a name's pair of entries since the password was typed
  nologin,    \* /etc/nologin is there
  changes, sessions,
  cut         \* a login was killed while it read a password

files == <<passwd, shadow, nologin, changes>>
args == <<getty, argv, sessions>>
attempt == <<name, tries, entry, typed, past>>
tty == <<echo, prior, cut>>
line == <<stage, args, attempt, tty, shell>>

NoEntry == [stored |-> "absent"]
(* What can be in the password field, and what verifyLoginPassword makes   *)
(* of it: "?" is a hash of a kind it does not compute.                     *)
Stored == Secret \cup {"!", "?"}
Verify(secret, stored) ==
  CASE stored = "" -> IF secret = "" THEN "valid" ELSE "wrong"
    [] stored = "!" -> "wrong"
    [] stored = "?" -> "unsupported"
    [] stored \notin {"", "!", "?"} -> IF secret = stored THEN "valid" ELSE "wrong"

PasswdEntry == [stored : Stored \cup {"x"}, shell : {"ok", "relative", "missing"}]
ShadowEntry == [stored : Stored, expired : BOOLEAN]

Snapshot == {[user |-> u, p |-> passwd[u], s |-> shadow[u]] : u \in User}

Goes(s) == stage' = s

(* ------------------------------- getty ---------------------------------- *)
(* init starts getty, or login itself; getty's line may not open, its baud *)
(* rate may be unknown.                                                    *)
Respawned ==
  /\ stage = "idle" /\ sessions < MaxSessions
  /\ sessions' = sessions + 1
  /\ tries' = 0 /\ name' = "none" /\ entry' = NoEntry /\ typed' = "" /\ past' = {}
  /\ UNCHANGED <<tty, shell, files>>

GettyStarts ==
  /\ Respawned
  /\ getty' \in GettyOptions
  /\ argv' = [f |-> FALSE, user |-> getty'.autologin]
  /\ stage' \in {"getty", "idle"}

LoginRespawned ==
  /\ Respawned
  /\ argv' \in LoginOptions /\ Goes("login")
  /\ UNCHANGED getty

(* autologin gives a name, --skip-login asks for none.                     *)
GettyName ==
  /\ stage = "getty"
  /\ Goes(IF getty.autologin /= "none" \/ getty.skip THEN "exec" ELSE "name")
  /\ UNCHANGED <<args, attempt, tty, shell, files>>

(* gettyReadLoginName: a line, perhaps empty, or the end of the input.     *)
NameRead ==
  /\ stage = "name"
  /\ \/ \E u \in User \cup {"none"} : argv' = [argv EXCEPT !.user = u] /\ Goes("exec")
     \/ UNCHANGED argv /\ Goes("idle")
  /\ UNCHANGED <<getty, sessions, attempt, tty, shell, files>>

NameTimeout ==
  /\ stage = "name" /\ getty.timeout
  /\ Goes("idle")
  /\ UNCHANGED <<args, attempt, tty, shell, files>>

(* chroot and chdir of --chroot, and LookPath of the login program, may    *)
(* fail; exec.                                                             *)
GettyExec ==
  /\ stage = "exec"
  /\ Goes(IF getty.fails THEN "idle" ELSE "login")
  /\ UNCHANGED <<args, attempt, tty, shell, files>>

(* -------------------------------- login ---------------------------------- *)
(* parseLoginAccount: an entry whose shell is not absolute is an error.    *)
Usable(u) == passwd[u] /= NoEntry /\ passwd[u].shell /= "relative"

(* -f with an account that is there needs no password; without one login   *)
(* falls through to asking for it.                                         *)
LoginStarts ==
  /\ stage = "login"
  /\ IF argv.f /\ argv.user /= "none" /\ Usable(argv.user)
       THEN entry' = passwd[argv.user] /\ name' = argv.user /\ Goes("begin")
       ELSE UNCHANGED <<entry, name>> /\ Goes("ask")
  /\ UNCHANGED <<args, tries, typed, past, tty, shell, files>>

(* A name that is typed is asked for again in the next attempt, one from   *)
(* the command line is not.  Input that is no terminal keeps its ECHO.     *)
AskName ==
  /\ stage = "ask" /\ tries < 3
  /\ IF argv.user = "none" THEN name' \in User ELSE name' = argv.user
  /\ prior' = echo /\ echo' \in {FALSE, echo} /\ Goes("password")
  /\ UNCHANGED <<args, tries, entry, typed, past, cut, shell, files>>

LoginGivesUp ==
  /\ stage = "ask" /\ (tries = 3 \/ argv.user = "none")
  /\ Goes("idle")
  /\ UNCHANGED <<args, attempt, tty, shell, files>>

(* readLoginPassword restores the line however the read ends; a line too   *)
(* long or the end of the input ends login.                                *)
PasswordRead ==
  /\ stage = "password"
  /\ echo' = prior
  /\ \/ \E s \in Secret : typed' = s /\ past' = Snapshot /\ Goes("passwd")
     \/ UNCHANGED <<typed, past>> /\ Goes("idle")
  /\ UNCHANGED <<args, name, tries, entry, prior, cut, shell, files>>

(* clearBytes: nothing of a refused attempt is kept but the count.         *)
Refuse ==
  /\ Goes("ask")
  /\ tries' = tries + 1 /\ entry' = NoEntry /\ typed' = "" /\ past' = {}
Proceed(s) == Goes(s) /\ UNCHANGED <<tries, typed, past>>
JudgeExpiredToo(stored, expired, e) ==
  IF Verify(typed, stored) = "valid" THEN Proceed("begin") /\ entry' = e ELSE Refuse
Judge(stored, expired, e) ==
  IF Verify(typed, stored) = "valid" /\ ~ expired THEN Proceed("begin") /\ entry' = e
  ELSE Refuse

(* authenticateLoginFiles reads passwd, then shadow when the field is "x";  *)
(* an entry that is not valid, or missing from shadow, is an error and no  *)
(* refusal.                                                                *)
ReadPasswd ==
  /\ stage = "passwd"
  /\ LET e == passwd[name]
     IN CASE e = NoEntry -> Refuse
          [] e /= NoEntry /\ e.shell = "relative" -> Proceed("idle") /\ entry' = e
          [] Usable(name) /\ e.stored = "x" -> Proceed("shadow") /\ entry' = e
          [] Usable(name) /\ e.stored /= "x" -> Judge(e.stored, FALSE, e)
  /\ UNCHANGED <<args, name, tty, shell, files>>

ReadShadow ==
  /\ stage = "shadow"
  /\ LET e == shadow[name]
     IN IF e = NoEntry THEN Proceed("idle") /\ UNCHANGED entry
        ELSE Judge(e.stored, e.expired, entry)
  /\ UNCHANGED <<args, name, tty, shell, files>>

(* beginLoginSession: /etc/nologin keeps out all but root; then groups,    *)
(* the owner of the line, the ids, and exec of the shell, each of which    *)
(* may fail and ends login.                                                *)
BeginSession ==
  /\ stage = "begin"
  /\ \/ /\ ~ (nologin /\ name /= "root") /\ entry.shell /= "missing"
        /\ Goes("shell") /\ shell' = name
     \/ Goes("idle") /\ UNCHANGED shell
  /\ UNCHANGED <<args, attempt, tty, files>>

ShellEnds ==
  /\ stage = "shell"
  /\ Goes("idle") /\ shell' = "none"
  /\ UNCHANGED <<args, attempt, tty, files>>

(* ^C on the line, a hangup: the defer that restores the line does not run. *)
Interrupted ==
  /\ stage \in {"name", "ask", "password", "passwd", "shadow"}
  /\ Goes("idle") /\ cut' = (cut \/ stage = "password")
  /\ UNCHANGED <<args, attempt, echo, prior, shell, files>>

(* passwd -l, userdel, chage and the like, each file in a step of its own. *)
Administer ==
  /\ changes < MaxChanges /\ changes' = changes + 1
  /\ \E u \in User :
       \/ \E e \in PasswdEntries :
            passwd' = [passwd EXCEPT ![u] = e] /\ UNCHANGED <<shadow, nologin>>
       \/ \E e \in ShadowEntries :
            shadow' = [shadow EXCEPT ![u] = e] /\ UNCHANGED <<passwd, nologin>>
       \/ nologin' = ~ nologin /\ UNCHANGED <<passwd, shadow>>
  /\ past' = IF past = {} THEN {} ELSE past \cup Snapshot'
  /\ UNCHANGED <<stage, args, name, tries, entry, typed, tty, shell>>

LoginInit ==
  /\ stage = "idle" /\ getty = (CHOOSE o \in GettyOptions : TRUE) /\ argv = [f |-> FALSE, user |-> "none"]
  /\ name = "none" /\ tries = 0 /\ echo = TRUE /\ prior = TRUE
  /\ entry = NoEntry /\ typed = "" /\ shell = "none"
  /\ passwd \in [User -> {[stored |-> "x", shell |-> "ok"]}]
  /\ shadow = [u \in User |-> FirstShadow[u]]
  /\ past = {} /\ nologin = FALSE /\ changes = 0 /\ sessions = 0 /\ cut = FALSE

LoginStep ==
  \/ GettyStarts \/ LoginRespawned \/ GettyName \/ NameTimeout \/ GettyExec
  \/ LoginStarts \/ ReadPasswd \/ ReadShadow \/ BeginSession
Typing == NameRead \/ AskName \/ LoginGivesUp \/ PasswordRead
LoginNext == LoginStep \/ Typing \/ ShellEnds \/ Interrupted \/ Administer
=============================================================================
