# A TLA+ development of ba6

`ba6` is one static binary that holds some 170 Unix commands: among them an
`init` for PID 1, account administration, a DHCP client, partition editors, file
utilities, network tools, a shell and text processors. The source is a flat
directory of Go files, one or a few per command. Commands share no memory: what
they share is the file system, the disk, the network and the kernel's process
table, and nearly all of what is hard about them happens there.

This directory holds TLA+ models of its parts, the TLC configurations that check
them on small instances, and proofs, checked by TLAPS, of the theorems that
matter most. There are two kinds of model. Where correctness depends on the
order in which things happen - init, the account commands, mv, the DHCP client,
the partition editors, the commands that run others, login - a module is a state
machine with one action per step of the code, with crashes, failures and other
processes around it. Where a command is a function of its options and its input
- the text tools, the shell and awk as interpreters, the rule sets of iptables,
the file and archive commands - a module defines that function as the code
computes it, and a run compares it with what the command promises on every
input of a small set.

`PROJECT.json` lists the components, the runs, the definitions with the source
lines they stand for, the theorems, the findings and the hazards.

## Running it

    tlc -workers 2 -config MCInit.cfg MCInit
    tlapm InitSystemProofs.tla

Each `MC*.tla` extends or instantiates the modules it checks and defines the
values its configurations give the constants. There are a dozen runs of at most
three minutes or so each: one per state machine with everything that must hold
(one for both labels of cfdisk), a second one for init's liveness, which needs a
specification of its own, one for the functions, and four that show a place
where the code does other than the repository says. A bound is therefore chosen so that one run has all of the
interesting cases.

## Inventory

What each part of the program keeps, does and shares, what is hard about it, and
what makes it correct. *Modelled in* names the modules; a dash means not yet.

| Part (source) | State and operations | Hard behaviour | What makes it correct | Modelled in |
|---|---|---|---|---|
| init, inittab mode (`init_linux.go`) | the services with pid, failures and next start; the map from pid to service; disabled pids; a signal channel of 32. Boot entries in order, respawn with backoff, reload, power and ctrlaltdel entries, shutdown | pids are recycled; signals arrive while init is blocked in an entry; a reload drops and relists a service whose process still runs; children ignore SIGTERM | the tables agree with the kernel's; one wanted process per service; failures are not forgotten by a reload; every child is reaped; nothing is unmounted before all are killed, or powered off before the last write is flushed | `ServiceManager`, `InitSystem`, `InitSystemProofs` |
| init, command supervisor (`init_linux.go:461`) | one child in its own process group | a second signal during the grace period; the child ends before its group | the child's status is passed on, orphans are reaped | `Children`, `Runners`, `ProcessesProofs` |
| accounts (`accounts_linux.go`, `passwd_linux.go`) | passwd, shadow and group in memory; a lock file; staged files. useradd, adduser, groupadd, passwd with -l -u -d | several commands at once; three files replaced by three renames; kills and power losses between them; a home directory made before the commit | no user without password line or primary group; identifiers unique; a success is kept; a failed useradd leaves no home | `AccountDB`, `AccountStore`, `AccountDBProofs` |
| mv with backups and the copy behind it (`mv.go`, `backup.go`, `cp.go`) | what stat and lstat found, the backup's name, the copier's status | another mv changes the target after the lstat; rename fails across devices and a copy takes its place; partial copies; kills | no content is lost but what a command was told to replace | `MoveFiles`, `MoveFilesProofs` |
| udhcpc (`dhcp_linux.go`, `ip_linux.go`) | transaction number, offer, attempts left; then address, route and resolv.conf | lost, repeated, late and reordered replies; other hosts' replies; failing calls after some succeeded | an address is configured only by the host it was granted to; status 0 means all of the lease is in force; it always ends | `DhcpClient`, `AddressLeases`, `DhcpClientProofs` |
| cfdisk, DOS label (`cfdisk_linux.go`, `cfdisk_extended_linux.go`) | four slots, the logical partitions, the selection, sector 0 as read; new, delete, resize, type, bootable, sort, write | the chain of boot records and the primary table are written one sector at a time; two sessions; the selection outlives its row | tables never overlap; a write leaves the partitions alone; the disk has the old table or the new; what was written reads back | `DosPartitions`, `DosPartitionsProofs` |
| cfdisk, GPT label (`cfdisk_gpt_linux.go`) | both copies as read, the table, unsaved changes; open, create, edit, write | five areas written in turn, kills, I/O errors, power loss with reordered write-back, two sessions | one whole copy of a table at every moment | `GptDisk`, `GptDiskProofs` |
| timeout, xargs -P (`priority_core.go:801`, `execution_tools.go:143`) | children, deadlines, batches, a semaphore and a shared status | a deadline that races the child's end; goroutines that share a status; three limits that cut one list | a late child is killed, a result is passed on, every item is run once, a failure is reported | `Children`, `Runners`, `Xargs`, `ProcessesProofs` |
| sh (`execution_tools.go:601`) | variables, flags of break, continue and exit, status, redirections | nested control flow; flags that one loop must clear and another must not; words expanded more than once | a script does what its text says, a variable has one value | `Shell` |
| getty, login (`getty_linux.go`, `login_linux.go`) | name, attempts, the entries read; passwd and shadow read one after the other | an administrator rewrites the files between the two reads; timeouts and interrupts at each prompt | a shell only for a password that matched what the files held | `LoginSession`, `ProcessesProofs` |
| modprobe, insmod, rmmod (`modules_linux.go`) | modules.dep, loaded modules | a dependency that another process loads or removes | dependencies first, cycles end | - |
| mount, umount, losetup, swap (`system_extra_linux.go`, `priority_linux.go`, `recovery_linux.go`) | mount table and loop devices, held by the kernel | a free loop device taken by another process | options add up to the flags asked for | - |
| switch_root, chroot, pivot_root (`priority_linux.go`) | the mounts | deleting the old root without crossing into the new | nothing outside the old root is removed | - |
| fdisk, sfdisk, blkid, lsblk, mkfs, fsck (`recovery_linux.go`, `mkfs_*.go`) | a table or a file system laid out in memory, then written | layout at the smallest and largest sizes | structures do not overlap and cover the device | - |
| iptables (`iptables_*.go`) | a rule as options, as the kernel's expressions and read back; chains, policies, references | positions and handles in a list the command has changed; steps of one command that fail half-way; masks and negations at their limits | a rule is where it was put, matches what its options say and reads back as them | `Firewall` |
| ip (`ip_*.go`) | netlink requests and replies | replies of dumps in parts, errors in the middle | - | - |
| ping, traceroute, mtr (`network_tools_linux.go`, `diagnostics_linux.go`, `mtr_linux.go`) | probes outstanding, statistics per hop | late, duplicate and unordered replies | each reply is counted once, for its probe | - |
| host, dig, nslookup (`host_linux.go`, ...) | a DNS message | compression pointers | decoding ends | - |
| curl, wget, nc (`network_tools_linux.go`) | a download and its file; two copying directions | half-closed connections, resume | the file is what the server sent, or absent | - |
| tar, cpio, zip (`archive.go`, `cpio_linux.go`, `zip.go`) | the archive, the tree it is made from or unpacked into, directories to be closed at the end | links and names inside the archive, files in the way, damage in the middle | what comes back is what went in; nothing outside the target is written; what was there stays unless it may be replaced | `Files`, `Archives`, `Cpio` |
| gzip, bzip2, xz, zstd (`compression.go`, `archive.go`; the codecs are not modelled) | names and suffixes, the file that is replaced | a failure before the output is complete; outputs that exist; several names | the input is kept until the output is whole; nothing is lost in silence | `Compression` |
| cp, rm, mkdir, rmdir, ln, readlink, realpath, touch, chmod, chown, chgrp (`cp.go`, `links.go`, `permissions.go`, ...) | a walk over a tree with links, modes and owners | a source and a target that are one file, links into the tree itself, directories that may not be searched | the walk touches only what it was told and what it copies reads as its source | `Files`, `FileTools`, `Permissions` |
| find, test, expr (`find.go`, `testcmd.go`, `core_extra.go`) | an expression parsed by descent, the flags -prune and -quit leave between two visits | precedence and short circuit; a flag left from the file before | an expression means what its operators say, a walk goes where it may | `Queries` |
| ls, tree, du, df | they read and print | - | - | - |
| grep, sed (`grep.go`, `sed.go`) | context held back, counts; pattern and hold space, open ranges, output files | the boundary between two matches, two files or two ranges | lines are selected as patterns, addresses and ranges say, each printed as often as it should | `Grep`, `Sed` |
| awk (`awk.go`) | record, fields, variables, flags of next, exit, break | fields assigned beyond NF; flags left set; values that are a number and a text | a program's text, decisions and values mean what they say | `Awk` |
| sort, uniq, comm, join, cmp, diff | lines, runs, groups; the edit script | keys that end in the middle of a blank, equal lines, a missing last newline | nothing is lost or shown twice, every number is that of its line | `SortTools` |
| cut, tr, fold, expand; cat, head, tail, split, paste, ...; od, hexdump, strings, base64, printf, seq | a ring, a column, a piece, a unit carried over a boundary | input that ends at, before or after the boundary | put together again, the output is the input | `ColumnTools`, `StreamTools`, `Dumps` |
| nano, less, ncdu, top | a cursor, a window, a mark | a window resized or a file shortened under the cursor | the cursor is inside the text, the window shows the cursor | - |
| ps, lsof, ss, netstat, df, lspci, dmesg, sysctl, id, ... | none: they read the kernel's tables and print | processes end between two reads | - | - |
| main, help, completion, hardening, seccomp | tables fixed at build time | - | - | - |

How they interact. `getty` is run by `init` and runs `login`; `login`, `passwd`
and the account commands share the account files, the last two under a lock;
`halt`, `poweroff` and `reboot` send `init` a signal; `udhcpc` uses the route
and address requests of `ip`; `mv` uses the copier of `cp` and the backup names
of `backup.go`, which `cp` and `ln` use too; `tar`, `zip` and `cpio` share the
code that extracts; `find`, `xargs` and `timeout` run other commands. All else
goes through the kernel. `LoginSession` has the account files rewritten under
login's feet; `FileTools`, `Archives`, `Cpio` and `Compression` work on the one
file system of `Files`.

## Modules

| Module | What it is |
|---|---|
| `ServiceManager` | abstract: what an administrator may rely on of init - services run, are stopped and restarted, and the machine goes down in order |
| `InitSystem` | init as written: one action per step of the main goroutine, the kernel and the administrator around it |
| `InitSystemProofs` | type correctness, the table invariants, the backoff, the shutdown order and the refinement, proved |
| `AccountStore` | abstract: one store in which each command takes effect in a single step |
| `AccountDB` | the commands as written: lock, load, change, stage, rename, sync, with kills and power losses |
| `AccountDBProofs` | types, completeness and uniqueness, what success promises, home directories and the refinement, proved |
| `MoveFiles` | mv, one system call at a time |
| `MoveFilesProofs` | types, that nothing is lost, and that a replaced name is never gone, proved |
| `AddressLeases` | abstract: an address is granted, then configured by the host it was granted to |
| `DhcpClient` | udhcpc, the link and the servers |
| `DhcpClientProofs` | types, exclusive use, the refinement, and what status 0 means, proved |
| `DosPartitions` | cfdisk on a DOS label |
| `DosPartitionsProofs` | sorting and the chain of boot records, types, sound edits, untouched data, reading back and the first chain, proved |
| `GptDisk` | how cfdisk puts a GPT on a disk |
| `GptDiskProofs` | types, what a clean session shows, and that a copy always survives, proved |
| `Children` | the processes a command starts, as the kernel keeps them |
| `Runners` | timeout and `init COMMAND` |
| `Xargs` | xargs: the items, the batches, and -P's goroutines |
| `LoginSession` | getty and login on one line, and the files they read |
| `MCProcesses` | the three above in one specification, one command per behaviour |
| `ProcessesProofs` | what `init COMMAND`, xargs and login promise, proved |
| `Text` | characters and lines, shared by the functions |
| `SortTools`, `ColumnTools`, `StreamTools`, `Dumps`, `Queries`, `Grep`, `Sed`, `Shell`, `Awk` | text tools and interpreters |
| `Firewall` | iptables, with the kernel's tables: which exist, which transactions succeed, which jumps it refuses |
| `Files` | the file system: paths, inodes, links, modes, and the calls the commands make |
| `FileTools`, `Permissions` | cp, ln, rm, mkdir, rmdir, touch, readlink, realpath; chmod, chown, chgrp; as root or as a user who owns some of the files, on a disk that may be full |
| `Archives`, `Cpio`, `Compression` | tar, zip, unzip; cpio; gzip, bzip2, xz, zstd as commands |
| `MCTools` | the run of the functions; its cases and laws are there, in `MCScripts` (grep, sed, sh, awk, find, test, expr) and in `MCSystem` (iptables, files, archives, compressors) |

### InitSystem

init is one goroutine, so `pc` is the place it has reached. A phase named after
an inittab action is inside `runInitActions` for it; while an entry runs,
`jobPid` is the process waited for and the goroutine is blocked, which is when
signals pile up. `svc`, `byPID` and `disabled` are the fields of the same names
in the code; `proc` is the kernel's process table, with recycled pids; `sigq`
is the channel of `signal.Notify`, which drops what does not fit. Time is
counted in seconds and saturates, so that it is unbounded and the state is not.
`startDueInitServices` reads the clock once and uses the reading for every start
of its loop (`init_linux.go:405`), and a start may open a terminal and block
(354): `since` is how old the reading is, and a service that was started keeps
in `late` by how much its `started` lies before the fork.

Parsing of inittab, the hostname and the console devices are left out. An entry
is a value with an action; the file is one of a set of sequences of entries.

| Run | What it shows |
|---|---|
| `init` | with signals and administrator's edits at any moment: service table, pid map and process table agree; at most one wanted process per service; a failing service waits for its backoff and its failures are forgotten only after a run that counts as stable; sync, SIGTERM, SIGKILL, unmount, sync and reboot come in that order, whatever arrives; init implements `ServiceManager` |
| `init_live` | under fair scheduling zombies are reaped, a service that failed is tried again, and a shutdown reaches the reboot call |

Two pids are enough for a pid that is recycled while a process of a service that
was dropped still runs. `MaxAdmin` bounds the signals sent to init; edits of
inittab are free, and become visible by the signal that follows them.

Fairness: init's own goroutine keeps running (weak fairness of its steps) and the
clock ticks; of a signal and the ticker, which are both ready again and again,
Go's `select` takes either, so receiving is strongly fair. Two things are assumed
of the rest of the machine, each by name. `JobsEnd`: a boot entry ends, since
init waits for it without a limit. `OrphansPause`: orphans do not go on arriving
for ever while init is in one loop of `wait4`; the loop ends only when nothing is
left to reap, so a stream of orphans that never pauses would keep init in it.
Nothing is assumed of services.

`SigCap` is 1 (32 in the code): every state in which something is dropped is
then reached early. `MaxShift` (5 in the code) and `StableAge` (5) are 1: the
exponent is capped, and a run is stable, in both; `MaxShift` is 0 in `init_live`,
where no property compares two delays. A history variable of `MCInit`, `quiet`,
counts for `BackoffHonoured` the seconds since a service's process was reaped,
or since the clock reading of the loop in which its start failed.

Both properties of the backoff are about seconds counted from that reading, as
the code counts them. After a start that blocks for d seconds the services
started next in the same loop are taken to have run d seconds longer than they
did, so that one that crashes at once can pass for stable, and the delay after a
start that fails is d seconds shorter: nothing in the code bounds d, and no
property says more.

What is dropped may be more than a SIGCHLD, which the next one makes good: after
32 boot children have ended while entries still run, the channel is full and a
SIGTERM sent then is lost, so that the machine does not reboot
(`init_linux.go:257`; `help.go:752` says "SIGTERM reboots" without more).

Proved, for any services, pids, inittabs and bounds: `TypeOK`; `TablesAgree`
and `OneWantedProcess`, from an invariant that adds which of the pids are
disabled and what was sent to them; `FailuresForgiven`; `BackoffHonoured`, of
the specification with the history variable, from the invariant that the time a
service has been left alone and the time it still has to wait add up to its
`respawnDelay`, and that who is due has nothing left to wait; the shutdown order
(`NothingLostAtShutdown`), from an invariant that says for each phase which
processes can still be alive and which writes are flushed; and that every step
is a step of `ServiceManager` or a stutter (`ImplementsManager`).

### AccountDB

A process holds a `job`: the command, its place, and its copies of the files.
`etc` is what `open` finds and `durable` what a power loss leaves: a rename moves
the first, the sync of the directory the second. `.pwd.lock` is the variable
`holder`; it is taken without waiting. passwd looks the account up, and decides
between passwd and shadow, before it prompts and before it takes the lock, as in
the code. Staged files left behind by a kill are not modelled: their names are
random and nothing reads them. adduser of a member already in the group writes
nothing and is not counted as a success to be kept. `abandoned` has the
users whose home directory was made by a command that was then killed or lost
power; nobody removes such a directory if its user never gets into passwd, and
`NoOrphanHome` excuses these and no others. `useradd -o` is excluded,
because it makes identifiers shared on purpose; `useradd -N` needs group 100 to
exist (`InputAssumption`).

| Run | What it shows |
|---|---|
| `accounts` | two processes, any three commands, one kill and one power loss at any moment: complete and unique files, successes kept, no orphan home directory but one whose own maker was killed or lost power; and but for a power loss every step is one of `AccountStore`, where each command takes effect at once |

Proved, for any processes and commands: `TypeOK`, `AccountsComplete`,
`IdsUnique`, `SuccessKept`, `NoOrphanHome` and `StoreSpec`. The invariant
(`Inductive`) says what a holder of the lock knows: that `etc` is what it loaded,
with the files it already renamed, and that each prefix of its renames, applied
to `etc` or to `durable`, is complete. That is why the order shadow, group,
passwd matters. For what success promises it is strengthened to `Told`: of a
holder's copy, that only the lines of its own name differ and members are only
added (`Touches`); of the files, that what was promised holds of `durable`
already and of everything that came after (`Promises`); of a home directory, that the
command that made it is there to answer for it until its user is in passwd, and
that the user is durable once that command has ended, so that a later power loss
cannot take it away (`HomesKnown`). The refinement follows from the same facts: the rename of the
file that holds a command's effect is the store's step, the others are stutters.
Assumed of the constants: names, hashes and identifiers are different things
(`NameAssumption`), and the first files are complete (`InputAssumption`).

### MoveFiles

Each action is one system call of `moveOne` and `moveFile`, or one file of the
copy; `job` has what the earlier calls found. What a path names is absent, a
file or a directory of files. A copied file holds the name of the copying
process until it is whole. `replaced` and `reported` are the contents a command
was told it may replace, or reported as failed. Links and attributes are left
out. A directory being copied is no target of the other process: a file put
there meanwhile would be removed with the source (the hazard at `mv.go:239`).

| Run | What it shows |
|---|---|
| `move` | two processes with every option and backup method, a copy across devices that fails for some file, and a kill: no content disappears in silence, and a target replaced by rename is there at every moment |
| `move_across` (violation) | a file of a directory that could not be copied is removed with the source, status 0 |

In `move` only one of the two processes makes backups: two that compute the same
backup number replace each other's, by construction of a directory listing
followed by a rename. Two more limits: of two `mv -n` onto one
name the second can replace what the first moved, and with -f any failed rename
removes the target before the retry fails again (`mv.go:325`). A directory that
cannot be made or read ends its copy and leaves the source; under -f a file that
cannot be opened is removed and opened again (`cp.go:639`), and if that fails it
is reported and gone.

Proved, for any number of processes, commands, paths and devices: `TypeOK` and
`ReplacedWhole`, whatever the commands are. `NothingLost` is proved of commands
that are `Separate`, which is the hypothesis of the theorem `Lossless` and what
mv cannot see: nobody moves something to a name while it is copied
from, or to a target that -n or a backup is to spare, and, if several processes
copy, nobody moves on what another one writes. Without each of these the limits
above are counterexamples, so nothing is proved or checked of how -n and the
backups of two processes interfere at one target: there mv does lose files. The
commands of the run are `Separate` too (`SeparateCommands`). The invariant `IInv`
says that what a copy has finished is doomed at its source, and that every content nobody may replace is
somewhere it is not doomed (`Safe`); for this to be kept, a file half written is
at its copier's target (`OpenAtTarget`), nothing half written is being copied
(`Clean`), and a job at each place still has what its checks found (`JobOK`).

### DhcpClient

`wire` is the set of packets ever sent: each may arrive at any time, in any
order, more than once, or never. Replies are
broadcast. Servers are external: they offer a free address of their pool, grant
it to one host and never end a lease; with ends, two hosts may hold one address,
because udhcpc never renews. One client per host.

| Run | What it shows |
|---|---|
| `dhcp` | two hosts with one transaction number, two runs in all, with failing calls and kills: an address is configured by one host only, the exchange implements `AddressLeases`, every run ends, and status 0 means address, route and name servers are in force |

The reply to a REQUEST is the next of any type. Of two servers that answer one
DISCOVER, nothing lost or late, the second one's OFFER is taken for it and the
attempt is wasted although the ACK is on its way: with `-t 1` udhcpc says that
no lease was received (`dhcp_linux.go:154`, `168`; `help.go:586` promises one).

Fairness: each client takes its next step. Its reads have a deadline, so a read
that gets nothing ends. Servers and the link need not do anything.

Proved: `TypeOK`, `Exclusive`, `LeaseSpec`, `SuccessConfigured`. The invariant
`Granted` says that every ACK on the wire is for the holder of its address,
which is what makes old and overheard replies harmless.

### DosPartitions

A sector holds a boot record or nothing with a signature; a boot record has a
partition relative to it and a link. `disk` is what `read` shows, `durable` what
the medium holds. `MCCfdisk` runs this module and `GptDisk` in one
specification, a disk with one label or the other in each behaviour. Edits are one action per key, with any number a prompt can be
given. `Slots` is 2 and `Align` 2 in the runs (4 and 2048 in the code), on a disk
of 6 sectors, so that a container has room for no, one or two logical
partitions. A machine meets interruptions (kills and I/O errors) or power losses
(`trouble`), not both: a table left unsynced by a killed session is not the
next one's to answer for.

| Run | What it shows |
|---|---|
| `cfdisk` | on a DOS label, any three edits with writes, failures, kills or a power loss, on a disk that is empty, has two logical partitions, or was packed by another program: no overlaps, the partitions' sectors are left alone, a chain that starts where it is looked for reads back, and a disk's first chain appears whole or not at all |
| `dos_read_back` (violation) | deleting the first logical partition writes nothing over its record: it is back in the next session |

Three more things that met the eye have no run of their own. `FirstChainCommitted`
is about a disk's first chain because the comment it restates
(`cfdisk_linux.go:1057`: a crash never leaves an entry that points at a chain
that was not fully committed) does not hold later: the records of a chain that
is on the disk are overwritten one by one. State `panic` is
reachable (in `cfdisk`): after the last logical partition of a packed container is
deleted, `selected` is past the slots, `selectedRow` clamps its own index only,
and `deletePartition` and the other operations on primary rows index the slots
with the selection itself (`cfdisk_linux.go:679`). And `verifyWriteTarget`
compares sector 0 only, so that of two sessions without `--lock` one overwrites
boot records the other has just written (`cfdisk_linux.go:1096`).

One more limit was met in the proof: a container may be given more than 256
logical partitions (`ChainLimit`), all of which are written, and the next session
refuses to read them (`cfdisk_extended_linux.go`, `cfdiskEBRChainLimit`). That is why
`Linked` bounds their number. An extended partition at sector 0, whose first boot
record would be the table itself, is left out (`DiskAssumption`).

Proved, for disks and tables of any size, any number of sessions and edits:
`TypeOK` and `EditsKeepSound`, whoever locks; and, if all sessions use `--lock`,
`LinkedReadsBack`, `DataUntouched` and `FirstChainCommitted`. The lemmas under
them are about the operators: sorting moves each partition to a slot of its own
and keeps the container (`PlaceFacts`, `SortedSound`); the records of a checked
chain are apart from each other, from sector 0 and from all data (`ChainApart`);
and a chain built by `BuildChain` reads as what it was built from, however long
(`ChainReadsBack`). The invariant has three layers: `SessionOK`, that a table on
its way to the disk has been checked and not changed since; `Alone`, that one
session is open at a time; and `Committed`, that the step a write has reached says
what the disk shows (`Written`) and, where power is lost, what the medium may lack
(`Settled`). Locking is not the default, and without it the last three are false:
that is the third point above.

### GptDisk

The disk is five areas: the protective MBR, two headers and two arrays of
entries; `shown` is what `read` shows of them, `medium` what the medium holds. A
header stands for the table its checksum covers. A table is a value: an edit makes it another valid one (the alignment arithmetic of GPT edits is
like that of `DosPartitions` and is not repeated). `fresh` marks a session that
makes a label on a disk that has none.

| Run | What it shows |
|---|---|
| `cfdisk` | on a GPT, two locking sessions, killed or failing anywhere, or with two power losses and write-back in any order: a clean session shows what is on the disk, one whole copy is always left, and the protective MBR never announces a table that is not there |

Proved, for any number of sessions: `TypeOK`, `CleanIsOnDisk`, `KeepsCopy`,
`LabelAfterTable`. The invariant has `Alone` (one session works at a time),
`Stage` (what is on the disk at each step of the write) and, under power loss,
`Settled` (what is on the medium). The last three assume that every session uses
`--lock`, which is not the default; without it a session that writes while
another does can destroy both copies, and nothing is stated. As in
`DosPartitions`, `threat` says whether sessions are interrupted or the power goes, not both: a session killed before
its last sync followed by one that starts to write, and a power loss, can leave
no copy (a hazard).

### Runners, Xargs, LoginSession

`Children` is the kernel's side of a command that starts others: a child runs,
is a zombie with its status, or has been waited for. On it, `Runners` has
timeout (the channel of `Wait`, the timers, -k) and `init COMMAND` (its signal
channel, the grace period, the reaping of adopted processes), with a process the
command starts in its group and one that has left it. `Xargs` reads options,
words, quotes and lines, cuts the items into batches under -n, -s and -L, and
has one goroutine per batch with the semaphore of -P and the status they all
write. `LoginSession` has the processes on one terminal line: getty reads a name
under a timeout, login asks, reads passwd, then shadow, compares, and tries
again or starts the shell; an administrator rewrites either file at any moment
and the line sends interrupts. `past` is a history variable: what the files held
since the password was typed.

| Run | What it shows |
|---|---|
| `processes` | every item is run once and in order under every combination of limits, in command lines that keep to them and could not have held one item more; the status of xargs is 0 exactly when no batch failed, those that could not be started included; no running process of the supervised group was spared SIGKILL; a shell was earned; commands end |
| `xargs_slots` (violation) | with -P 2 two children that run together get one slot number |

Bounds: five children, one signal for the supervisor, two rewrites of the account
files, two sessions; the invocations of xargs are thirteen option lists on six
inputs. One rewrite is what a stale read needs, two are needed for both of an
account's entries to change between the reads; with two sessions the second one
finds the line as the first left it.

`ShellEarned` says what login can promise without a lock: the entries it compared
the password with were in the files after the password was typed, and at one
moment, or else both were rewritten between the two reads, and then the pair may
never have been the account's. `login -f` asks for no password.

Fairness: the commands go on while they can (one condition for all of them,
since a command takes finitely many steps of its own), a process that was sent
SIGKILL ends, and the children xargs has started end. Nobody has to type, and
nothing is assumed of the command that timeout or init runs.

Proved, for any options, inputs, children, users and contents of the files, and
any number of signals, rewrites and sessions: `GroupEnded`, `FailureReported`,
`ShellEarned` and `ItemsRunOnce`. The invariant `ProcessesOK` has a part per
command: once the command of `init COMMAND` is reaped nothing can start another
process in its group (`SupervisorOK`); batches are started in order and the
status shows every failure reaped so far (`BatchesOK`); and what login has read
in this attempt is among what the files have held since the password was typed
(`AttemptOK`).
Assumed: the three children of a runner are children (`RunnersAssumption`), an
input is cut into no more batches than there are children
(`InvocationAssumption`), an invocation is a list of options and lines of words
(`InvocationType`), and options name users (`LoginAssumption`).

`ItemsRunOnce` is about what loops over the input compute. Each loop is a fold,
and each has a lemma that restates it as a recurrence (`LineItemSteps`,
`WholeLinesSteps`, `ParsedSteps`, `JoinedSteps`, `BatchSteps`). The induction over
the length of the input is a fact about sets: a set of numbers with 0 that is
closed under successor up to n holds 0 .. n (`SetInduction` and `UpTo`, from the
well-foundedness of the order), so that no theorem with an operator parameter is
needed. The argument then follows the stages of the code: parsing leaves one of
-n, -L and -I, and limits that are not negative (`ParsedTyped`); joining lines
keeps every word and marks the last of each line (`JoinedRight`); -E cuts a prefix
(`CutRight`, `CutShorter`); and the loop of `xargsBatches` keeps that what is
done, then what is current, is what was read, that the length it carries is that
of the current command line and the count it carries that of the input's lines
that end in it, that every command line is within -n, -s and -L, and that every
one that is done could not have taken the item after it (`LineStep`,
`BatchStepKeeps`, `BatchesRight`). The proof showed a
case the first statement of the property forgot: with an empty input the command
is run once without an item, even where -s is below its own length.

Not in a property: `-0` or `-d` with `-L` panics (`execution_tools.go:458`); under
`-L` the items of a last line that ends in a blank and has no newline are lost
(`execution_tools.go:315`), and `ItemsRunOnce` leaves that input out; a
login killed at the password prompt leaves ECHO off; timeout may signal a
process group whose number is used again.

### The functions

`MCTools` has one state per case: a tool, its options and its input; the
properties are action properties of the step that ends a case. What is
asked of a tool is a law that does not repeat its code: a reference definition
(the sorted permutation, the longest common subsequence, the tree an expression
was written from), a relation between two tools (what was packed unpacks, what
`od` shows are the bytes, what is read back is what was set), or what must not
happen (a file changes that was not named, a line is shown twice). The laws are
six properties, one per theme, so that each is about more than one tool:

| Property of run `tools` | What it shows |
|---|---|
| `SortedFiles` | sort is stable and sorted under its keys and finds the first disorder; uniq's groups, comm's columns and join's pairs add up to their inputs; diff's changes turn one file into the other, as few as can be, and its hunks and cmp's numbers are those of the lines |
| `ColumnsAndStreams` | cut, tr, tabs and fold keep columns; head and tail, tac, split, paste, tee, cat and wc lose nothing at a boundary; strings, od, hexdump and base64 show the bytes that are there; printf and seq write what they are asked for |
| `Answers` | expr, test and find give an expression the value of the tree it was written from; find visits every path it may, once; a glob matches what it stands for |
| `Lines` | grep's lines with their context, counts and statuses, down a tree too; sed's ranges as intervals, substitutions counted, well-known scripts, -i |
| `Scripts` | sh and awk parse a statement's text to that statement; guards, loops, variables, arithmetic, fields and records mean what they say |
| `Systems` | iptables rules match what their options say, read back as them, and are where they were put; chmod and chown settle what they name; a copy reads as its source; links lead where they were asked to; archives come back as they went in, and extraction stays inside and spares what it must; compressors lose nothing |

A regular expression is literal text, anchored or not: what `regexp` does with
it is not the program's code. The text tools read a character as its code; the
file tools work on trees of some ten names, with a hard link, links to a file, a
directory, nothing and themselves, and a second device. The archives' and
compressors' formats are records, and damage is a mark on one. cpio's stream is
a sequence of tokens. Handles, offsets and sizes are numbers.

Bounds that stand for larger ones of the code, all reached by a case:
`MaxLinks` 3 (40 in the kernel), `MaxExpanded` 4 (64 GiB an extraction may
write), `NameMax` 6 and `FieldMax` 3 (cpio's 65,536 and 2^32 - 1), `RatioWord`
2^20 (the 64-bit word a ratio is computed in), `FieldLimit` 4 (awk's 65,536),
`DiffCells` 120 (4,000,000 cells of diff's table), `AddressBits` 4 (32),
`ArithWord` 2^8 (the shell's 64-bit numbers), hexdump's
line of two units (16 bytes), `Word` 2^16 (printf's 64-bit numbers). `Turns` bounds the times a loop of the shell or
of awk goes round in the model.

| Run | What it shows |
|---|---|
| `awk_literals` (violation) | `print $1 "-" $2` prints the difference of the fields: a sum looks for its operators without asking whether they are operators (`awk.go:1088`, and a product likewise), where the comment on `take` (`awk.go:1514`) has a literal "-" never mistaken for one |

What the laws leave out, because the code does otherwise, is said at each law;
`tools` passing says nothing of these cases. One contradicts a comment: od -N and
hexdump -n show bytes of a last unit that are past the region, which the comment
on `dumpWord` has extended with zeros (`core_extra.go:950-959`, left out by
`Overruns`). The most telling of the others: cp onto a symbolic link to its own
source empties the source (`cp.go:503`); `ln -sf a a` loses a; a stale `-prune`
with -mindepth (`find.go:268`); diff of two equal files beyond the table's limit
reports all of it (`core_extra.go:1986`); printf's %u prints its number behind a
marker of Go's fmt, which has no such verb (`core_extra.go:105`, left out by
`NoSuchVerb`); `break` outside a loop is remembered;
awk's `&&` and `||` compute both sides, and a flag left by the last record stops
END; `iptables -R` is two transactions; an error in the middle of an extraction
leaves directories at mode 0700; unzip does not compare checksums when it
extracts (`zip.go:787`); `gunzip -N -f` can lose a file whose stored name is its
own.

## What is proved and what is checked

The theorems hold for every value of the constants allowed by the named
assumptions. Safety and refinement are proved by one inductive invariant per
module, with a step per action; TLC checked each invariant on a run before it was
proved. All safety properties of the state machines are proved, and so are the
three refinements, with these exceptions:

- liveness (`ZombiesReaped`, `ShutdownCompletes`, `ServicesRetried`, `Terminates`,
  `CommandsEnd`) is out of the prover's reach;
- the functions use recursive operators, which the prover does not take, and are
  compared with their laws on the cases of `MCTools` only.

The theorems about locking editors assume `Locking = Sessions`, in the theorem
itself and not as an assumption of the module: the runs have it, the default of
cfdisk does not. The theorem `Lossless` about mv has the hypothesis `Separate`, which says
what callers have to keep to. Modules that are proved about use recursive
functions or none, never `RECURSIVE` operators.

## Not modelled

Disk tools other than cfdisk (fdisk, sfdisk, mkfs, fsck) compute a layout and
write it once; their on-disk encodings and checksums are out of reach of model
values. The codecs are bit streams, the hash functions arithmetic. nano, less,
ncdu and top keep a cursor and a window that only their own keys change. ip,
ping, traceroute, mtr, host, dig, curl, wget and nc are exchanges with a kernel
or a server one request at a time, mostly in Go's library. ls, ps, lsof, ss, df
and the like read and print. What is left out of a component that is modelled in
part is in its note in `PROJECT.json`.

## What could follow

1. Proofs: of the functions, those that can be written without `RECURSIVE`.
2. mtr's and ping's statistics under late and duplicate replies; the netlink
   loop of ip; downloads of curl and wget with resume.
3. nano's save and less's search as cursor and window machines.
4. Layouts of mkfs and of sfdisk's scripts: regions disjoint and covering.
